------------------------ MODULE FilepathNormalizeProofs ------------------------
(****************************************************************************)
(* Proofs about FilepathNormalize, for paths and outputs of any length.     *)
(****************************************************************************)
EXTENDS FilepathNormalize, Integers, SequenceTheorems, WellFoundedInduction, TLAPS

\* The object holds a string of n bytes, with anything behind its terminator.
StringOf(object, n) ==
    n < Len(object) /\ (\A k \in 1 .. n : object[k] # NUL) /\ object[n + 1] = NUL
-----------------------------------------------------------------------------
\* Natural numbers: the least of a set, the greatest of a bounded one, induction.

LEMMA LeastNatural ==
    ASSUME NEW T \in SUBSET Nat, T # {}
    PROVE  \E x \in T : \A y \in T : x <= y
<1>1. PICK R : R = OpToRel(<, Nat) /\ IsWellFoundedOn(R, Nat)
  BY NatLessThanWellFounded
<1>2. PICK x \in T : \A y \in T : ~ (<<y, x>> \in R)
  BY <1>1, WFMin
<1>3. \A a, b \in Nat : a < b => <<a, b>> \in R
  BY <1>1 DEF OpToRel
<1>4. ASSUME NEW y \in T PROVE x <= y
  <2>1. x \in Nat /\ y \in Nat
    OBVIOUS
  <2>2. ~(y < x)
    BY <1>2, <1>3, <2>1
  <2> QED
    BY <2>1, <2>2
<1> QED
  BY <1>4

LEMMA GreatestNatural ==
    ASSUME NEW T \in SUBSET Nat, T # {}, NEW b \in Nat, \A x \in T : x <= b
    PROVE  \E x \in T : \A y \in T : y <= x
<1>1. PICK m \in {b - x : x \in T} : \A y \in {b - x : x \in T} : m <= y
  <2>1. {b - x : x \in T} \in SUBSET Nat
    OBVIOUS
  <2>2. {b - x : x \in T} # {}
    OBVIOUS
  <2> QED
    BY <2>1, <2>2, LeastNatural
<1>2. PICK x \in T : m = b - x
  BY <1>1
<1>3. ASSUME NEW y \in T PROVE y <= x
  <2>1. m <= b - y
    BY <1>1
  <2>2. x \in Nat /\ y \in Nat
    OBVIOUS
  <2> QED
    BY <1>2, <2>1, <2>2
<1> QED
  BY <1>3

LEMMA Induction ==
    ASSUME NEW T, 0 \in T, \A n \in Nat : n \in T => n + 1 \in T
    PROVE  Nat \subseteq T
<1> SUFFICES ASSUME Nat \ T # {} PROVE FALSE
  OBVIOUS
<1>1. PICK x \in Nat \ T : \A y \in Nat \ T : x <= y
  BY LeastNatural
<1>2. x # 0 /\ x - 1 \in Nat
  BY <1>1
<1>3. x - 1 \in T
  BY <1>1, <1>2
<1> QED
  BY <1>2, <1>3, (x - 1) + 1 = x
-----------------------------------------------------------------------------
\* The input and what is in it.

Results == {"none", "running", "ok", "err", "invalid_parameter", "invalid_path", "undefined"}

Types ==
    /\ input \in Inputs /\ above \in OutAboveInput /\ out_len \in OutLengths
    /\ out \in [0 .. out_len - 1 -> Bytes \cup {JUNK}]
    /\ scan_pos \in Nat /\ write_pos \in Nat
    /\ result \in Results

length == Len(Path)

LEMMA ByteFacts ==
    /\ SEP # DOT /\ SEP # NUL /\ SEP # LEAD /\ SEP # CONT
    /\ DOT # NUL /\ DOT # LEAD /\ DOT # CONT /\ NUL # LEAD /\ NUL # CONT /\ LEAD # CONT
    /\ JUNK \notin Bytes
  BY ConstantsAssumption DEF ConstantsAssumption

LEMMA PathIs ==
    ASSUME input \in Inputs
    PROVE  /\ input \in Seq(Bytes) /\ Path \in Seq(Bytes) /\ length \in Nat
           /\ length < Len(input) /\ Len(input) \in Nat
           /\ \A k \in 1 .. Len(input) : input[k] \in Bytes
           /\ \A k \in 1 .. length : Path[k] = input[k]
           /\ StringOf(input, length)
<1>1. PICK n \in Nat : StringOf(input, n)
  <2> DEFINE T == {i \in DOMAIN input : input[i] = NUL}
  <2>1. /\ DOMAIN input = 1 .. Len(input) /\ Len(input) \in Nat
        /\ \E i \in DOMAIN input : input[i] = NUL
    BY ConstantsAssumption, LenProperties DEF ConstantsAssumption
  <2>2. PICK i \in T : \A j \in T : i <= j
    <3>1. T \in SUBSET Nat /\ T # {}
      BY <2>1
    <3> QED
      BY <3>1, LeastNatural
  <2>3. i - 1 \in Nat /\ i - 1 < Len(input) /\ (i - 1) + 1 = i /\ input[i] = NUL
    BY <2>1, <2>2
  <2>4. ASSUME NEW k \in 1 .. i - 1 PROVE input[k] # NUL
    <3>1. k \in DOMAIN input /\ ~(i <= k)
      BY <2>1, <2>3
    <3> QED
      BY <2>2, <3>1
  <2>5. StringOf(input, i - 1)
    BY <2>3, <2>4 DEF StringOf
  <2> QED
    BY <2>3, <2>5
<1>2. PICK s \in Seq(Bytes) : s = input /\ Len(s) \in Nat /\ DOMAIN s = 1 .. Len(s)
  BY ConstantsAssumption, LenProperties DEF ConstantsAssumption
<1>3. \A k \in 1 .. Len(s) : s[k] \in Bytes
  BY <1>2, ElementOfSeq
<1>4. /\ n + 1 \in DOMAIN s /\ s[n + 1] = NUL /\ \A j \in 1 .. (n + 1) - 1 : s[j] # NUL
  BY <1>1, <1>2 DEF StringOf
<1>5. ASSUME NEW i \in DOMAIN s, s[i] = NUL, \A j \in 1 .. i - 1 : s[j] # NUL
      PROVE  i = n + 1
  <2>1. i \in Nat /\ i >= 1
    BY <1>2
  <2>2. ~(i <= n)
    BY <1>1, <1>2, <1>5, <2>1 DEF StringOf
  <2>3. ~(n + 1 < i)
    BY <1>4, <1>5, <2>1
  <2> QED
    BY <2>1, <2>2, <2>3
<1>6. PICK end : /\ end = CHOOSE i \in DOMAIN s : s[i] = NUL /\ \A j \in 1 .. i - 1 : s[j] # NUL
  OBVIOUS
<1>7. end = n + 1
  BY <1>4, <1>5, <1>6
<1>8. Path = SubSeq(s, 1, n)
  <2>1. Path = SubSeq(s, 1, end - 1)
    BY <1>2, <1>6 DEF Path
  <2> QED
    BY <1>7, <2>1, (n + 1) - 1 = n
<1>9. /\ SubSeq(s, 1, n) \in Seq(Bytes) /\ Len(SubSeq(s, 1, n)) = n
      /\ \A k \in 1 .. n : SubSeq(s, 1, n)[k] = s[k]
  <2>1. n < Len(s) /\ n \in Int /\ 1 \in Int
    BY <1>1, <1>2 DEF StringOf
  <2>2. \A k \in 1 .. n : s[k] \in Bytes
    BY <1>2, <1>3, <2>1
  <2>3. /\ SubSeq(s, 1, n) \in Seq(Bytes)
        /\ Len(SubSeq(s, 1, n)) = IF 1 <= n THEN n - 1 + 1 ELSE 0
        /\ \A k \in 1 .. n - 1 + 1 : SubSeq(s, 1, n)[k] = s[1 + k - 1]
    BY <2>2, SubSeqProperties
  <2>4. n - 1 + 1 = n /\ (IF 1 <= n THEN n - 1 + 1 ELSE 0) = n /\ \A k \in 1 .. n : 1 + k - 1 = k
    OBVIOUS
  <2> QED
    BY <2>3, <2>4
<1>10. length = n
  BY <1>8, <1>9 DEF length
<1>11. n < Len(s)
  BY <1>1, <1>2 DEF StringOf
<1> QED
  BY <1>1, <1>2, <1>3, <1>8, <1>9, <1>10, <1>11

\* The indices the scan may be at: those of the path and its terminator, and of the
\* second terminator.
InPath(i) == i <= length \/ (i = length + 1 /\ TwoTerminators)

\* The bytes of the path, by the index the scan has for them.
LEMMA BytesOfPath ==
    ASSUME StaysInPath, input \in Inputs
    PROVE  /\ length \in Nat /\ \A i \in 0 .. length : InInput(i) /\ Byte(i) \in Bytes
           /\ \A i \in 0 .. length - 1 : /\ Byte(i) # NUL /\ Byte(i) = Path[i + 1]
                                         /\ Byte(i) = LEAD => i + 1 < length /\ Byte(i + 1) = CONT
           /\ \A i \in Nat : InInput(i) => Byte(i) \in Bytes
           /\ \A i \in Nat : InPath(i) => InInput(i)
           /\ \A i \in Nat : InPath(i) /\ i >= length => Byte(i) = NUL
           /\ Byte(length) = NUL
<1>1. PICK n \in Nat, m \in Nat : n = length /\ m = Len(input) /\ n < m
  BY PathIs
<1>2. /\ \A k \in 1 .. m : input[k] \in Bytes
      /\ \A k \in 1 .. n : input[k] # NUL /\ Path[k] = input[k]
      /\ input[n + 1] = NUL
  BY <1>1, PathIs DEF StringOf
<1>3. \A i \in Nat : InInput(i) <=> i + 1 \in 1 .. m
  BY <1>1 DEF InInput
<1>4. \A i \in 0 .. n : i + 1 \in 1 .. m
  BY <1>1
<1>5. \A i \in 0 .. n - 1 : i + 1 \in 1 .. n
  OBVIOUS
<1>6. TwoTerminators => n + 2 \in 1 .. m /\ input[n + 2] = NUL
  BY <1>1 DEF TwoTerminators, length
<1>7. \A k \in 1 .. n : input[k] = LEAD => k < n /\ input[k + 1] = CONT
  <2>1. CharactersWhole /\ DOMAIN Path = 1 .. n
    BY <1>1, PathIs, LenProperties DEF StaysInPath, length
  <2>2. ASSUME NEW k \in 1 .. n, input[k] = LEAD PROVE k < n /\ input[k + 1] = CONT
    <3>1. k < n /\ Path[k + 1] = CONT
      BY <1>1, <1>2, <2>1, <2>2 DEF CharactersWhole, length
    <3>2. k + 1 \in 1 .. n
      BY <3>1
    <3> QED
      BY <1>2, <3>1, <3>2
  <2> QED
    BY <2>2
<1>8. ASSUME NEW i \in Nat, InPath(i)
      PROVE  InInput(i) /\ (i >= n => Byte(i) = NUL)
  <2>1. CASE i <= n
    <3>1. InInput(i) /\ (i >= n => i = n)
      BY <1>3, <1>4, <2>1
    <3> QED
      BY <1>2, <3>1 DEF Byte
  <2>2. CASE i = n + 1 /\ TwoTerminators
    <3>1. i + 1 = n + 2
      BY <2>2
    <3> QED
      BY <1>3, <1>6, <2>2, <3>1 DEF Byte
  <2> QED
    BY <1>1, <1>8, <2>1, <2>2 DEF InPath
<1>9. /\ \A i \in 0 .. n : InInput(i) /\ Byte(i) \in Bytes
      /\ \A i \in 0 .. n - 1 : Byte(i) # NUL /\ Byte(i) = Path[i + 1]
      /\ \A i \in Nat : InInput(i) => Byte(i) \in Bytes
  BY <1>2, <1>3, <1>4, <1>5 DEF Byte
<1>10. \A i \in 0 .. n - 1 : Byte(i) = LEAD => i + 1 < n /\ Byte(i + 1) = CONT
  BY <1>5, <1>7 DEF Byte
<1>11. Byte(n) = NUL
  BY <1>2 DEF Byte
<1> QED
  BY <1>1, <1>8, <1>9, <1>10, <1>11

\* A path that ends in a dot component has the second terminator.
LEMMA DotsAtEnd ==
    ASSUME StaysInPath, input \in Inputs, NEW p \in Nat, Byte(p) = DOT, Behind(p),
           p + 1 = length \/ (p + 2 = length /\ Byte(p + 1) = DOT)
    PROVE  TwoTerminators
<1>1. PICK n \in Nat : n = length /\ DOMAIN Path = 1 .. n
  BY PathIs, LenProperties DEF length
<1>2. n = p + 1 \/ n = p + 2
  BY <1>1
<1>3. \A i \in 0 .. n - 1 : Path[i + 1] = Byte(i)
  BY <1>1, BytesOfPath
<1>4. p + 1 \in DOMAIN Path /\ n <= (p + 1) + 1
  BY <1>1, <1>2
<1>5. ASSUME NEW k \in p + 1 .. n PROVE Path[k] = DOT
  <2>1. k = p + 1 \/ (k = p + 2 /\ n = p + 2)
    BY <1>2
  <2>2. Path[p + 1] = DOT
    BY <1>2, <1>3
  <2>3. n = p + 2 => Path[p + 2] = DOT
    <3>1. SUFFICES ASSUME n = p + 2 PROVE Path[p + 2] = DOT
      OBVIOUS
    <3>2. p + 1 \in 0 .. n - 1 /\ (p + 1) + 1 = p + 2 /\ Byte(p + 1) = DOT
      BY <1>1, <3>1
    <3> QED
      BY <1>3, <3>2
  <2> QED
    BY <2>1, <2>2, <2>3
<1>6. p + 1 = 1 \/ Path[(p + 1) - 1] = SEP
  <2>1. SUFFICES ASSUME p # 0 PROVE Path[p] = SEP
    OBVIOUS
  <2>2. p - 1 \in 0 .. n - 1 /\ (p - 1) + 1 = p /\ Byte(p - 1) = SEP
    BY <1>2, <2>1 DEF Behind
  <2> QED
    BY <1>3, <2>2
<1>7. EndsInDots
  BY <1>1, <1>4, <1>5, <1>6 DEF EndsInDots, length
<1> QED
  BY <1>7 DEF StaysInPath

LEMMA LastSeparatorIs ==
    ASSUME StaysInPath, input \in Inputs, NEW i \in Nat, InPath(i), Byte(i) = SEP
    PROVE  /\ LastSeparator(i) \in i .. length - 1
           /\ \A k \in i .. LastSeparator(i) : Byte(k) = SEP
           /\ Byte(LastSeparator(i) + 1) # SEP
<1>1. PICK n \in Nat, m \in Nat : n = length /\ m = Len(input) /\ n < m
  BY PathIs
<1>2. i < n
  BY <1>1, BytesOfPath, ByteFacts
<1> DEFINE T == {k \in Nat : i <= k /\ Byte(k) # SEP}
<1>3. PICK x \in T : \A y \in T : x <= y
  <2>1. n \in T
    BY <1>1, <1>2, BytesOfPath, ByteFacts
  <2>2. T \in SUBSET Nat /\ T # {}
    BY <2>1
  <2> QED
    BY <2>2, LeastNatural
<1>4. /\ x \in Nat /\ i <= x /\ x <= n /\ Byte(x) # SEP
      /\ \A y \in Nat : i <= y /\ y < x => Byte(y) = SEP
  BY <1>1, <1>2, <1>3, BytesOfPath, ByteFacts
<1>5. x # i
  BY <1>4
<1>6. PICK j \in Nat : j = x - 1 /\ j + 1 = x /\ j \in i .. m - 1
  <2>1. x - 1 \in Nat /\ (x - 1) + 1 = x /\ x - 1 \in i .. m - 1
    BY <1>1, <1>4, <1>5
  <2> QED
    BY <2>1
<1>7. (\A k \in i .. j : Byte(k) = SEP) /\ Byte(j + 1) # SEP
  BY <1>4, <1>6
<1>8. PICK l : l = LastSeparator(i)
  OBVIOUS
<1>9. l \in i .. m - 1 /\ (\A k \in i .. l : Byte(k) = SEP) /\ Byte(l + 1) # SEP
  BY <1>1, <1>6, <1>7, <1>8 DEF LastSeparator
<1>10. l < n
  <2>1. l \in Nat /\ ~(n \in i .. l)
    BY <1>1, <1>9, BytesOfPath, ByteFacts
  <2> QED
    BY <1>2, <2>1
<1> QED
  BY <1>1, <1>8, <1>9, <1>10
-----------------------------------------------------------------------------
\* What is true of every call, whatever its object holds.

\* The way back over a component.
LEMMA GreatestStop ==
    ASSUME Types, ~AtRoot(write_pos)
    PROVE  /\ Stops \subseteq 1 .. write_pos - 1
           /\ Stops # {} => \E k \in Stops : \A l \in Stops : l <= k
<1>1. PICK w \in Nat : w = write_pos /\ w >= 2
  BY DEF Types, AtRoot
<1>2. Stops \subseteq 1 .. w - 1
  BY <1>1 DEF Stops
<1>3. ASSUME Stops # {} PROVE \E k \in Stops : \A l \in Stops : l <= k
  <2>1. Stops \in SUBSET Nat /\ \A k \in Stops : k <= w
    BY <1>2
  <2> QED
    BY <1>3, <2>1, GreatestNatural
<1> QED
  BY <1>1, <1>2, <1>3

\* A parent reference whose component is taken away.
LEMMA PopIs ==
    ASSUME Types, ~AtRoot(write_pos), PopComponent, Stops # {}
    PROVE  /\ write_pos' \in Stops /\ \A l \in Stops : l <= write_pos'
           /\ write_pos' \in 1 .. write_pos - 1
           /\ scan_pos' = scan_pos + 3
           /\ UNCHANGED <<input, above, out_len, out, result>>
<1>1. PICK k \in Stops : \A l \in Stops : l <= k
  BY GreatestStop
<1>2. PICK c : c = CHOOSE j \in Stops : \A l \in Stops : l <= j
  OBVIOUS
<1>3. c \in Stops /\ \A l \in Stops : l <= c
  BY <1>1, <1>2
<1>4. /\ write_pos' = c /\ scan_pos' = scan_pos + 3
      /\ UNCHANGED <<input, above, out_len, out, result>>
  BY <1>2 DEF PopComponent, arguments
<1> QED
  BY <1>3, <1>4, GreatestStop

\* The output has room for the terminator.
Room == /\ Running => write_pos < out_len
        /\ result = "none" => write_pos = 0

LEMMA InputKept ==
    ASSUME [Next]_vars
    PROVE  input' = input
<1>1. CASE Step
  BY <1>1 DEF Step, CopySeparator, SkipRelativeRef, FollowParentRef, PopComponent, CopyChar,
     Finish, WriteChar, LeaveObjects, arguments
<1> QED
  BY <1>1 DEF Next, Call, vars, arguments

LEMMA LeavingKeepsTypes ==
    ASSUME Types, Room, LeaveObjects
    PROVE  Types' /\ Room'
  BY DEF LeaveObjects, Types, Room, arguments, Running, Results

LEMMA LengthsAre ==
    ASSUME Types
    PROVE  /\ out_len \in Nat /\ Len(input) \in Nat
           /\ \A i \in Nat : InInput(i) => Byte(i) \in Bytes
<1>1. out_len \in Nat /\ input \in Inputs
  BY ConstantsAssumption DEF Types, ConstantsAssumption
<1>2. Len(input) \in Nat /\ \A k \in 1 .. Len(input) : input[k] \in Bytes
  BY <1>1, PathIs
<1>3. \A i \in Nat : InInput(i) => i + 1 \in 1 .. Len(input)
  BY <1>2 DEF InInput
<1> QED
  BY <1>1, <1>2, <1>3 DEF Byte

LEMMA WriteCharKeepsTypes ==
    ASSUME Types, Room, Running, NEW i \in Nat, WriteChar(i)
    PROVE  Types' /\ Room'
<1>1. PICK m \in Nat, w \in Nat, o \in Nat : m = Len(input) /\ w = write_pos /\ o = out_len
  BY LengthsAre DEF Types
<1>2. PICK c \in {0, 1, 2} : c = CharLen(Byte(i))
  BY DEF CharLen
<1>3. CASE ~(i + c <= m /\ w + c <= o)
  <2>1. LeaveObjects
    BY <1>1, <1>2, <1>3 DEF WriteChar
  <2> QED
    BY <2>1, LeavingKeepsTypes
<1>4. CASE i + c <= m /\ w + c <= o
  <2>1. /\ out' = [k \in DOMAIN out |-> IF k \in w .. w + c - 1
                                        THEN Byte(i + k - w) ELSE out[k]]
        /\ scan_pos' = i + c /\ write_pos' = w + c
        /\ result' = (IF FillsOut(write_pos') THEN "err" ELSE "running")
        /\ input' = input /\ above' = above /\ out_len' = out_len
    BY <1>1, <1>2, <1>4 DEF WriteChar, arguments
  <2>2. result' = IF w + c >= o THEN "err" ELSE "running"
    BY <1>1, <2>1 DEF FillsOut
  <2>3. ASSUME NEW k \in w .. w + c - 1 PROVE Byte(i + k - w) \in Bytes
    <3>1. i + k - w \in Nat /\ i + k - w < m
      BY <1>4
    <3> QED
      BY <1>1, <3>1, LengthsAre DEF InInput
  <2>4. out' \in [0 .. o - 1 -> Bytes \cup {JUNK}]
    BY <1>1, <2>1, <2>3 DEF Types
  <2>5. Types'
    BY <1>1, <2>1, <2>2, <2>4 DEF Types, Results
  <2>6. Room'
    BY <1>1, <2>1, <2>2 DEF Room, Running
  <2> QED
    BY <2>5, <2>6
<1> QED
  BY <1>3, <1>4

LEMMA StepKeepsTypes ==
    ASSUME Types, Room, Step
    PROVE  Types' /\ Room'
<1>1. PICK m \in Nat, w \in Nat, p \in Nat, o \in Nat :
          m = Len(input) /\ w = write_pos /\ p = scan_pos /\ o = out_len
  BY LengthsAre DEF Types
<1>2. Running /\ w < o
  BY <1>1 DEF Step, Room
<1>3. CASE LeaveObjects
  BY <1>3, LeavingKeepsTypes
<1>4. CASE LooksInside /\ CopySeparator
  <2> DEFINE T == {k \in Nat : p <= k /\ Byte(k) # SEP}
  <2>1. PICK k \in p .. m - 1 : Byte(k) # SEP
    BY <1>1, <1>4 DEF LooksInside, CopySeparator
  <2>2. PICK x \in T : \A y \in T : x <= y
    <3>1. T \in SUBSET Nat /\ k \in T
      BY <2>1
    <3> QED
      BY <3>1, LeastNatural
  <2>3. x # p /\ x <= k
    BY <1>1, <1>4, <2>1, <2>2 DEF CopySeparator
  <2>4. /\ x - 1 \in p .. m - 1 /\ Byte((x - 1) + 1) # SEP
        /\ \A j \in p .. x - 1 : Byte(j) = SEP
    BY <2>1, <2>2, <2>3
  <2>5. LastSeparator(p) \in p .. m - 1
    <3>1. PICK l : l = LastSeparator(p)
      OBVIOUS
    <3>2. l \in p .. m - 1
      BY <1>1, <2>4, <3>1 DEF LastSeparator
    <3> QED
      BY <3>1, <3>2
  <2>6. LastSeparator(p) \in Nat /\ WriteChar(LastSeparator(p))
    BY <1>1, <1>4, <2>5 DEF CopySeparator
  <2> QED
    BY <1>2, <2>6, WriteCharKeepsTypes
<1>5. CASE SkipRelativeRef
  <2>1. /\ scan_pos' = p + 2 /\ write_pos' = w
        /\ UNCHANGED <<input, above, out_len, out, result>>
    BY <1>1, <1>5 DEF SkipRelativeRef, arguments
  <2> QED
    BY <1>1, <2>1 DEF Types, Room, Running
<1>6. CASE FollowParentRef
  <2>1. CASE AtRoot(write_pos)
    <3>1. /\ result' = "invalid_path"
          /\ UNCHANGED <<input, above, out_len, out, scan_pos, write_pos>>
      BY <1>6, <2>1 DEF FollowParentRef, arguments
    <3> QED
      BY <3>1 DEF Types, Room, Running, Results
  <2>2. CASE ~AtRoot(write_pos) /\ Stops # {}
    <3>1. PICK k \in 1 .. w - 1 :
              /\ write_pos' = k /\ scan_pos' = p + 3
              /\ UNCHANGED <<input, above, out_len, out, result>>
      <4>1. PopComponent
        BY <1>6, <2>2 DEF FollowParentRef
      <4> QED
        BY <1>1, <2>2, <4>1, PopIs
    <3> QED
      BY <1>1, <1>2, <3>1 DEF Types, Room, Running
  <2>3. CASE ~AtRoot(write_pos) /\ Stops = {}
    BY <1>3, <1>6, <2>3 DEF FollowParentRef, PopComponent
  <2> QED
    BY <2>1, <2>2, <2>3
<1>7. CASE CopyChar
  BY <1>2, <1>7, WriteCharKeepsTypes DEF CopyChar, Types
<1>8. CASE Finish
  <2>1. /\ out' = [out EXCEPT ![w] = NUL] /\ result' = "ok"
        /\ UNCHANGED <<input, above, out_len, scan_pos, write_pos>>
    BY <1>1, <1>8 DEF Finish, arguments
  <2>2. out' \in [0 .. o - 1 -> Bytes \cup {JUNK}]
    BY <1>1, <2>1 DEF Types, Bytes
  <2> QED
    BY <1>1, <2>1, <2>2 DEF Types, Room, Running, Results
<1> QED
  BY <1>3, <1>4, <1>5, <1>6, <1>7, <1>8 DEF Step

LEMMA TypesHold == Spec => [](Types /\ Room)
<1>1. Init => Types /\ Room
  <2> SUFFICES ASSUME Init PROVE Types /\ Room
    OBVIOUS
  <2>1. out \in [0 .. out_len - 1 -> Bytes \cup {JUNK}]
    BY DEF Init
  <2> QED
    BY <2>1 DEF Init, Types, Room, Running, Results
<1>2. Types /\ Room /\ [Next]_vars => (Types /\ Room)'
  <2> SUFFICES ASSUME Types, Room, [Next]_vars PROVE Types' /\ Room'
    OBVIOUS
  <2>1. CASE UNCHANGED vars
    BY <2>1 DEF vars, arguments, Types, Room, Running
  <2>2. ASSUME NEW null \in BOOLEAN, Call(null) PROVE Types' /\ Room'
    <3>1. PICK o \in Nat : o = out_len
      BY LengthsAre
    <3>2. /\ write_pos = 0 /\ result' \in {"invalid_parameter", "running"}
          /\ result' = "running" => o # 0
          /\ UNCHANGED <<input, above, out_len, out, scan_pos, write_pos>>
      BY <2>2, <3>1 DEF Call, BadParameters, Room, arguments
    <3> QED
      BY <3>1, <3>2 DEF Types, Room, Running, Results
  <2> QED
    BY <2>1, <2>2, StepKeepsTypes DEF Next
<1> QED
  BY <1>1, <1>2, PTL DEF Spec

\* The output is never written beyond and every byte in it is one of the input's or
\* has not been written, whatever is in the object behind the path (filepath.c, the
\* declarations and the loop).
THEOREM NormalizeTypeCorrect == Spec => []TypeOK
<1>1. Types /\ Room => TypeOK
  BY PathIs DEF Types, Room, TypeOK, Results
<1> QED
  BY <1>1, TypesHold, PTL
-----------------------------------------------------------------------------
\* Where the scan and the write are.

(****************************************************************************)
(* The inductive invariant of the scan.  A dot component at the end of the  *)
(* path takes it one behind the terminator, no further, and there is the    *)
(* second one.                                                              *)
(****************************************************************************)
ScanInv ==
    /\ Running => /\ write_pos < out_len /\ write_pos <= scan_pos
                  /\ write_pos <= length /\ scan_pos <= length + 1
                  /\ InPath(scan_pos)
    /\ result = "none" => scan_pos = 0 /\ write_pos = 0
    /\ result = "err" => out_len <= length

LEMMA LengthKept ==
    ASSUME input' = input
    PROVE  /\ length' = length /\ Path' = Path
           /\ TwoTerminators' = TwoTerminators /\ StaysInPath' = StaysInPath
<1>1. length' = length /\ Path' = Path
  BY DEF length, Path
<1>2. TwoTerminators' = TwoTerminators
  BY <1>1 DEF TwoTerminators
<1> QED
  BY <1>1, <1>2 DEF StaysInPath, CharactersWhole, EndsInDots

LEMMA LeavingKeepsInv ==
    ASSUME Types, ScanInv, LeaveObjects
    PROVE  Types' /\ ScanInv'
  BY DEF LeaveObjects, Types, ScanInv, arguments, Running, Results

LEMMA WriteCharKeepsInv ==
    ASSUME StaysInPath, Types, ScanInv, Running, NEW i \in Nat, scan_pos <= i, i < length,
           WriteChar(i)
    PROVE  Types' /\ ScanInv'
<1>1. PICK n \in Nat, w \in Nat, p \in Nat, o \in Nat :
          n = length /\ w = write_pos /\ p = scan_pos /\ o = out_len
  BY PathIs, ConstantsAssumption DEF Types, ConstantsAssumption
<1>2. i < n /\ p <= i /\ w < o /\ w <= p
  BY <1>1 DEF ScanInv
<1>3. Byte(i) \in Bytes /\ Byte(i) # NUL /\ (Byte(i) = LEAD => i + 1 < n)
  BY <1>1, <1>2, BytesOfPath DEF Types
<1>4. PICK c \in {0, 1, 2} : c = CharLen(Byte(i)) /\ (c = 2 => Byte(i) = LEAD) /\ i + c <= n
  BY <1>2, <1>3 DEF CharLen
<1>5. CASE ~(i + c <= Len(input) /\ w + c <= o)
  <2>1. LeaveObjects
    BY <1>1, <1>4, <1>5 DEF WriteChar
  <2> QED
    BY <2>1, LeavingKeepsInv
<1>6. CASE i + c <= Len(input) /\ w + c <= o
  <2>1. /\ out' = [k \in DOMAIN out |-> IF k \in w .. w + c - 1
                                        THEN Byte(i + k - w) ELSE out[k]]
        /\ scan_pos' = i + c /\ write_pos' = w + c
        /\ result' = (IF FillsOut(write_pos') THEN "err" ELSE "running")
        /\ input' = input /\ above' = above /\ out_len' = out_len
    BY <1>1, <1>4, <1>6 DEF WriteChar, arguments
  <2>2. result' = IF w + c >= o THEN "err" ELSE "running"
    BY <1>1, <2>1 DEF FillsOut
  <2>3. out' \in [0 .. o - 1 -> Bytes \cup {JUNK}]
    <3>1. ASSUME NEW k \in w .. w + c - 1 PROVE Byte(i + k - w) \in Bytes
      <4>1. i + k - w \in 0 .. n
        BY <1>2, <1>4
      <4> QED
        BY <1>1, <4>1, BytesOfPath DEF Types
    <3> QED
      BY <1>1, <2>1, <3>1 DEF Types
  <2>4. Types'
    BY <1>1, <2>1, <2>2, <2>3 DEF Types, Results
  <2>5. length' = n
    BY <1>1, <2>1, LengthKept
  <2>6. ScanInv'
    BY <1>1, <1>2, <1>4, <2>1, <2>2, <2>5 DEF ScanInv, InPath, Running
  <2> QED
    BY <2>4, <2>6
<1> QED
  BY <1>5, <1>6

\* A dot that is a reference has its separator or the terminator behind it.
LEMMA ReferenceEnds ==
    ASSUME StaysInPath, input \in Inputs, NEW i \in Nat, InPath(i), Byte(i) = DOT
    PROVE  /\ i < length
           /\ ParentRef(i) => i + 1 < length
<1>1. PICK n \in Nat : n = length
  BY PathIs
<1>2. i < n
  BY <1>1, BytesOfPath, ByteFacts
<1>3. ASSUME ParentRef(i) PROVE i + 1 < n
  <2>1. Byte(i + 1) # NUL
    BY <1>3 DEF ParentRef
  <2>2. i + 1 \in 0 .. n
    BY <1>2
  <2>3. i + 1 # n
    BY <1>1, <2>1, BytesOfPath
  <2> QED
    BY <2>2, <2>3
<1> QED
  BY <1>1, <1>2, <1>3

LEMMA StepKeepsInv ==
    ASSUME StaysInPath, Types, ScanInv, Step
    PROVE  Types' /\ ScanInv'
<1>1. PICK n \in Nat, w \in Nat, p \in Nat, o \in Nat :
          n = length /\ w = write_pos /\ p = scan_pos /\ o = out_len
  BY PathIs, ConstantsAssumption DEF Types, ConstantsAssumption
<1>2. Running /\ w < o /\ w <= p /\ w <= n /\ p <= n + 1 /\ InPath(p)
  BY <1>1 DEF Step, ScanInv
<1>3. CASE LeaveObjects
  BY <1>3, LeavingKeepsInv
<1>4. CASE CopySeparator
  <2>1. LastSeparator(scan_pos) \in p .. n - 1 /\ WriteChar(LastSeparator(scan_pos))
    BY <1>1, <1>2, <1>4, LastSeparatorIs DEF CopySeparator, Types
  <2> QED
    BY <1>1, <1>2, <2>1, WriteCharKeepsInv
<1>5. CASE SkipRelativeRef
  <2>1. p < n /\ (p + 1 = n => TwoTerminators)
    <3>1. Byte(p) = DOT /\ Behind(p) /\ input \in Inputs
      BY <1>1, <1>5 DEF SkipRelativeRef, RelativeRef, Types
    <3>2. p < n
      BY <1>1, <1>2, <3>1, ReferenceEnds
    <3> QED
      BY <1>1, <3>1, <3>2, DotsAtEnd
  <2>2. /\ scan_pos' = p + 2 /\ write_pos' = w
        /\ UNCHANGED <<input, above, out_len, out, result>>
    BY <1>1, <1>5 DEF SkipRelativeRef, arguments
  <2>3. length' = n /\ TwoTerminators' = TwoTerminators
    BY <1>1, <2>2, LengthKept
  <2>4. Types'
    BY <1>1, <2>2 DEF Types
  <2>5. InPath(scan_pos)'
    BY <1>1, <2>1, <2>2, <2>3 DEF InPath
  <2>6. ScanInv'
    BY <1>1, <1>2, <2>1, <2>2, <2>3, <2>5 DEF ScanInv, Running
  <2> QED
    BY <2>4, <2>6
<1>6. CASE FollowParentRef
  <2>1. p + 1 < n /\ (p + 2 = n => TwoTerminators)
    <3>1. Byte(p) = DOT /\ Behind(p) /\ Byte(p + 1) = DOT /\ input \in Inputs /\ ParentRef(p)
      BY <1>1, <1>6 DEF FollowParentRef, ParentRef, Types
    <3>2. p + 1 < n
      BY <1>1, <1>2, <3>1, ReferenceEnds
    <3> QED
      BY <1>1, <3>1, <3>2, DotsAtEnd
  <2>2. CASE AtRoot(write_pos)
    <3>1. /\ result' = "invalid_path"
          /\ UNCHANGED <<input, above, out_len, out, scan_pos, write_pos>>
      BY <1>6, <2>2 DEF FollowParentRef, arguments
    <3> QED
      BY <3>1 DEF Types, ScanInv, Running, Results
  <2>3. CASE ~AtRoot(write_pos) /\ Stops # {}
    <3>1. PICK k \in 1 .. w - 1 :
              /\ write_pos' = k /\ scan_pos' = p + 3
              /\ UNCHANGED <<input, above, out_len, out, result>>
      <4>1. PopComponent
        BY <1>6, <2>3 DEF FollowParentRef
      <4> QED
        BY <1>1, <2>3, <4>1, PopIs
    <3>2. length' = n /\ TwoTerminators' = TwoTerminators
      BY <1>1, <3>1, LengthKept
    <3>3. Types'
      BY <1>1, <3>1 DEF Types
    <3>4. InPath(scan_pos)'
      BY <1>1, <2>1, <3>1, <3>2 DEF InPath
    <3>5. ScanInv'
      BY <1>1, <1>2, <2>1, <3>1, <3>2, <3>4 DEF ScanInv, Running
    <3> QED
      BY <3>3, <3>5
  <2>4. CASE ~AtRoot(write_pos) /\ Stops = {}
    BY <1>3, <1>6, <2>4 DEF FollowParentRef, PopComponent
  <2> QED
    BY <2>2, <2>3, <2>4
<1>7. CASE CopyChar
  <2>1. p < n
    BY <1>1, <1>2, <1>7, BytesOfPath DEF CopyChar, Types
  <2> QED
    BY <1>1, <1>2, <1>7, <2>1, WriteCharKeepsInv DEF CopyChar
<1>8. CASE Finish
  <2>1. /\ out' = [out EXCEPT ![w] = NUL] /\ result' = "ok"
        /\ UNCHANGED <<input, above, out_len, scan_pos, write_pos>>
    BY <1>1, <1>8 DEF Finish, arguments
  <2>2. out' \in [0 .. o - 1 -> Bytes \cup {JUNK}]
    BY <1>1, <2>1 DEF Types, Bytes
  <2> QED
    BY <1>1, <2>1, <2>2 DEF Types, ScanInv, Running, Results
<1> QED
  BY <1>3, <1>4, <1>5, <1>6, <1>7, <1>8 DEF Step

LEMMA CallKeepsInv ==
    ASSUME StaysInPath, Types, ScanInv, NEW null \in BOOLEAN, Call(null)
    PROVE  Types' /\ ScanInv'
<1>1. PICK n \in Nat, o \in Nat : n = length /\ o = out_len
  BY PathIs, ConstantsAssumption DEF Types, ConstantsAssumption
<1>2. /\ scan_pos = 0 /\ write_pos = 0 /\ result' \in {"invalid_parameter", "running"}
      /\ result' = "running" => o # 0
      /\ UNCHANGED <<input, above, out_len, out, scan_pos, write_pos>>
  BY <1>1 DEF Call, BadParameters, ScanInv, arguments
<1>3. length' = n
  BY <1>1, <1>2, LengthKept
<1> QED
  BY <1>1, <1>2, <1>3 DEF Types, ScanInv, InPath, Running, Results

LEMMA ScanInvHolds == Spec => [](Types /\ (StaysInPath => ScanInv))
<1>1. Init => Types /\ ScanInv
  <2> SUFFICES ASSUME Init PROVE Types /\ ScanInv
    OBVIOUS
  <2>1. out \in [0 .. out_len - 1 -> Bytes \cup {JUNK}]
    BY DEF Init
  <2> QED
    BY <2>1 DEF Init, Types, ScanInv, Running, Results
<1>2. Types /\ (StaysInPath => ScanInv) /\ Types' /\ [Next]_vars => (StaysInPath => ScanInv)'
  <2> SUFFICES ASSUME Types, StaysInPath => ScanInv, StaysInPath', [Next]_vars PROVE ScanInv'
    OBVIOUS
  <2>1. input' = input
    BY InputKept
  <2>2. StaysInPath /\ ScanInv
    BY <2>1, LengthKept
  <2>3. CASE UNCHANGED vars
    BY <2>1, <2>2, <2>3, LengthKept DEF vars, arguments, ScanInv, InPath, Running
  <2> QED
    BY <2>2, <2>3, StepKeepsInv, CallKeepsInv DEF Next
<1> QED
  BY <1>1, <1>2, TypesHold, PTL DEF Spec

\* An output with room for the input and its terminator is always large enough for a
\* call whose scan stays in the path, whatever is behind the path in its object
\* (filepath.c:79).
THEOREM InputSizedOutAlwaysSuffices == Spec => []InputSizedOutSuffices
<1>1. Types /\ (StaysInPath => ScanInv) => InputSizedOutSuffices
  BY DEF ScanInv, InputSizedOutSuffices, OnlySmallOutFails, length
<1> QED
  BY <1>1, ScanInvHolds, PTL
-----------------------------------------------------------------------------
\* Each round moves the scan on.

\* The scan is never inside a character.
BetweenCharacters == Running /\ scan_pos \in 1 .. length => Byte(scan_pos - 1) # LEAD

LEMMA StartsCharacter ==
    ASSUME StaysInPath, Recognized, Types, ScanInv, BetweenCharacters, Running
    PROVE  Byte(scan_pos) # CONT
<1>1. PICK n \in Nat, p \in Nat : n = length /\ p = scan_pos /\ InPath(p)
  BY PathIs DEF Types, ScanInv
<1>2. CASE p >= n
  BY <1>1, <1>2, BytesOfPath, ByteFacts DEF Types
<1>3. CASE p < n
  <2>1. DOMAIN Path = 1 .. n /\ \A i \in 0 .. n - 1 : Byte(i) = Path[i + 1]
    BY <1>1, PathIs, BytesOfPath, LenProperties DEF Types, length
  <2>2. p + 1 \in DOMAIN Path /\ Byte(p) = Path[p + 1]
    BY <1>1, <1>3, <2>1
  <2>3. ASSUME Byte(p) = CONT PROVE p \in 1 .. n /\ Byte(p - 1) = LEAD
    <3>1. p + 1 > 1 /\ Path[(p + 1) - 1] = LEAD
      BY <2>2, <2>3 DEF Recognized
    <3>2. p \in 1 .. n /\ p - 1 \in 0 .. n - 1 /\ (p + 1) - 1 = (p - 1) + 1
      BY <1>3, <3>1
    <3> QED
      BY <2>1, <3>1, <3>2
  <2> QED
    BY <1>1, <2>3 DEF BetweenCharacters
<1> QED
  BY <1>1, <1>2, <1>3

LEMMA CharacterWritten ==
    ASSUME StaysInPath, Types, Running, NEW i \in Nat, i < length, Byte(i) # CONT,
           WriteChar(i), Running'
    PROVE  input' = input /\ scan_pos' \in i + 1 .. length /\ Byte(scan_pos' - 1) # LEAD
<1>1. PICK n \in Nat : n = length /\ i < n
  BY PathIs DEF Types
<1>2. Byte(i) = LEAD => i + 1 < n /\ Byte(i + 1) = CONT
  BY <1>1, BytesOfPath DEF Types
<1>3. ~LeaveObjects
  BY DEF LeaveObjects, Running
<1>4. input' = input /\ scan_pos' = i + CharLen(Byte(i))
  BY <1>3 DEF WriteChar, arguments
<1>5. CASE Byte(i) = LEAD
  <2>1. scan_pos' = i + 2 /\ scan_pos' - 1 = i + 1
    BY <1>4, <1>5 DEF CharLen
  <2> QED
    BY <1>1, <1>2, <1>4, <1>5, <2>1, ByteFacts
<1>6. CASE Byte(i) # LEAD
  <2>1. scan_pos' = i + 1 /\ scan_pos' - 1 = i
    BY <1>4, <1>6 DEF CharLen
  <2> QED
    BY <1>1, <1>4, <1>6, <2>1
<1> QED
  BY <1>5, <1>6

\* When the scan stays in a path of recognized characters, a round that does not end the
\* call brings it closer to the byte behind the terminator, and never beyond it: no such
\* call takes more rounds than its path has bytes, and one more (filepath.c:43-82).
THEOREM RoundsAdvance ==
    ASSUME StaysInPath, Recognized, Types, ScanInv, BetweenCharacters, Step, Running'
    PROVE  scan_pos' \in scan_pos + 1 .. length + 1 /\ length' = length /\ BetweenCharacters'
<1>1. PICK n \in Nat, p \in Nat : n = length /\ p = scan_pos /\ p <= n + 1 /\ InPath(p)
  BY PathIs DEF Types, ScanInv, Step
<1>2. ~LeaveObjects
  BY DEF LeaveObjects, Running
<1>3. SUFFICES /\ input' = input /\ scan_pos' \in p + 1 .. n + 1
               /\ scan_pos' <= n => Byte(scan_pos' - 1) # LEAD
  <2>1. length' = n
    BY <1>1, <1>3, LengthKept
  <2>2. BetweenCharacters'
    BY <1>3, <2>1 DEF BetweenCharacters, Byte
  <2> QED
    BY <1>1, <1>3, <2>1, <2>2
<1>4. CASE CopySeparator
  <2>1. PICK j \in p .. n - 1 : j = LastSeparator(scan_pos) /\ WriteChar(j) /\ Byte(j) = SEP
    BY <1>1, <1>4, LastSeparatorIs DEF CopySeparator, Types
  <2>2. j \in Nat /\ j < n /\ Byte(j) # CONT /\ j + 1 >= p + 1
    BY <1>1, <2>1, ByteFacts
  <2> QED
    BY <1>1, <2>1, <2>2, CharacterWritten DEF Step
<1>5. CASE SkipRelativeRef
  <2>1. p < n
    BY <1>1, <1>5, ReferenceEnds DEF SkipRelativeRef, Types
  <2>2. scan_pos' = p + 2 /\ input' = input /\ Byte(p + 1) \in {SEP, NUL}
    BY <1>1, <1>5 DEF SkipRelativeRef, RelativeRef, Ahead, arguments
  <2>3. scan_pos' - 1 = p + 1
    BY <2>2
  <2> QED
    BY <1>1, <2>1, <2>2, <2>3, ByteFacts
<1>6. CASE FollowParentRef
  <2>1. p + 1 < n
    BY <1>1, <1>6, ReferenceEnds DEF FollowParentRef, Types
  <2>2. ~AtRoot(write_pos) /\ PopComponent
    BY <1>6 DEF FollowParentRef, Running
  <2>3. scan_pos' = p + 3 /\ input' = input
    BY <1>1, <1>2, <2>2, PopIs DEF PopComponent
  <2>4. Byte(p + 2) \in {SEP, NUL} /\ scan_pos' - 1 = p + 2
    BY <1>1, <1>6, <2>3 DEF FollowParentRef, ParentRef, Ahead
  <2> QED
    BY <1>1, <2>1, <2>3, <2>4, ByteFacts
<1>7. CASE CopyChar
  <2>1. p < n /\ WriteChar(p) /\ Byte(p) # CONT
    BY <1>1, <1>7, BytesOfPath, StartsCharacter DEF CopyChar, Types, Step
  <2> QED
    BY <1>1, <2>1, CharacterWritten DEF Step
<1>8. ~Finish
  BY DEF Finish, Running
<1> QED
  BY <1>2, <1>4, <1>5, <1>6, <1>7, <1>8 DEF Step

\* The states RoundsAdvance speaks of are all that such a call comes to.
THEOREM ScanBetweenCharacters ==
    Spec => [](StaysInPath /\ Recognized => Types /\ ScanInv /\ BetweenCharacters)
<1> DEFINE Between == StaysInPath /\ Recognized => BetweenCharacters
<1> DEFINE Inv == Types /\ (StaysInPath => ScanInv)
<1>1. Init => Between
  BY DEF Init, BetweenCharacters, Running
<1>2. Inv /\ Between /\ [Next]_vars => Between'
  <2> SUFFICES ASSUME Inv, Between, [Next]_vars, StaysInPath', Recognized', Running'
               PROVE  BetweenCharacters'
    BY DEF BetweenCharacters
  <2>1. input' = input
    BY InputKept
  <2>2. StaysInPath /\ Recognized
    BY <2>1, LengthKept DEF Recognized
  <2>3. Types /\ ScanInv /\ BetweenCharacters
    BY <2>2
  <2>4. CASE UNCHANGED vars
    BY <2>3, <2>4, LengthKept DEF vars, arguments, BetweenCharacters, Running, Byte
  <2>5. ASSUME NEW null \in BOOLEAN, Call(null) PROVE BetweenCharacters'
    BY <2>3, <2>5 DEF Call, ScanInv, BetweenCharacters
  <2> QED
    BY <2>2, <2>3, <2>4, <2>5, RoundsAdvance DEF Next
<1>3. Inv /\ Between => (StaysInPath /\ Recognized => Types /\ ScanInv /\ BetweenCharacters)
  OBVIOUS
<1> QED
  BY <1>1, <1>2, <1>3, ScanInvHolds, PTL DEF Spec
-----------------------------------------------------------------------------
\* The scan and the reading of the path by components.

Plain == Bytes \ {SEP}

Readings == [kept : Seq(Seq(Plain) \ {<<>>}), name : Seq(Plain), above : BOOLEAN,
             emptied : BOOLEAN]

\* What has been read when the scan is at p.  One behind the terminator the last
\* component has been closed.
At(p) == IF p <= length THEN Reading(Path)[p] ELSE Close(Read(Path))

read == At(scan_pos)

\* A component that is a reference is skipped as a whole and never copied.
NoReferenceCopied ==
    Running =>
        /\ read.name \in {Self, Parent} => ~Ahead(scan_pos)
        /\ (read.name = Self /\ Byte(scan_pos) = DOT) => ~Ahead(scan_pos + 1)

\* Each component kept has a separator of its own in the output, two or more behind
\* the one before it.
SeparatorsFor(r, ends) ==
    /\ \A i \in 1 .. Len(r.kept) :
          ends[i] >= 2 /\ ends[i] + Len(r.name) <= write_pos /\ out[ends[i] - 1] = SEP
    /\ \A i, j \in 1 .. Len(r.kept) : i < j => ends[i] + 2 <= ends[j]

KeptInOutput ==
    Running =>
        /\ Len(read.name) <= write_pos
        /\ \E ends \in [1 .. Len(read.kept) -> Nat] : SeparatorsFor(read, ends)

\* The output starts with a separator, or has its first component.
FirstInOutput ==
    Running =>
        /\ (read.kept = <<>> /\ ~read.emptied) =>
              \A k \in 0 .. write_pos - 1 - Len(read.name) : out[k] = SEP
        /\ (Absolute(Path) /\ scan_pos > 0) => write_pos > 0 /\ out[0] = SEP

\* The output holds the root, the components kept and the name being read.
Root == IF Absolute(Path) /\ scan_pos > 0 THEN <<SEP>> ELSE <<>>

OutputIsReading ==
    (Running /\ above /\ SingleSeparators) =>
        /\ ~read.above
        /\ Output = (Root \o Terminated(read.kept)) \o read.name
        /\ (scan_pos > 0 /\ Byte(scan_pos - 1) = SEP) => Byte(scan_pos) # SEP

ReadInv == NoReferenceCopied /\ KeptInOutput /\ FirstInOutput /\ OutputIsReading
-----------------------------------------------------------------------------
\* Reading a path is a function of the characters read.

LEMMA ReadingUnfolds ==
    ASSUME NEW path, Len(path) \in Nat
    PROVE  /\ Reading(path)[0] = Nothing
           /\ \A n \in 1 .. Len(path) :
                  Reading(path)[n] = ReadChar(Reading(path)[n - 1], path[n])
<1> DEFINE Reads(f, n) ==
      f = [k \in 0 .. n |-> IF k = 0 THEN Nothing ELSE ReadChar(f[k - 1], path[k])]
<1> DEFINE T == {n \in Nat : \E f : Reads(f, n)}
<1>1. 0 \in T
  <2>1. Reads([k \in 0 .. 0 |-> Nothing], 0)
    OBVIOUS
  <2> QED
    BY <2>1
<1>2. ASSUME NEW n \in Nat, n \in T PROVE n + 1 \in T
  <2>1. PICK f : Reads(f, n)
    BY <1>2
  <2> DEFINE g == [k \in 0 .. n + 1 |-> IF k = n + 1 THEN ReadChar(f[n], path[n + 1]) ELSE f[k]]
  <2>2. \A k \in 0 .. n : f[k] = IF k = 0 THEN Nothing ELSE ReadChar(f[k - 1], path[k])
    BY <2>1
  <2>3. \A k \in 0 .. n : g[k] = f[k]
    OBVIOUS
  <2>4. ASSUME NEW k \in 0 .. n + 1
        PROVE  g[k] = IF k = 0 THEN Nothing ELSE ReadChar(g[k - 1], path[k])
    <3>1. CASE k = n + 1
      <4>1. g[k] = ReadChar(f[n], path[n + 1]) /\ k - 1 = n /\ k # 0 /\ g[n] = f[n]
        BY <3>1, <2>3
      <4> HIDE DEF g
      <4> QED
        BY <3>1, <4>1
    <3>2. CASE k \in 1 .. n
      <4>1. k \in 0 .. n /\ k - 1 \in 0 .. n /\ k # 0
        BY <3>2
      <4> HIDE DEF g
      <4> QED
        BY <2>2, <2>3, <4>1
    <3>3. CASE k = 0
      <4>1. 0 \in 0 .. n
        OBVIOUS
      <4> HIDE DEF g
      <4> QED
        BY <2>2, <2>3, <3>3, <4>1
    <3> QED
      BY <3>1, <3>2, <3>3
  <2>5. Reads(g, n + 1)
    <3>1. g = [k \in 0 .. n + 1 |-> g[k]]
      OBVIOUS
    <3> HIDE DEF g
    <3> QED
      BY <2>4, <3>1
  <2> HIDE DEF g
  <2>6. \E f1 : Reads(f1, n + 1)
    BY <2>5
  <2> QED
    BY <2>6
<1>3. \E f : Reads(f, Len(path))
  <2> HIDE DEF T
  <2>1. Nat \subseteq T
    BY <1>1, <1>2, Induction
  <2> USE DEF T
  <2> QED
    BY <2>1
<1>4. Reading(path) = CHOOSE f : Reads(f, Len(path))
  BY DEF Reading
<1>5. Reads(Reading(path), Len(path))
  BY <1>3, <1>4
<1>6. ASSUME NEW n \in 0 .. Len(path)
      PROVE  Reading(path)[n] = IF n = 0 THEN Nothing ELSE ReadChar(Reading(path)[n - 1], path[n])
  BY <1>5
<1> QED
  BY <1>6
-----------------------------------------------------------------------------
\* Concatenation, one instance at a time.

Associates(u, v, x) == (u \o v) \o x = u \o (v \o x)

LEMMA ConcatAssociates ==
    ASSUME NEW u \in Seq(Bytes), NEW v \in Seq(Bytes), NEW x \in Seq(Bytes)
    PROVE  Associates(u, v, x)
BY ConcatAssociative DEF Associates
-----------------------------------------------------------------------------
\* Sequences without their last element.

LEMMA FrontIs ==
    ASSUME NEW S, NEW s \in Seq(S)
    PROVE  /\ Front(s) \in Seq(S)
           /\ s # <<>> => /\ Len(Front(s)) = Len(s) - 1
                          /\ \A i \in 1 .. Len(s) - 1 : Front(s)[i] = s[i]
                          /\ s[Len(s)] \in S
                          /\ s = Append(Front(s), s[Len(s)])
<1>1. PICK n \in Nat : n = Len(s)
  BY LenProperties
<1>2. \A i \in 1 .. n - 1 : s[i] \in S
  <2>1. \A i \in 1 .. n - 1 : i \in 1 .. n
    OBVIOUS
  <2> QED
    BY <1>1, <2>1, ElementOfSeq
<1>3. /\ SubSeq(s, 1, n - 1) \in Seq(S)
      /\ Len(SubSeq(s, 1, n - 1)) = IF 1 <= n - 1 THEN n - 1 - 1 + 1 ELSE 0
      /\ \A i \in 1 .. n - 1 - 1 + 1 : SubSeq(s, 1, n - 1)[i] = s[1 + i - 1]
  <2>1. 1 \in Int /\ n - 1 \in Int
    OBVIOUS
  <2> QED
    BY <1>2, <2>1, SubSeqProperties
<1>4. Front(s) = SubSeq(s, 1, n - 1)
  BY <1>1 DEF Front
<1>5. ASSUME s # <<>>
      PROVE  /\ Len(Front(s)) = n - 1 /\ \A i \in 1 .. n - 1 : Front(s)[i] = s[i]
             /\ s[n] \in S /\ s = Append(Front(s), s[n])
  <2>1. n >= 1
    BY <1>1, <1>5, EmptySeq
  <2>2. /\ (IF 1 <= n - 1 THEN n - 1 - 1 + 1 ELSE 0) = n - 1
        /\ n - 1 - 1 + 1 = n - 1 /\ \A i \in 1 .. n - 1 : 1 + i - 1 = i
    BY <2>1
  <2>3. Len(Front(s)) = n - 1 /\ \A i \in 1 .. n - 1 : Front(s)[i] = s[i]
    BY <1>3, <1>4, <2>2
  <2>4. n \in 1 .. n
    BY <2>1
  <2>5. s[n] \in S
    BY <1>1, <2>4, ElementOfSeq
  <2>6. PICK t \in Seq(S) : t = Front(s) /\ Len(t) = n - 1 /\ \A i \in 1 .. n - 1 : t[i] = s[i]
    BY <1>3, <1>4, <2>3
  <2>7. /\ Append(t, s[n]) \in Seq(S) /\ Len(Append(t, s[n])) = (n - 1) + 1
        /\ \A i \in 1 .. n - 1 : Append(t, s[n])[i] = t[i]
        /\ Append(t, s[n])[(n - 1) + 1] = s[n]
    BY <2>5, <2>6, AppendProperties
  <2>8. \A i \in 1 .. n : i \in 1 .. n - 1 \/ i = (n - 1) + 1
    BY <2>1
  <2>9. \A i \in 1 .. n : s[i] = Append(t, s[n])[i]
    BY <2>6, <2>7, <2>8
  <2>10. Len(s) = Len(Append(t, s[n]))
    BY <1>1, <2>7, (n - 1) + 1 = n
  <2>11. s = Append(t, s[n])
    BY <1>1, <2>7, <2>9, <2>10, SeqEqual
  <2> QED
    BY <2>3, <2>5, <2>6, <2>11
<1> QED
  BY <1>1, <1>3, <1>4, <1>5
-----------------------------------------------------------------------------
\* Components.

LEMMA ReferencesAre ==
    ASSUME NEW s \in Seq(Plain)
    PROVE  /\ s = <<>> <=> Len(s) = 0
           /\ s = Self <=> Len(s) = 1 /\ s[1] = DOT
           /\ s = Parent <=> Len(s) = 2 /\ s[1] = DOT /\ s[2] = DOT
           /\ <<>> # Self /\ <<>> # Parent /\ Self # Parent
<1>1. /\ Len(Self) = 1 /\ Self[1] = DOT /\ Self \in Seq(Plain)
      /\ Len(Parent) = 2 /\ Parent[1] = DOT /\ Parent[2] = DOT /\ Parent \in Seq(Plain)
      /\ <<>> \in Seq(Plain) /\ Len(<<>>) = 0
  <2>1. DOT \in Plain
    BY ByteFacts DEF Plain, Bytes
  <2> HIDE DEF Plain
  <2> QED
    BY <2>1, EmptySeq DEF Self, Parent
<1> HIDE DEF Self, Parent, Plain
<1>2. Len(s) = 0 => s = <<>>
  BY <1>1, EmptySeq
<1>3. ASSUME Len(s) = 1, s[1] = DOT PROVE s = Self
  <2>1. \A i \in 1 .. Len(s) : s[i] = Self[i]
    BY <1>1, <1>3
  <2> QED
    BY <1>1, <1>3, <2>1, SeqEqual
<1>4. ASSUME Len(s) = 2, s[1] = DOT, s[2] = DOT PROVE s = Parent
  <2>1. \A i \in 1 .. Len(s) : s[i] = Parent[i]
    <3>1. \A i \in 1 .. 2 : i = 1 \/ i = 2
      OBVIOUS
    <3> QED
      BY <1>1, <1>4, <3>1
  <2> QED
    BY <1>1, <1>4, <2>1, SeqEqual
<1>5. <<>> # Self /\ <<>> # Parent /\ Self # Parent
  <2>1. 0 # 1 /\ 0 # 2 /\ 1 # 2
    OBVIOUS
  <2>2. Len(<<>>) # Len(Self) /\ Len(<<>>) # Len(Parent) /\ Len(Self) # Len(Parent)
    BY <1>1, <2>1
  <2> QED
    BY <2>2, Zenon
<1>6. /\ s = <<>> => Len(s) = 0
      /\ s = Self => Len(s) = 1 /\ s[1] = DOT
      /\ s = Parent => Len(s) = 2 /\ s[1] = DOT /\ s[2] = DOT
  BY <1>1
<1> QED
  BY <1>2, <1>3, <1>4, <1>5, <1>6

\* A component that has been read to its end is dropped, takes one away, or is kept.
LEMMA CloseIs ==
    ASSUME NEW r \in Readings
    PROVE  /\ Close(r) \in Readings /\ Close(r).name = <<>>
           /\ r.above => Close(r).above
           /\ r.emptied => Close(r).emptied
           /\ r.name = <<>> => Close(r) = r
           /\ r.name \in {<<>>, Self} =>
                 Close(r).kept = r.kept /\ Close(r).above = r.above /\ Close(r).emptied = r.emptied
           /\ (r.name = Parent /\ r.kept = <<>>) =>
                 Close(r).kept = r.kept /\ Close(r).above /\ Close(r).emptied = r.emptied
           /\ (r.name = Parent /\ r.kept # <<>>) =>
                 /\ Close(r).kept = Front(r.kept) /\ Close(r).above = r.above
                 /\ Close(r).emptied = (r.emptied \/ Len(r.kept) = 1)
           /\ r.name \notin {<<>>, Self, Parent} =>
                 /\ Close(r).kept = Append(r.kept, r.name)
                 /\ Close(r).above = r.above /\ Close(r).emptied = r.emptied
<1> DEFINE Kept == Seq(Plain) \ {<<>>}
<1>1. /\ r.kept \in Seq(Kept) /\ r.name \in Seq(Plain)
      /\ r.above \in BOOLEAN /\ r.emptied \in BOOLEAN
      /\ r = [kept |-> r.kept, name |-> r.name, above |-> r.above, emptied |-> r.emptied]
  BY DEF Readings
<1>2. <<>> \in Seq(Plain) /\ <<>> # Self /\ <<>> # Parent /\ Self # Parent
  BY EmptySeq, ReferencesAre
<1> HIDE DEF Kept
<1>3. CASE r.name \in {<<>>, Self}
  <2>1. Close(r) = [r EXCEPT !.name = <<>>]
    <3>1. r.name # Parent
      BY <1>2, <1>3
    <3> QED
      BY <1>3, <3>1 DEF Close
  <2>2. Close(r) = [kept |-> r.kept, name |-> <<>>, above |-> r.above, emptied |-> r.emptied]
    BY <1>1, <2>1
  <2> QED
    BY <1>1, <1>2, <1>3, <2>2 DEF Readings, Kept
<1>4. CASE r.name = Parent /\ r.kept = <<>>
  <2>1. Close(r) = [r EXCEPT !.name = <<>>, !.above = TRUE]
    BY <1>2, <1>4 DEF Close
  <2>2. Close(r) = [kept |-> r.kept, name |-> <<>>, above |-> TRUE, emptied |-> r.emptied]
    BY <1>1, <2>1
  <2>3. Close(r) \in Readings
    BY <1>1, <1>2, <2>2 DEF Readings, Kept
  <2>4. /\ Close(r).name = <<>> /\ Close(r).kept = r.kept /\ Close(r).above = TRUE
        /\ Close(r).emptied = r.emptied
    BY <2>2
  <2> QED
    BY <1>2, <1>4, <2>3, <2>4
<1>5. CASE r.name = Parent /\ r.kept # <<>>
  <2>1. Close(r) = [r EXCEPT !.name = <<>>, !.kept = Front(@), !.emptied = @ \/ Len(r.kept) = 1]
    BY <1>2, <1>5 DEF Close
  <2>2. Close(r) = [kept |-> Front(r.kept), name |-> <<>>, above |-> r.above,
                    emptied |-> (r.emptied \/ Len(r.kept) = 1)]
    BY <1>1, <2>1
  <2>3. Front(r.kept) \in Seq(Kept)
    BY <1>1, FrontIs
  <2> QED
    BY <1>1, <1>2, <1>5, <2>2, <2>3 DEF Readings, Kept
<1>6. CASE r.name \notin {<<>>, Self, Parent}
  <2>1. Close(r) = [r EXCEPT !.name = <<>>, !.kept = Append(@, r.name)]
    BY <1>6 DEF Close
  <2>2. Close(r) = [kept |-> Append(r.kept, r.name), name |-> <<>>, above |-> r.above,
                    emptied |-> r.emptied]
    BY <1>1, <2>1
  <2>3. Append(r.kept, r.name) \in Seq(Kept)
    BY <1>1, <1>6, AppendProperties DEF Kept
  <2> QED
    BY <1>1, <1>2, <1>6, <2>2, <2>3 DEF Readings, Kept
<1> QED
  BY <1>3, <1>4, <1>5, <1>6
-----------------------------------------------------------------------------
\* What has been read when the scan is at p.

SameButName(r, s) == r.kept = s.kept /\ r.above = s.above /\ r.emptied = s.emptied

LEMMA ReadCharIs ==
    ASSUME NEW r \in Readings, NEW c \in Plain
    PROVE  /\ ReadChar(r, c) \in Readings /\ SameButName(ReadChar(r, c), r)
           /\ ReadChar(r, c).name = Append(r.name, c)
           /\ Append(r.name, c) # <<>> /\ Len(Append(r.name, c)) = Len(r.name) + 1
<1> DEFINE Kept == Seq(Plain) \ {<<>>}
<1>1. /\ r.kept \in Seq(Kept) /\ r.name \in Seq(Plain)
      /\ r.above \in BOOLEAN /\ r.emptied \in BOOLEAN
      /\ r = [kept |-> r.kept, name |-> r.name, above |-> r.above, emptied |-> r.emptied]
  BY DEF Readings
<1> HIDE DEF Kept
<1>2. ReadChar(r, c) = [r EXCEPT !.name = Append(@, c)]
  BY DEF ReadChar, Plain
<1>3. ReadChar(r, c) = [kept |-> r.kept, name |-> Append(r.name, c), above |-> r.above,
                        emptied |-> r.emptied]
  BY <1>1, <1>2
<1>4. /\ Append(r.name, c) \in Seq(Plain) /\ Append(r.name, c) # <<>>
      /\ Len(Append(r.name, c)) = Len(r.name) + 1
  BY <1>1, AppendProperties
<1> QED
  BY <1>1, <1>3, <1>4 DEF Readings, SameButName, Kept

LEMMA NothingIs ==
    Nothing \in Readings /\ Nothing.kept = <<>> /\ Nothing.name = <<>>
    /\ ~Nothing.above /\ ~Nothing.emptied
<1> DEFINE Kept == Seq(Plain) \ {<<>>}
<1>1. <<>> \in Seq(Kept) /\ <<>> \in Seq(Plain)
  BY EmptySeq
<1> QED
  BY <1>1 DEF Nothing, Readings

LEMMA ReadingIs ==
    ASSUME StaysInPath, input \in Inputs
    PROVE  /\ \A p \in 0 .. length : Reading(Path)[p] \in Readings
           /\ Reading(Path)[0] = Nothing
           /\ \A p \in 0 .. length - 1 :
                  Byte(p) = SEP => Reading(Path)[p + 1] = Close(Reading(Path)[p])
           /\ \A p \in 0 .. length - 1 :
                  Byte(p) # SEP =>
                      /\ SameButName(Reading(Path)[p + 1], Reading(Path)[p])
                      /\ Reading(Path)[p + 1].name = Append(Reading(Path)[p].name, Byte(p))
                      /\ Reading(Path)[p + 1].name # <<>>
<1>1. PICK n \in Nat : n = length
  BY PathIs
<1>2. PICK R : R = Reading(Path)
  OBVIOUS
<1>3. R[0] = Nothing /\ \A p \in 1 .. n : R[p] = ReadChar(R[p - 1], Path[p])
  BY <1>1, <1>2, ReadingUnfolds DEF length
<1>4. ASSUME NEW p \in 0 .. n - 1
      PROVE  /\ R[p + 1] = ReadChar(R[p], Byte(p))
             /\ Byte(p) # SEP => Byte(p) \in Plain
  <2>1. p + 1 \in 1 .. n /\ (p + 1) - 1 = p
    OBVIOUS
  <2>2. Byte(p) = Path[p + 1] /\ Byte(p) \in Bytes
    <3>1. p \in 0 .. n
      OBVIOUS
    <3> QED
      BY <1>1, <3>1, BytesOfPath
  <2> QED
    BY <1>3, <2>1, <2>2 DEF Plain
<1>5. ASSUME NEW p \in 0 .. n - 1, R[p] \in Readings
      PROVE  /\ R[p + 1] \in Readings
             /\ Byte(p) = SEP => R[p + 1] = Close(R[p])
             /\ Byte(p) # SEP => /\ SameButName(R[p + 1], R[p])
                                 /\ R[p + 1].name = Append(R[p].name, Byte(p))
                                 /\ R[p + 1].name # <<>>
  <2>1. CASE Byte(p) = SEP
    <3>1. R[p + 1] = Close(R[p])
      BY <1>4, <2>1 DEF ReadChar
    <3>2. Close(R[p]) \in Readings
      BY <1>5, CloseIs
    <3> QED
      BY <2>1, <3>1, <3>2
  <2>2. CASE Byte(p) # SEP
    <3>1. PICK r \in Readings, c \in Plain : r = R[p] /\ c = Byte(p)
      BY <1>4, <1>5, <2>2
    <3>2. R[p + 1] = ReadChar(r, c)
      BY <1>4, <3>1
    <3>3. /\ ReadChar(r, c) \in Readings /\ SameButName(ReadChar(r, c), r)
          /\ ReadChar(r, c).name = Append(r.name, c) /\ Append(r.name, c) # <<>>
      BY ReadCharIs
    <3> QED
      BY <2>2, <3>1, <3>2, <3>3
  <2> QED
    BY <2>1, <2>2
<1> DEFINE T == {p \in Nat : p <= n => R[p] \in Readings}
<1>6. \A p \in 0 .. n : R[p] \in Readings
  <2>1. 0 \in T
    BY <1>3, NothingIs
  <2>2. ASSUME NEW p \in Nat, p \in T PROVE p + 1 \in T
    <3>1. CASE p + 1 <= n
      <4>1. p \in 0 .. n - 1 /\ p <= n
        BY <3>1
      <4> QED
        BY <1>5, <2>2, <4>1
    <3>2. CASE ~(p + 1 <= n)
      BY <3>2
    <3> QED
      BY <3>1, <3>2
  <2> HIDE DEF T
  <2>3. Nat \subseteq T
    BY <2>1, <2>2, Induction
  <2> USE DEF T
  <2> QED
    BY <2>3
<1>7. \A p \in 0 .. n - 1 : R[p] \in Readings
  BY <1>6
<1> QED
  BY <1>1, <1>2, <1>3, <1>5, <1>6, <1>7

LEMMA AtIs ==
    ASSUME StaysInPath, input \in Inputs
    PROVE  /\ \A p \in 0 .. length + 1 : At(p) \in Readings
           /\ At(0) = Nothing /\ At(length) = Read(Path) /\ At(length + 1) = Resolve(Path)
           /\ \A p \in 0 .. length : Ahead(p) => At(p + 1) = Close(At(p))
           /\ \A p \in 0 .. length - 1 :
                  Byte(p) # SEP => /\ SameButName(At(p + 1), At(p))
                                   /\ At(p + 1).name = Append(At(p).name, Byte(p))
           /\ \A p \in 0 .. length : At(p).name = <<>> <=> Behind(p)
<1>1. PICK n \in Nat : n = length
  BY PathIs
<1>2. PICK R : R = Reading(Path)
  OBVIOUS
<1>3. (\A p \in 0 .. n : At(p) = R[p]) /\ At(n + 1) = Close(R[n]) /\ Read(Path) = R[n]
  <2>1. Read(Path) = R[n]
    BY <1>1, <1>2 DEF Read, length
  <2>2. \A p \in 0 .. n : p <= n
    OBVIOUS
  <2>3. ~(n + 1 <= n)
    OBVIOUS
  <2> QED
    BY <1>1, <1>2, <2>1, <2>2, <2>3 DEF At
<1>4. /\ \A p \in 0 .. n : R[p] \in Readings
      /\ R[0] = Nothing
      /\ \A p \in 0 .. n - 1 : Byte(p) = SEP => R[p + 1] = Close(R[p])
      /\ \A p \in 0 .. n - 1 : Byte(p) # SEP => /\ SameButName(R[p + 1], R[p])
                                                /\ R[p + 1].name = Append(R[p].name, Byte(p))
                                                /\ R[p + 1].name # <<>>
  BY <1>1, <1>2, ReadingIs
<1>5. \A p \in 0 .. n - 1 : p \in 0 .. n /\ p + 1 \in 0 .. n
  OBVIOUS
<1>6. 0 \in 0 .. n /\ n \in 0 .. n
  OBVIOUS
<1>7. \A p \in 0 .. n + 1 : At(p) \in Readings
  <2>1. \A p \in 0 .. n + 1 : p \in 0 .. n \/ p = n + 1
    OBVIOUS
  <2> QED
    BY <1>3, <1>4, <1>6, <2>1, CloseIs
<1>8. ASSUME NEW p \in 0 .. n, Ahead(p) PROVE At(p + 1) = Close(At(p))
  <2>1. CASE p = n
    BY <1>3, <1>6, <2>1
  <2>2. CASE p \in 0 .. n - 1
    <3>1. Byte(p) # NUL
      BY <1>1, <2>2, BytesOfPath
    <3>2. Byte(p) = SEP
      BY <1>8, <3>1 DEF Ahead
    <3> QED
      BY <1>3, <1>4, <1>5, <2>2, <3>2
  <2> QED
    BY <2>1, <2>2
<1>9. ASSUME NEW p \in 0 .. n PROVE At(p).name = <<>> <=> Behind(p)
  <2>1. CASE p = 0
    BY <1>3, <1>4, <1>6, <2>1, NothingIs DEF Behind
  <2>2. CASE p > 0
    <3>1. p - 1 \in 0 .. n - 1 /\ (p - 1) + 1 = p
      BY <2>2
    <3>2. CASE Byte(p - 1) = SEP
      BY <1>3, <1>4, <1>5, <2>2, <3>1, <3>2, CloseIs DEF Behind
    <3>3. CASE Byte(p - 1) # SEP
      BY <1>3, <1>4, <1>5, <2>2, <3>1, <3>3 DEF Behind
    <3> QED
      BY <3>2, <3>3
  <2> QED
    BY <2>1, <2>2
<1>10. /\ At(0) = Nothing /\ At(n) = Read(Path) /\ At(n + 1) = Resolve(Path)
       /\ \A p \in 0 .. n - 1 : Byte(p) # SEP => /\ SameButName(At(p + 1), At(p))
                                                /\ At(p + 1).name = Append(At(p).name, Byte(p))
  BY <1>3, <1>4, <1>5, <1>6 DEF Resolve
<1> QED
  BY <1>1, <1>7, <1>8, <1>9, <1>10

\* The separators of a run but the first end components without a name.
LEMMA SeparatorRun ==
    ASSUME StaysInPath, input \in Inputs, NEW p \in 0 .. length - 1, NEW j \in p .. length - 1,
           \A k \in p .. j : Byte(k) = SEP
    PROVE  At(j + 1) = Close(At(p))
<1>1. PICK n \in Nat : n = length
  BY PathIs
<1>2. p \in Nat /\ j \in Nat /\ p <= j /\ j < n
  BY <1>1
<1> DEFINE T == {m \in Nat : p + m <= j => At((p + m) + 1) = Close(At(p))}
<1>3. \A k \in p .. j : k \in 0 .. n /\ At(k + 1) = Close(At(k)) /\ At(k + 1) \in Readings
  <2>1. \A k \in p .. j : k \in 0 .. n /\ k + 1 \in 0 .. n + 1
    BY <1>2
  <2>2. \A k \in p .. j : Ahead(k)
    BY DEF Ahead
  <2> QED
    BY <1>1, <2>1, <2>2, AtIs
<1>4. At(p) \in Readings
  <2>1. p \in 0 .. n + 1
    BY <1>2
  <2> QED
    BY <1>1, <2>1, AtIs
<1>5. 0 \in T
  <2>1. p + 0 = p /\ p \in p .. j
    BY <1>2
  <2> QED
    BY <1>3, <2>1
<1>6. ASSUME NEW m \in Nat, m \in T PROVE m + 1 \in T
  <2>1. CASE p + (m + 1) <= j
    <3>1. p + m <= j /\ (p + m) + 1 = p + (m + 1) /\ p + (m + 1) \in p .. j
      BY <1>2, <2>1
    <3>2. At(p + (m + 1)) = Close(At(p))
      BY <1>6, <3>1
    <3>3. At((p + (m + 1)) + 1) = Close(At(p + (m + 1)))
      BY <1>3, <3>1
    <3>4. Close(Close(At(p))) = Close(At(p))
      BY <1>4, CloseIs
    <3> QED
      BY <3>2, <3>3, <3>4
  <2>2. CASE ~(p + (m + 1) <= j)
    BY <2>2
  <2> QED
    BY <2>1, <2>2
<1>7. Nat \subseteq T
  <2> HIDE DEF T
  <2> QED
    BY <1>5, <1>6, Induction
<1>8. j - p \in T
  <2> HIDE DEF T
  <2>1. j - p \in Nat
    BY <1>2
  <2> QED
    BY <1>7, <2>1
<1>9. p + (j - p) = j
  BY <1>2
<1> QED
  BY <1>2, <1>8, <1>9

\* A path that climbs above its root, or loses its first component, has done so.
LEMMA ReadingRemembers ==
    ASSUME StaysInPath, input \in Inputs, NEW p \in 0 .. length + 1
    PROVE  /\ At(p).above => Resolve(Path).above
           /\ At(p).emptied => Resolve(Path).emptied
<1>1. PICK n \in Nat : n = length
  BY PathIs
<1>2. ASSUME NEW q \in 0 .. n
      PROVE  (At(q).above => At(q + 1).above) /\ (At(q).emptied => At(q + 1).emptied)
  <2>1. At(q) \in Readings
    <3>1. q \in 0 .. n + 1
      OBVIOUS
    <3> QED
      BY <1>1, <3>1, AtIs
  <2>2. CASE Ahead(q)
    BY <1>1, <2>1, <2>2, AtIs, CloseIs
  <2>3. CASE ~Ahead(q)
    <3>1. q # n /\ Byte(q) # SEP
      BY <1>1, <2>3, BytesOfPath DEF Ahead
    <3>2. q \in 0 .. n - 1
      BY <3>1
    <3> QED
      BY <1>1, <3>1, <3>2, AtIs DEF SameButName
  <2> QED
    BY <2>2, <2>3
<1> DEFINE T == {m \in Nat : m <= n + 1 => /\ At((n + 1) - m).above => At(n + 1).above
                                           /\ At((n + 1) - m).emptied => At(n + 1).emptied}
<1>3. 0 \in T
  BY (n + 1) - 0 = n + 1
<1>4. ASSUME NEW m \in Nat, m \in T PROVE m + 1 \in T
  <2>1. CASE m + 1 <= n + 1
    <3>1. /\ (n + 1) - (m + 1) \in 0 .. n /\ ((n + 1) - (m + 1)) + 1 = (n + 1) - m
          /\ m <= n + 1
      BY <2>1
    <3> QED
      BY <1>2, <1>4, <3>1
  <2>2. CASE ~(m + 1 <= n + 1)
    BY <2>2
  <2> QED
    BY <2>1, <2>2
<1>5. Nat \subseteq T
  <2> HIDE DEF T
  <2> QED
    BY <1>3, <1>4, Induction
<1>6. (n + 1) - p \in T
  <2> HIDE DEF T
  <2>1. (n + 1) - p \in Nat
    BY <1>1
  <2> QED
    BY <1>5, <2>1
<1>7. (n + 1) - ((n + 1) - p) = p /\ (n + 1) - p <= n + 1
  BY <1>1
<1> QED
  BY <1>1, <1>6, <1>7, AtIs
-----------------------------------------------------------------------------
\* What a round of the loop that does not return does to the scan, the output and
\* what has been read.

LEMMA PathKept ==
    ASSUME input' = input
    PROVE  /\ Path' = Path /\ length' = length
           /\ \A q : At(q)' = At(q)
           /\ read' = At(scan_pos')
           /\ \A i : Byte(i)' = Byte(i)
           /\ \A i : Ahead(i)' = Ahead(i)
           /\ Byte(scan_pos)' = Byte(scan_pos') /\ Byte(scan_pos - 1)' = Byte(scan_pos' - 1)
           /\ Ahead(scan_pos)' = Ahead(scan_pos') /\ Ahead(scan_pos + 1)' = Ahead(scan_pos' + 1)
           /\ SingleSeparators' = SingleSeparators
           /\ Absolute(Path)' = Absolute(Path)
<1>1. Path' = Path /\ length' = length
  BY LengthKept
<1>2. \A q : At(q)' = At(q)
  BY <1>1 DEF At
<1>3. read' = At(scan_pos')
  BY <1>1 DEF read, At
<1>4. \A i : Byte(i)' = Byte(i)
  BY DEF Byte
<1>5. \A i : Ahead(i)' = Ahead(i)
  BY <1>4 DEF Ahead
<1>6. /\ Byte(scan_pos)' = Byte(scan_pos') /\ Byte(scan_pos - 1)' = Byte(scan_pos' - 1)
      /\ Ahead(scan_pos)' = Ahead(scan_pos') /\ Ahead(scan_pos + 1)' = Ahead(scan_pos' + 1)
  BY DEF Ahead, Byte
<1> QED
  BY <1>1, <1>2, <1>3, <1>4, <1>5, <1>6 DEF SingleSeparators, Absolute

LEMMA Situation ==
    ASSUME StaysInPath, Types, ScanInv, Running
    PROVE  /\ input \in Inputs /\ length \in Nat /\ scan_pos \in 0 .. length + 1
           /\ out_len \in Nat /\ write_pos \in 0 .. out_len - 1
           /\ out \in [0 .. out_len - 1 -> Bytes \cup {JUNK}]
           /\ read \in Readings /\ read.name \in Seq(Plain) /\ Len(read.name) \in Nat
           /\ read.kept \in Seq(Seq(Plain) \ {<<>>}) /\ Len(read.kept) \in Nat
           /\ scan_pos = length + 1 => read.name = <<>>
<1>1. PICK n \in Nat : n = length
  BY PathIs DEF Types
<1>2. /\ input \in Inputs /\ scan_pos \in 0 .. n + 1 /\ out_len \in Nat
      /\ write_pos \in 0 .. out_len - 1 /\ out \in [0 .. out_len - 1 -> Bytes \cup {JUNK}]
  BY <1>1, ConstantsAssumption DEF Types, ScanInv, ConstantsAssumption
<1>3. read \in Readings
  BY <1>1, <1>2, AtIs DEF read
<1>4. read.name \in Seq(Plain) /\ read.kept \in Seq(Seq(Plain) \ {<<>>})
  BY <1>3 DEF Readings
<1>5. Len(read.name) \in Nat /\ Len(read.kept) \in Nat
  BY <1>4, LenProperties
<1>6. At(n + 1).name = <<>>
  <2>1. n \in 0 .. n /\ n \in 0 .. n + 1
    OBVIOUS
  <2>2. Ahead(n)
    BY <1>1, <1>2, BytesOfPath DEF Ahead
  <2>3. At(n) \in Readings /\ At(n + 1) = Close(At(n))
    BY <1>1, <1>2, <2>1, <2>2, AtIs
  <2> QED
    BY <2>3, CloseIs
<1> QED
  BY <1>1, <1>2, <1>3, <1>4, <1>5, <1>6 DEF read

\* c bytes of a name are copied.
Copies(c) ==
    /\ scan_pos + c <= length /\ scan_pos' = scan_pos + c /\ write_pos' = write_pos + c
    /\ \A k \in 0 .. write_pos - 1 : out'[k] = out[k]
    /\ \A k \in 0 .. c - 1 : out'[write_pos + k] = Byte(scan_pos + k)
    /\ SameButName(read', read)
    /\ Len(read'.name) = Len(read.name) + c
    /\ \A k \in 1 .. Len(read.name) : read'.name[k] = read.name[k]
    /\ \A k \in 0 .. c - 1 : read'.name[Len(read.name) + 1 + k] = Byte(scan_pos + k)

\* One byte, or both of a longer character.
CopiesName ==
    \/ /\ Copies(1)
       /\ scan_pos < length /\ Byte(scan_pos) # SEP
       /\ Byte(scan_pos) = DOT => ~RelativeRef(scan_pos) /\ ~ParentRef(scan_pos)
    \/ /\ Copies(2)
       /\ scan_pos + 1 < length /\ Byte(scan_pos + 1) = CONT
    \/ scan_pos' = scan_pos /\ write_pos' = write_pos /\ out' = out /\ read' = read

\* A component, or the root, ends in separators, the last at j.
CopiesSeparator(j) ==
    /\ scan_pos <= j /\ j < length /\ scan_pos' = j + 1 /\ write_pos' = write_pos + 1
    /\ \A k \in 0 .. write_pos - 1 : out'[k] = out[k]
    /\ out'[write_pos] = SEP
    /\ Byte(scan_pos) = SEP /\ Byte(j + 1) # SEP
    /\ read.name \notin {Self, Parent} /\ read' = Close(read)

SkipsSelf ==
    /\ scan_pos < length /\ scan_pos' = scan_pos + 2 /\ write_pos' = write_pos /\ out' = out
    /\ Byte(scan_pos) = DOT /\ Behind(scan_pos) /\ Ahead(scan_pos + 1)
    /\ read.name = <<>> /\ SameButName(read', read) /\ read'.name = <<>>

TakesAway ==
    /\ scan_pos + 1 < length /\ scan_pos' = scan_pos + 3 /\ out' = out
    /\ ~AtRoot(write_pos) /\ write_pos' \in Stops /\ \A l \in Stops : l <= write_pos'
    /\ Byte(scan_pos) = DOT /\ Byte(scan_pos + 1) = DOT
    /\ Behind(scan_pos) /\ Ahead(scan_pos + 2)
    /\ read.name = <<>>
    /\ \E r \in Readings : r.name = Parent /\ SameButName(r, read) /\ read' = Close(r)

Goes == CopiesName \/ (\E j \in Nat : CopiesSeparator(j)) \/ SkipsSelf \/ TakesAway

LEMMA CopyReads ==
    ASSUME StaysInPath, Types, ScanInv, Running, input' = input,
           scan_pos < length, Byte(scan_pos) # SEP, scan_pos' = scan_pos + 1
    PROVE  /\ SameButName(read', read) /\ Len(read'.name) = Len(read.name) + 1
           /\ \A k \in 1 .. Len(read.name) : read'.name[k] = read.name[k]
           /\ read'.name[Len(read.name) + 1] = Byte(scan_pos)
           /\ read'.name = Append(read.name, Byte(scan_pos))
<1>1. PICK n \in Nat, p \in Nat : n = length /\ p = scan_pos /\ p < n
  BY PathIs DEF Types
<1>2. p \in 0 .. n - 1 /\ p \in 0 .. n
  BY <1>1
<1>3. read' = At(p + 1) /\ read = At(p)
  BY <1>1, PathKept DEF read
<1>4. SameButName(At(p + 1), At(p)) /\ At(p + 1).name = Append(At(p).name, Byte(p))
  BY <1>1, <1>2, AtIs DEF Types
<1>5. Byte(p) \in Plain /\ read.name \in Seq(Plain)
  BY <1>1, <1>2, BytesOfPath, Situation DEF Plain, Types
<1> QED
  BY <1>1, <1>3, <1>4, <1>5, AppendProperties

LEMMA WriteIs ==
    ASSUME StaysInPath, Types, ScanInv, Running, NEW i \in Nat, scan_pos <= i, i < length,
           WriteChar(i), Running'
    PROVE  /\ input' = input
           /\ scan_pos' = i + CharLen(Byte(i)) /\ write_pos' = write_pos + CharLen(Byte(i))
           /\ \A k \in 0 .. write_pos - 1 : out'[k] = out[k]
           /\ \A k \in 0 .. CharLen(Byte(i)) - 1 : out'[write_pos + k] = Byte(i + k)
           /\ CharLen(Byte(i)) = 0 => out' = out
           /\ CharLen(Byte(i)) \in {0, 1, 2}
           /\ CharLen(Byte(i)) = 2 <=> Byte(i) = LEAD
           /\ CharLen(Byte(i)) = 0 <=> Byte(i) = CONT
<1>1. PICK w \in Nat, o \in Nat : w = write_pos /\ o = out_len /\ w < o
  BY Situation
<1>2. PICK c \in {0, 1, 2} : /\ c = CharLen(Byte(i))
                             /\ c = 2 <=> Byte(i) = LEAD
                             /\ c = 0 <=> Byte(i) = CONT
  BY ByteFacts DEF CharLen
<1>3. result' # "undefined"
  BY DEF Running
<1>4. i + c <= Len(input) /\ w + c <= o
  BY <1>1, <1>2, <1>3 DEF WriteChar, LeaveObjects
<1>5. /\ out' = [k \in DOMAIN out |-> IF k \in w .. w + c - 1 THEN Byte(i + k - w) ELSE out[k]]
      /\ scan_pos' = i + c /\ write_pos' = w + c /\ input' = input
  BY <1>1, <1>2, <1>4 DEF WriteChar, arguments
<1>6. DOMAIN out = 0 .. o - 1 /\ out = [k \in 0 .. o - 1 |-> out[k]]
  BY <1>1, Situation
<1>7. \A k \in 0 .. w - 1 : out'[k] = out[k]
  <2>1. \A k \in 0 .. w - 1 : k \in 0 .. o - 1 /\ k \notin w .. w + c - 1
    BY <1>1
  <2> QED
    BY <1>5, <1>6, <2>1
<1>8. \A k \in 0 .. c - 1 : out'[w + k] = Byte(i + k)
  <2>1. \A k \in 0 .. c - 1 : w + k \in 0 .. o - 1 /\ w + k \in w .. w + c - 1 /\ i + (w + k) - w = i + k
    BY <1>4
  <2> QED
    BY <1>5, <1>6, <2>1
<1>9. c = 0 => out' = out
  <2>1. c = 0 => \A k \in 0 .. o - 1 : k \notin w .. w + c - 1
    OBVIOUS
  <2> QED
    BY <1>5, <1>6, <2>1
<1> QED
  BY <1>1, <1>2, <1>5, <1>7, <1>8, <1>9

LEMMA CopyCharIs ==
    ASSUME StaysInPath, Types, ScanInv, Running, CopyChar, Running'
    PROVE  input' = input /\ CopiesName
<1>1. PICK n \in Nat, p \in Nat, w \in Nat : n = length /\ p = scan_pos /\ w = write_pos
                                    /\ InPath(p)
  BY PathIs DEF Types, ScanInv
<1>2. p < n /\ WriteChar(p) /\ Byte(p) # SEP
      /\ (Byte(p) = DOT => ~RelativeRef(p) /\ ~ParentRef(p))
  BY <1>1, BytesOfPath DEF CopyChar, Types
<1>3. PICK c \in {0, 1, 2} : /\ c = CharLen(Byte(p)) /\ input' = input
                             /\ scan_pos' = p + c /\ write_pos' = w + c
                             /\ \A k \in 0 .. w - 1 : out'[k] = out[k]
                             /\ \A k \in 0 .. c - 1 : out'[w + k] = Byte(p + k)
                             /\ c = 0 => out' = out
                             /\ c = 2 <=> Byte(p) = LEAD
  BY <1>1, <1>2, WriteIs
<1>4. CASE c = 0
  <2>1. scan_pos' = p /\ write_pos' = w
    BY <1>3, <1>4
  <2>2. read' = read
    BY <1>1, <1>3, <2>1, PathKept DEF read
  <2> QED
    BY <1>1, <1>3, <1>4, <2>1, <2>2 DEF CopiesName
<1>5. CASE c = 1
  <2>1. /\ SameButName(read', read) /\ Len(read'.name) = Len(read.name) + 1
        /\ \A k \in 1 .. Len(read.name) : read'.name[k] = read.name[k]
        /\ read'.name[Len(read.name) + 1] = Byte(p)
    BY <1>1, <1>2, <1>3, <1>5, CopyReads
  <2>2. \A k \in 0 .. 1 - 1 : read'.name[Len(read.name) + 1 + k] = Byte(p + k)
    <3>1. Len(read.name) \in Nat
      BY Situation
    <3>2. \A k \in 0 .. 1 - 1 : Len(read.name) + 1 + k = Len(read.name) + 1 /\ p + k = p
      BY <3>1
    <3> QED
      BY <2>1, <3>2
  <2>3. Copies(1)
    BY <1>1, <1>2, <1>3, <1>5, <2>1, <2>2 DEF Copies
  <2> QED
    BY <1>1, <1>2, <1>3, <2>3 DEF CopiesName
<1>6. CASE c = 2
  <2>1. p + 1 < n /\ Byte(p + 1) = CONT
    <3>1. p \in 0 .. n - 1
      BY <1>2
    <3> QED
      BY <1>1, <1>3, <1>6, <3>1, BytesOfPath DEF Types
  <2>2. PICK r : r = At(p + 1)
    OBVIOUS
  <2>3. /\ p \in 0 .. n - 1 /\ p + 1 \in 0 .. n - 1 /\ (p + 1) + 1 = p + 2
        /\ p + 1 \in 0 .. n + 1 /\ p + 2 \in 0 .. n + 1
    BY <2>1
  <2>4. /\ read = At(p) /\ read' = At(p + 2) /\ r \in Readings /\ read' \in Readings
        /\ SameButName(r, read) /\ r.name = Append(read.name, Byte(p))
        /\ SameButName(read', r) /\ read'.name = Append(r.name, CONT)
    <3>1. read = At(p) /\ read' = At(p + 2)
      BY <1>1, <1>3, <1>6, PathKept DEF read
    <3>2. Byte(p) # SEP /\ Byte(p + 1) # SEP
      BY <1>2, <2>1, ByteFacts
    <3> QED
      BY <1>1, <2>1, <2>2, <2>3, <3>1, <3>2, AtIs DEF Types
  <2>5. PICK m \in Nat : m = Len(read.name)
    BY Situation
  <2>6. /\ Byte(p) \in Plain /\ CONT \in Plain /\ read.name \in Seq(Plain)
        /\ r.name \in Seq(Plain)
    BY <1>1, <1>2, <2>1, <2>3, <2>4, BytesOfPath, Situation, ByteFacts
    DEF Plain, Bytes, Readings, Types
  <2>7. /\ Len(r.name) = m + 1 /\ \A k \in 1 .. m : r.name[k] = read.name[k]
        /\ r.name[m + 1] = Byte(p)
    BY <2>4, <2>5, <2>6, AppendProperties
  <2>8. /\ Len(read'.name) = (m + 1) + 1 /\ \A k \in 1 .. m + 1 : read'.name[k] = r.name[k]
        /\ read'.name[(m + 1) + 1] = CONT
    <3>1. PICK nm \in Seq(Plain) : nm = r.name /\ Len(nm) = m + 1
      BY <2>6, <2>7
    <3>2. /\ Len(Append(nm, CONT)) = Len(nm) + 1 /\ Append(nm, CONT)[Len(nm) + 1] = CONT
          /\ \A k \in 1 .. Len(nm) : Append(nm, CONT)[k] = nm[k]
      BY <2>6, AppendProperties
    <3> QED
      BY <2>4, <3>1, <3>2
  <2>9. /\ Len(read'.name) = m + 2 /\ \A k \in 1 .. m : read'.name[k] = read.name[k]
        /\ \A k \in 0 .. 2 - 1 : read'.name[m + 1 + k] = Byte(p + k)
    <3>1. m + 2 = (m + 1) + 1 /\ m + 1 \in 1 .. m + 1 /\ \A k \in 1 .. m : k \in 1 .. m + 1
      OBVIOUS
    <3>2. read'.name[m + 1] = Byte(p) /\ read'.name[m + 2] = Byte(p + 1)
      BY <2>1, <2>7, <2>8, <3>1
    <3>3. \A k \in 0 .. 2 - 1 : \/ m + 1 + k = m + 1 /\ p + k = p
                                \/ m + 1 + k = m + 2 /\ p + k = p + 1
      OBVIOUS
    <3> QED
      BY <2>7, <2>8, <3>1, <3>2, <3>3
  <2>10. SameButName(read', read)
    BY <2>4 DEF SameButName
  <2>11. p + 2 <= n
    BY <2>1
  <2>12. Copies(2)
    BY <1>1, <1>3, <1>6, <2>5, <2>9, <2>10, <2>11 DEF Copies
  <2> QED
    BY <1>1, <1>3, <2>1, <2>12 DEF CopiesName
<1> QED
  BY <1>4, <1>5, <1>6

LEMMA CopySeparatorIs ==
    ASSUME StaysInPath, Types, ScanInv, NoReferenceCopied, Running,
           CopySeparator, Running'
    PROVE  input' = input /\ \E j \in Nat : CopiesSeparator(j)
<1>1. PICK n \in Nat, p \in Nat, w \in Nat : n = length /\ p = scan_pos /\ w = write_pos
  BY PathIs DEF Types
<1>2. Byte(p) = SEP /\ InPath(p) /\ input \in Inputs
  BY <1>1 DEF CopySeparator, Types, ScanInv
<1>3. PICK j \in p .. n - 1 : /\ j = LastSeparator(p)
                              /\ \A k \in p .. j : Byte(k) = SEP
                              /\ Byte(j + 1) # SEP
  BY <1>1, <1>2, LastSeparatorIs
<1>4. j \in Nat /\ p <= j /\ j < n /\ p \in 0 .. n - 1 /\ j \in p .. j
  BY <1>3
<1>5. Byte(j) = SEP /\ CharLen(Byte(j)) = 1
  BY <1>3, <1>4, ByteFacts DEF CharLen
<1>6. /\ input' = input /\ scan_pos' = j + 1 /\ write_pos' = w + 1
      /\ \A k \in 0 .. w - 1 : out'[k] = out[k]
      /\ out'[w] = SEP
  <2>1. WriteChar(j)
    BY <1>1, <1>3 DEF CopySeparator
  <2>2. /\ input' = input /\ scan_pos' = j + 1 /\ write_pos' = w + 1
        /\ \A k \in 0 .. w - 1 : out'[k] = out[k]
        /\ \A k \in 0 .. 1 - 1 : out'[w + k] = Byte(j + k)
    BY <1>1, <1>4, <1>5, <2>1, WriteIs
  <2>3. 0 \in 0 .. 1 - 1 /\ w + 0 = w /\ j + 0 = j
    BY <1>4
  <2> QED
    BY <1>5, <2>2, <2>3
<1>7. At(j + 1) = Close(At(p))
  BY <1>1, <1>2, <1>3, <1>4, SeparatorRun
<1>8. read' = Close(read)
  BY <1>1, <1>6, <1>7, PathKept DEF read
<1>9. read.name \notin {Self, Parent}
  BY <1>1, <1>2 DEF NoReferenceCopied, Ahead
<1>10. CopiesSeparator(j)
  BY <1>1, <1>2, <1>3, <1>4, <1>6, <1>8, <1>9 DEF CopiesSeparator
<1> QED
  BY <1>4, <1>6, <1>10

\* A dot at the start of a component has been read.
LEMMA DotRead ==
    ASSUME StaysInPath, input \in Inputs, NEW p \in Nat, p < length, Byte(p) = DOT, Behind(p)
    PROVE  /\ At(p) \in Readings /\ At(p).name = <<>>
           /\ At(p + 1) \in Readings /\ At(p + 1).name = Self /\ SameButName(At(p + 1), At(p))
<1>1. PICK n \in Nat : n = length
  BY PathIs
<1>2. p \in 0 .. n /\ p \in 0 .. n + 1 /\ p + 1 \in 0 .. n + 1 /\ p \in 0 .. n - 1
  BY <1>1
<1>3. /\ At(p) \in Readings /\ At(p + 1) \in Readings /\ At(p).name = <<>>
      /\ SameButName(At(p + 1), At(p)) /\ At(p + 1).name = Append(<<>>, DOT)
  BY <1>1, <1>2, AtIs, ByteFacts
<1>4. Append(<<>>, DOT) = Self
  BY DEF Self
<1> QED
  BY <1>3, <1>4

LEMMA SkipRelativeRefIs ==
    ASSUME StaysInPath, Types, ScanInv, Running, SkipRelativeRef
    PROVE  input' = input /\ SkipsSelf
<1>1. PICK n \in Nat, p \in Nat, w \in Nat : n = length /\ p = scan_pos /\ w = write_pos
  BY PathIs DEF Types
<1>2. /\ Byte(p) = DOT /\ Behind(p) /\ Ahead(p + 1) /\ input \in Inputs /\ input' = input
      /\ scan_pos' = p + 2 /\ write_pos' = w /\ out' = out
  BY <1>1 DEF SkipRelativeRef, RelativeRef, Types, arguments
<1>3. p < n
  BY <1>1, <1>2, ReferenceEnds DEF ScanInv
<1>4. /\ At(p).name = <<>> /\ At(p + 1) \in Readings /\ At(p + 1).name = Self
      /\ SameButName(At(p + 1), At(p))
  BY <1>1, <1>2, <1>3, DotRead
<1>5. At(p + 2) = Close(At(p + 1))
  <2>1. p + 1 \in 0 .. n /\ (p + 1) + 1 = p + 2
    BY <1>3
  <2> QED
    BY <1>1, <1>2, <2>1, AtIs
<1>6. SameButName(At(p + 2), At(p)) /\ At(p + 2).name = <<>>
  BY <1>4, <1>5, CloseIs DEF SameButName
<1>7. read = At(p) /\ read' = At(p + 2)
  BY <1>1, <1>2, PathKept DEF read
<1> QED
  BY <1>1, <1>2, <1>3, <1>4, <1>6, <1>7 DEF SkipsSelf

\* A parent reference has been read.
LEMMA ParentRead ==
    ASSUME StaysInPath, input \in Inputs, NEW p \in Nat, InPath(p), Byte(p) = DOT, ParentRef(p)
    PROVE  /\ p + 1 < length /\ Byte(p + 1) = DOT /\ Behind(p) /\ Ahead(p + 2)
           /\ At(p) \in Readings /\ At(p).name = <<>>
           /\ At(p + 2) \in Readings /\ At(p + 2).name = Parent /\ SameButName(At(p + 2), At(p))
           /\ At(p + 3) = Close(At(p + 2))
<1>1. PICK n \in Nat : n = length
  BY PathIs
<1>2. Behind(p) /\ Byte(p + 1) = DOT /\ Ahead(p + 2)
  BY DEF ParentRef
<1>3. p + 1 < n /\ p < n
  <2>1. p + 1 < n
    BY <1>1, ReferenceEnds
  <2> QED
    BY <2>1
<1>4. /\ At(p) \in Readings /\ At(p).name = <<>>
      /\ At(p + 1) \in Readings /\ At(p + 1).name = Self /\ SameButName(At(p + 1), At(p))
  BY <1>1, <1>2, <1>3, DotRead
<1>5. p + 1 \in 0 .. n - 1 /\ (p + 1) + 1 = p + 2 /\ p + 2 \in 0 .. n /\ p + 2 \in 0 .. n + 1
      /\ (p + 2) + 1 = p + 3
  BY <1>3
<1>6. /\ At(p + 2) \in Readings /\ SameButName(At(p + 2), At(p + 1))
      /\ At(p + 2).name = Append(Self, DOT) /\ At(p + 3) = Close(At(p + 2))
  BY <1>1, <1>2, <1>4, <1>5, AtIs, ByteFacts
<1>7. Append(Self, DOT) = Parent
  <2>1. DOT \in Plain
    BY ByteFacts DEF Plain, Bytes
  <2> HIDE DEF Plain
  <2>0. Self \in Seq(Plain) /\ Len(Self) = 1 /\ Self[1] = DOT
    BY <2>1 DEF Self
  <2>2. PICK s \in Seq(Plain) : s = Self /\ Len(s) = 1 /\ s[1] = DOT
    BY <2>0
  <2>3. /\ Append(s, DOT) \in Seq(Plain) /\ Len(Append(s, DOT)) = Len(s) + 1
        /\ \A i \in 1 .. Len(s) : Append(s, DOT)[i] = s[i]
        /\ Append(s, DOT)[Len(s) + 1] = DOT
    BY <2>1, AppendProperties
  <2>4. 1 \in 1 .. 1 /\ 1 + 1 = 2
    OBVIOUS
  <2>5. Len(Append(s, DOT)) = 2 /\ Append(s, DOT)[1] = DOT /\ Append(s, DOT)[2] = DOT
    BY <2>2, <2>3, <2>4
  <2> QED
    BY <2>2, <2>3, <2>5, ReferencesAre
<1>8. SameButName(At(p + 2), At(p))
  BY <1>4, <1>6 DEF SameButName
<1> QED
  BY <1>1, <1>2, <1>3, <1>4, <1>6, <1>7, <1>8

LEMMA FollowParentRefIs ==
    ASSUME StaysInPath, Types, ScanInv, Running, FollowParentRef, Running'
    PROVE  input' = input /\ TakesAway
<1>1. PICK n \in Nat, p \in Nat : n = length /\ p = scan_pos
  BY PathIs DEF Types
<1>2. Byte(p) = DOT /\ ParentRef(p) /\ input \in Inputs /\ InPath(p)
  BY <1>1 DEF FollowParentRef, Types, ScanInv
<1>3. ~AtRoot(write_pos) /\ PopComponent /\ Stops # {}
  BY DEF FollowParentRef, PopComponent, LeaveObjects, Running
<1>4. /\ write_pos' \in Stops /\ \A l \in Stops : l <= write_pos'
      /\ scan_pos' = p + 3 /\ input' = input /\ out' = out
  BY <1>1, <1>3, PopIs
<1>5. /\ p + 1 < n /\ Byte(p + 1) = DOT /\ Behind(p) /\ Ahead(p + 2)
      /\ At(p).name = <<>>
      /\ At(p + 2) \in Readings /\ At(p + 2).name = Parent /\ SameButName(At(p + 2), At(p))
      /\ At(p + 3) = Close(At(p + 2))
  BY <1>1, <1>2, ParentRead
<1>6. read = At(p) /\ read' = At(p + 3)
  BY <1>1, <1>4, PathKept DEF read
<1> QED
  BY <1>1, <1>2, <1>3, <1>4, <1>5, <1>6 DEF TakesAway

LEMMA StepGoes ==
    ASSUME StaysInPath, Types, ScanInv, NoReferenceCopied, Step, Running'
    PROVE  Running /\ input' = input /\ Goes
<1>1. Running
  BY DEF Step
<1>2. ~LeaveObjects /\ ~Finish
  BY DEF LeaveObjects, Finish, Running
<1>3. CopySeparator \/ SkipRelativeRef \/ FollowParentRef \/ CopyChar
  BY <1>2 DEF Step
<1> QED
  BY <1>1, <1>3, CopySeparatorIs, SkipRelativeRefIs, FollowParentRefIs, CopyCharIs DEF Goes
-----------------------------------------------------------------------------
\* References are never copied.

LEMMA GoesReads ==
    ASSUME StaysInPath, Types, ScanInv, Running, input' = input, Goes
    PROVE  /\ scan_pos' \in 0 .. length + 1 /\ read' \in Readings
           /\ read'.name \in Seq(Plain) /\ Len(read'.name) \in Nat
           /\ read'.kept \in Seq(Seq(Plain) \ {<<>>}) /\ Len(read'.kept) \in Nat
<1>1. PICK n \in Nat, p \in Nat : n = length /\ p = scan_pos /\ p <= n + 1
  BY Situation
<1>2. scan_pos' \in 0 .. n + 1
  <2>1. CASE CopiesName
    BY <1>1, <2>1 DEF CopiesName, Copies
  <2>2. CASE \E j \in Nat : CopiesSeparator(j)
    BY <1>1, <2>2 DEF CopiesSeparator
  <2>3. CASE SkipsSelf
    BY <1>1, <2>3 DEF SkipsSelf
  <2>4. CASE TakesAway
    BY <1>1, <2>4 DEF TakesAway
  <2> QED
    BY <2>1, <2>2, <2>3, <2>4 DEF Goes
<1>3. read' \in Readings
  BY <1>1, <1>2, AtIs, PathKept DEF Types
<1>4. read'.name \in Seq(Plain) /\ read'.kept \in Seq(Seq(Plain) \ {<<>>})
  BY <1>3 DEF Readings
<1> QED
  BY <1>1, <1>2, <1>3, <1>4, LenProperties

LEMMA NoReferenceStep ==
    ASSUME StaysInPath, Types, ScanInv, NoReferenceCopied, Running, input' = input, Goes
    PROVE  NoReferenceCopied'
<1>1. PICK n \in Nat, p \in Nat, m \in Nat : n = length /\ p = scan_pos /\ m = Len(read.name)
  BY Situation
<1> DEFINE Good == /\ read'.name \in {Self, Parent} => ~Ahead(scan_pos')
                   /\ (read'.name = Self /\ Byte(scan_pos') = DOT) => ~Ahead(scan_pos' + 1)
<1>2. Good => NoReferenceCopied'
  BY PathKept DEF NoReferenceCopied
<1> SUFFICES Good
  BY <1>2
<1>3. read.name \in Seq(Plain) /\ read'.name \in Seq(Plain)
  BY Situation, GoesReads
<1>4. read'.name = <<>> => Good
  BY <1>3, ReferencesAre
<1>5. CASE CopiesName
  <2>1. CASE /\ Copies(1) /\ scan_pos < length
             /\ Byte(scan_pos) = DOT => ~RelativeRef(scan_pos) /\ ~ParentRef(scan_pos)
    <3>1. /\ scan_pos' = p + 1 /\ Len(read'.name) = m + 1
          /\ \A k \in 1 .. m : read'.name[k] = read.name[k]
          /\ read'.name[m + 1] = Byte(p)
      <4>1. 0 \in 0 .. 1 - 1 /\ m + 1 + 0 = m + 1 /\ p + 0 = p
        OBVIOUS
      <4> QED
        BY <1>1, <2>1, <4>1 DEF Copies
    <3>2. CASE read'.name = Self
      <4>1. Len(read'.name) = 1 /\ read'.name[1] = DOT
        BY <1>3, <3>2, ReferencesAre
      <4>2. read.name = <<>> /\ Byte(p) = DOT
        <5>1. m = 0 /\ m + 1 = 1
          BY <3>1, <4>1
        <5>2. Byte(p) = DOT
          BY <3>1, <4>1, <5>1
        <5> QED
          BY <1>1, <1>3, <5>1, <5>2, ReferencesAre
      <4>3. Behind(p)
        <5>1. p \in 0 .. n
          BY <1>1, <2>1
        <5>2. At(p).name = <<>>
          BY <1>1, <4>2 DEF read
        <5> QED
          BY <1>1, <5>1, <5>2, AtIs DEF Types
      <4>4. ~Ahead(p + 1)
        BY <1>1, <2>1, <4>2, <4>3 DEF RelativeRef
      <4>5. Byte(p + 1) = DOT => ~Ahead(p + 2)
        BY <1>1, <2>1, <4>2, <4>3, ByteFacts DEF ParentRef
      <4>6. p + 2 = (p + 1) + 1
        OBVIOUS
      <4> QED
        BY <3>1, <4>4, <4>5, <4>6
    <3>3. CASE read'.name = Parent
      <4>1. Len(read'.name) = 2 /\ read'.name[1] = DOT /\ read'.name[2] = DOT
        BY <1>3, <3>3, ReferencesAre
      <4>2. m = 1 /\ 1 \in 1 .. m /\ m + 1 = 2
        BY <3>1, <4>1
      <4>3. read.name = Self /\ Byte(p) = DOT
        <5>1. read.name[1] = DOT /\ Byte(p) = DOT
          BY <3>1, <4>1, <4>2
        <5> QED
          BY <1>1, <1>3, <4>2, <5>1, ReferencesAre
      <4>4. ~Ahead(p + 1)
        BY <1>1, <4>3 DEF NoReferenceCopied
      <4>5. Parent # Self
        BY <1>3, ReferencesAre
      <4> QED
        BY <3>1, <3>3, <4>4, <4>5
    <3> QED
      BY <3>2, <3>3
  <2>2. CASE Copies(2) /\ Byte(scan_pos + 1) = CONT
    <3>1. /\ Len(read'.name) = m + 2 /\ read'.name[m + 2] = CONT
      <4>1. 1 \in 0 .. 2 - 1 /\ m + 1 + 1 = m + 2
        OBVIOUS
      <4> QED
        BY <1>1, <2>2, <4>1 DEF Copies
    <3>2. read'.name # Self
      BY <1>3, <3>1, ReferencesAre
    <3>3. read'.name # Parent
      <4> SUFFICES ASSUME read'.name = Parent PROVE FALSE
        OBVIOUS
      <4>1. m + 2 = 2 /\ read'.name[2] = DOT
        BY <1>3, <3>1, ReferencesAre
      <4> QED
        BY <3>1, <4>1, ByteFacts
    <3> QED
      BY <3>2, <3>3
  <2>3. CASE scan_pos' = scan_pos /\ read' = read
    BY <2>3 DEF NoReferenceCopied
  <2> HIDE DEF Good
  <2> QED
    BY <1>5, <2>1, <2>2, <2>3 DEF CopiesName
<1>6. CASE \E j \in Nat : CopiesSeparator(j)
  <2>1. read'.name = <<>>
    BY <1>6, Situation, CloseIs DEF CopiesSeparator
  <2> QED
    BY <1>4, <2>1
<1>7. CASE SkipsSelf
  BY <1>4, <1>7 DEF SkipsSelf
<1>8. CASE TakesAway
  <2>1. read'.name = <<>>
    BY <1>8, CloseIs DEF TakesAway
  <2> QED
    BY <1>4, <2>1
<1> HIDE DEF Good
<1> QED
  BY <1>5, <1>6, <1>7, <1>8 DEF Goes
-----------------------------------------------------------------------------
\* Every component kept has its separator in the output.

LEMMA KeptStep ==
    ASSUME StaysInPath, Types, ScanInv, KeptInOutput, Running, input' = input, Goes
    PROVE  KeptInOutput'
<1> DEFINE Chain(ends) ==
      /\ \A i \in 1 .. Len(read'.kept) :
            /\ ends[i] >= 2 /\ ends[i] + Len(read'.name) <= write_pos'
            /\ out'[ends[i] - 1] = SEP
      /\ \A i, j \in 1 .. Len(read'.kept) : i < j => ends[i] + 2 <= ends[j]
<1> DEFINE Good == /\ Len(read'.name) <= write_pos'
                   /\ \E ends \in [1 .. Len(read'.kept) -> Nat] : Chain(ends)
<1>1. Good => KeptInOutput'
  BY DEF KeptInOutput, SeparatorsFor
<1> SUFFICES Good
  BY <1>1
<1>2. PICK w \in Nat, a \in Nat, m \in Nat :
          w = write_pos /\ a = Len(read.name) /\ m = Len(read.kept)
  BY Situation
<1>3. PICK ends \in [1 .. m -> Nat] :
          /\ \A i \in 1 .. m : ends[i] >= 2 /\ ends[i] + a <= w /\ out[ends[i] - 1] = SEP
          /\ \A i, j \in 1 .. m : i < j => ends[i] + 2 <= ends[j]
  BY <1>2 DEF KeptInOutput, SeparatorsFor
<1>4. a <= w
  BY <1>2 DEF KeptInOutput
<1>5. \A i \in 1 .. m : ends[i] \in Nat /\ ends[i] - 1 \in 0 .. w - 1 /\ ends[i] <= w
  <2> SUFFICES ASSUME NEW i \in 1 .. m
               PROVE  ends[i] \in Nat /\ ends[i] - 1 \in 0 .. w - 1 /\ ends[i] <= w
    OBVIOUS
  <2>1. PICK e \in Nat : e = ends[i] /\ e >= 2 /\ e + a <= w
    BY <1>3
  <2>2. e - 1 \in 0 .. w - 1 /\ e <= w
    BY <2>1
  <2> QED
    BY <2>1, <2>2
<1>6. /\ read.name \in Seq(Plain) /\ read.kept \in Seq(Seq(Plain) \ {<<>>})
      /\ read \in Readings
  BY Situation
<1>7. ASSUME read'.kept = read.kept, NEW b \in Nat, Len(read'.name) = b, b <= write_pos',
             NEW v \in Nat, write_pos' = v, v - b >= w - a,
             \A k \in 0 .. w - 1 : out'[k] = out[k]
      PROVE  Good
  <2>1. \A i \in 1 .. m : ends[i] + b <= v
    BY <1>3, <1>4, <1>5, <1>7
  <2>2. \A i \in 1 .. m : out'[ends[i] - 1] = SEP
    BY <1>3, <1>5, <1>7
  <2>3. Chain(ends)
    BY <1>2, <1>3, <1>7, <2>1, <2>2
  <2> HIDE DEF Chain
  <2> QED
    BY <1>2, <1>7, <2>3
<1>8. CASE CopiesName
  <2>1. ASSUME NEW c \in {1, 2}, Copies(c) PROVE Good
    <3>1. /\ read'.kept = read.kept /\ Len(read'.name) = a + c /\ write_pos' = w + c
          /\ \A k \in 0 .. w - 1 : out'[k] = out[k]
      BY <1>2, <2>1 DEF Copies, SameButName
    <3>2. a + c \in Nat /\ w + c \in Nat /\ a + c <= w + c /\ (w + c) - (a + c) >= w - a
      BY <1>4
    <3> HIDE DEF Good
    <3> QED
      BY <1>7, <3>1, <3>2
  <2>2. CASE scan_pos' = scan_pos /\ write_pos' = write_pos /\ out' = out /\ read' = read
    <3> HIDE DEF Good
    <3>1. w - a >= w - a
      BY <1>2
    <3> QED
      BY <1>2, <1>4, <1>7, <2>2, <3>1
  <2> HIDE DEF Good
  <2> QED
    BY <1>8, <2>1, <2>2 DEF CopiesName
<1>9. ASSUME NEW j \in Nat, CopiesSeparator(j) PROVE Good
  <2>1. /\ write_pos' = w + 1 /\ \A k \in 0 .. w - 1 : out'[k] = out[k]
        /\ out'[w] = SEP /\ read.name \notin {Self, Parent} /\ read' = Close(read)
    BY <1>2, <1>9 DEF CopiesSeparator
  <2>2. read'.name = <<>> /\ Len(read'.name) = 0
    BY <1>6, <2>1, CloseIs, EmptySeq
  <2>3. CASE read.name = <<>>
    <3>1. read'.kept = read.kept
      BY <1>6, <2>1, <2>3, CloseIs
    <3>2. w + 1 \in Nat /\ 0 <= w + 1 /\ (w + 1) - 0 >= w - a
      OBVIOUS
    <3> HIDE DEF Good
    <3> QED
      BY <1>7, <2>1, <2>2, <3>1, <3>2
  <2>4. CASE read.name # <<>>
    <3>1. read'.kept = Append(read.kept, read.name)
      BY <1>6, <2>1, <2>4, CloseIs
    <3>2. Len(read'.kept) = m + 1
      <4>1. read.name \in Seq(Plain) \ {<<>>}
        BY <1>6, <2>4
      <4> QED
        BY <1>2, <1>6, <3>1, <4>1, AppendProperties
    <3>3. a >= 1
      BY <1>2, <1>6, <2>4, ReferencesAre
    <3> DEFINE more == [i \in 1 .. m + 1 |-> IF i = m + 1 THEN w + 1 ELSE ends[i]]
    <3>4. more \in [1 .. m + 1 -> Nat] /\ more[m + 1] = w + 1
          /\ \A i \in 1 .. m : more[i] = ends[i]
      BY <1>5
    <3> HIDE DEF more
    <3>5. \A i \in 1 .. m + 1 : i = m + 1 \/ i \in 1 .. m
      OBVIOUS
    <3>6. ASSUME NEW i \in 1 .. m
          PROVE  /\ ends[i] >= 2 /\ ends[i] + 0 <= w + 1
                 /\ out'[ends[i] - 1] = SEP /\ ends[i] + 2 <= w + 1
      <4>1. PICK e \in Nat : e = ends[i] /\ e >= 2 /\ e + a <= w /\ e - 1 \in 0 .. w - 1
        BY <1>3, <1>5
      <4>2. e + 0 <= w + 1 /\ e + 2 <= w + 1
        BY <3>3, <4>1
      <4>3. out'[e - 1] = SEP
        BY <1>3, <2>1, <4>1
      <4> QED
        BY <4>1, <4>2, <4>3
    <3>7. w + 1 >= 2 /\ (w + 1) + 0 <= w + 1 /\ (w + 1) - 1 = w
      BY <1>4, <3>3
    <3>8. \A i \in 1 .. m + 1 : /\ more[i] >= 2 /\ more[i] + 0 <= w + 1
                                /\ out'[more[i] - 1] = SEP
      BY <2>1, <3>4, <3>5, <3>6, <3>7
    <3>9. \A i, k \in 1 .. m + 1 : i < k => more[i] + 2 <= more[k]
      <4>1. SUFFICES ASSUME NEW i \in 1 .. m + 1, NEW k \in 1 .. m + 1, i < k
                     PROVE  more[i] + 2 <= more[k]
        OBVIOUS
      <4>2. i \in 1 .. m
        BY <4>1
      <4> QED
        BY <1>3, <3>4, <3>5, <3>6, <4>1, <4>2
    <3>10. Chain(more)
      BY <2>1, <2>2, <3>2, <3>8, <3>9
    <3>11. 0 <= w + 1
      BY <1>2
    <3> HIDE DEF Chain
    <3> QED
      BY <2>1, <2>2, <3>2, <3>4, <3>10, <3>11
  <2> HIDE DEF Good
  <2> QED
    BY <2>3, <2>4
<1>10. CASE SkipsSelf
  <2>1. /\ read'.kept = read.kept /\ read'.name = read.name /\ write_pos' = write_pos
        /\ out' = out
    BY <1>10 DEF SkipsSelf, SameButName
  <2>2. w - a >= w - a
    BY <1>2
  <2> HIDE DEF Good
  <2> QED
    BY <1>2, <1>4, <1>7, <2>1, <2>2
<1>11. CASE TakesAway
  <2>1. PICK r \in Readings : r.name = Parent /\ SameButName(r, read) /\ read' = Close(r)
    BY <1>11 DEF TakesAway
  <2>2. read'.name = <<>> /\ Len(read'.name) = 0
    BY <2>1, CloseIs, EmptySeq
  <2>3. r.kept = read.kept
    BY <2>1 DEF SameButName
  <2>4. PICK v \in Nat : /\ v = write_pos' /\ v \in Stops /\ v <= w - 1 /\ out' = out
                         /\ \A l \in Stops : l <= v
    <3>1. write_pos' \in 1 .. write_pos - 1
      BY <1>11, GreatestStop DEF TakesAway
    <3>2. write_pos' \in Nat /\ write_pos' <= w - 1
      BY <1>2, <3>1
    <3> QED
      BY <1>11, <3>2 DEF TakesAway
  <2>5. CASE read.kept = <<>>
    <3>1. read'.kept = <<>> /\ Len(read'.kept) = 0
      BY <2>1, <2>3, <2>5, CloseIs, EmptySeq
    <3>2. [i \in 1 .. 0 |-> 0] \in [1 .. 0 -> Nat] /\ \A i \in 1 .. 0 : FALSE
      OBVIOUS
    <3>3. \E some \in [1 .. 0 -> Nat] : TRUE
      BY <3>2
    <3>4. PICK some \in [1 .. 0 -> Nat] : TRUE
      BY <3>3
    <3>5. Chain(some)
      BY <3>1, <3>2
    <3>6. 0 <= v
      OBVIOUS
    <3> HIDE DEF Chain
    <3> QED
      BY <2>2, <2>4, <3>1, <3>4, <3>5, <3>6
  <2>6. CASE read.kept # <<>>
    <3>1. read'.kept = Front(read.kept)
      BY <2>1, <2>3, <2>6, CloseIs
    <3>2. Len(read'.kept) = m - 1 /\ m >= 1
      <4>1. Len(read'.kept) = m - 1
        BY <1>2, <1>6, <2>6, <3>1, FrontIs
      <4>2. m # 0
        BY <1>2, <1>6, <2>6, EmptySeq
      <4> QED
        BY <4>1, <4>2
    <3> DEFINE less == [i \in 1 .. m - 1 |-> ends[i]]
    <3>3. \A i \in 1 .. m - 1 : i \in 1 .. m /\ i < m
      OBVIOUS
    <3>4. less \in [1 .. m - 1 -> Nat] /\ \A i \in 1 .. m - 1 : less[i] = ends[i]
      BY <1>5, <3>3
    <3> HIDE DEF less
    <3>5. ASSUME NEW i \in 1 .. m - 1 PROVE ends[i] \in 1 .. w - 1 /\ ends[i] <= w - 2
      <4>1. m \in 1 .. m
        BY <3>2
      <4>2. PICK d \in Nat, e \in Nat : d = ends[i] /\ e = ends[m] /\ d >= 2 /\ e <= w
        BY <1>3, <1>5, <3>3, <4>1
      <4>3. d + 2 <= e
        BY <1>3, <3>3, <4>1, <4>2
      <4>4. d \in 1 .. w - 1 /\ d <= w - 2
        BY <4>2, <4>3
      <4> QED
        BY <4>2, <4>4
    <3>6. \A i \in 1 .. m - 1 : ends[i] + 0 <= v
      <4>1. CASE above
        <5>1. \A i \in 1 .. m - 1 : ends[i] \in 1 .. w - 1 /\ out[ends[i] - 1] = SEP
          BY <1>3, <3>3, <3>5
        <5>2. \A i \in 1 .. m - 1 : ends[i] \in Stops
          BY <1>2, <4>1, <5>1 DEF Stops
        <5>3. \A i \in 1 .. m - 1 : ends[i] <= v /\ ends[i] + 0 = ends[i]
          BY <1>5, <2>4, <3>3, <5>2
        <5> QED
          BY <5>3
      <4>2. CASE ~above
        <5>1. v = w - 1
          BY <1>2, <2>4, <4>2 DEF Stops
        <5> QED
          BY <1>5, <3>3, <3>5, <5>1
      <4> QED
        BY <4>1, <4>2
    <3>7. \A i \in 1 .. m - 1 : ends[i] >= 2 /\ out'[ends[i] - 1] = SEP
      BY <1>3, <2>4, <3>3
    <3>8. \A i, j \in 1 .. m - 1 : i < j => ends[i] + 2 <= ends[j]
      BY <1>3, <3>3
    <3>9. Chain(less)
      BY <2>2, <2>4, <3>2, <3>4, <3>6, <3>7, <3>8
    <3>10. 0 <= v
      OBVIOUS
    <3> HIDE DEF Chain
    <3> QED
      BY <2>2, <2>4, <3>2, <3>4, <3>9, <3>10
  <2> HIDE DEF Good
  <2> QED
    BY <2>5, <2>6
<1> HIDE DEF Good
<1> QED
  BY <1>8, <1>9, <1>10, <1>11 DEF Goes
-----------------------------------------------------------------------------
\* The first component, or the root, stays at the start of the output.

LEMMA AbsoluteIs ==
    ASSUME StaysInPath, input \in Inputs
    PROVE  Absolute(Path) <=> Byte(0) = SEP
<1>1. PICK n \in Nat : n = length
  BY PathIs
<1>2. Path # <<>> <=> n # 0
  BY <1>1, PathIs, EmptySeq DEF length
<1>3. CASE n = 0
  <2>1. Byte(0) = NUL
    BY <1>1, <1>3, BytesOfPath
  <2> QED
    BY <1>2, <1>3, <2>1, ByteFacts DEF Absolute
<1>4. CASE n # 0
  <2>1. 0 \in 0 .. n - 1 /\ 0 + 1 = 1
    BY <1>4
  <2>2. Byte(0) = Path[1]
    BY <1>1, <2>1, BytesOfPath
  <2> QED
    BY <1>2, <1>4, <2>2 DEF Absolute
<1> QED
  BY <1>3, <1>4

LEMMA FirstStep ==
    ASSUME StaysInPath, Types, ScanInv, KeptInOutput, FirstInOutput, Running,
           input' = input, Goes
    PROVE  FirstInOutput'
<1> DEFINE Unwritten == (read'.kept = <<>> /\ ~read'.emptied) =>
                            \A k \in 0 .. write_pos' - 1 - Len(read'.name) : out'[k] = SEP
<1> DEFINE Rooted == (Byte(0) = SEP /\ scan_pos' > 0) => write_pos' > 0 /\ out'[0] = SEP
<1> DEFINE Good == Unwritten /\ Rooted
<1>1. Good => FirstInOutput'
  <2>1. Absolute(Path)' <=> Byte(0) = SEP
    BY AbsoluteIs, PathKept DEF Types
  <2> QED
    BY <2>1 DEF FirstInOutput
<1> SUFFICES Good
  BY <1>1
<1>2. PICK n \in Nat, p \in Nat, w \in Nat, a \in Nat :
          n = length /\ p = scan_pos /\ w = write_pos /\ a = Len(read.name)
  BY Situation
<1>3. a <= w /\ w <= p
  BY <1>2 DEF KeptInOutput, ScanInv
<1>4. /\ read.name \in Seq(Plain) /\ read.kept \in Seq(Seq(Plain) \ {<<>>})
      /\ read \in Readings
  BY Situation
<1>5. /\ (read.kept = <<>> /\ ~read.emptied) => \A k \in 0 .. w - 1 - a : out[k] = SEP
      /\ (Byte(0) = SEP /\ p > 0) => w > 0 /\ out[0] = SEP
  BY <1>2, AbsoluteIs DEF FirstInOutput, Types
<1>6. CASE CopiesName
  <2>1. ASSUME NEW c \in {1, 2}, Copies(c) PROVE Good
    <3>1. /\ SameButName(read', read) /\ Len(read'.name) = a + c /\ write_pos' = w + c
          /\ \A k \in 0 .. w - 1 : out'[k] = out[k]
      BY <1>2, <2>1 DEF Copies
    <3>2. (w + c) - 1 - (a + c) = w - 1 - a /\ \A k \in 0 .. w - 1 - a : k \in 0 .. w - 1
      BY <1>3
    <3>3. Unwritten
      BY <1>5, <3>1, <3>2 DEF SameButName
    <3>4. Byte(p) # SEP
      <4>1. read'.name[a + 1 + 0] = Byte(p + 0)
        <5>1. 0 \in 0 .. c - 1
          OBVIOUS
        <5> QED
          BY <1>2, <2>1, <5>1 DEF Copies
      <4>2. a + 1 + 0 = a + 1 /\ p + 0 = p /\ a + 1 \in 1 .. a + c
        OBVIOUS
      <4>3. read'.name[a + 1] \in Plain
        BY <3>1, <4>2, GoesReads, ElementOfSeq
      <4> QED
        BY <4>1, <4>2, <4>3 DEF Plain
    <3>5. Byte(0) = SEP => p > 0
      BY <3>4
    <3>6. w > 0 => 0 \in 0 .. w - 1 /\ w + c > 0
      OBVIOUS
    <3>7. Rooted
      BY <1>5, <3>1, <3>5, <3>6
    <3> HIDE DEF Unwritten, Rooted
    <3> QED
      BY <3>3, <3>7
  <2>2. CASE scan_pos' = scan_pos /\ write_pos' = write_pos /\ out' = out /\ read' = read
    BY <1>2, <1>5, <2>2
  <2> HIDE DEF Good
  <2> QED
    BY <1>6, <2>1, <2>2 DEF CopiesName
<1>7. ASSUME NEW j \in Nat, CopiesSeparator(j) PROVE Good
  <2>1. /\ write_pos' = w + 1 /\ \A k \in 0 .. w - 1 : out'[k] = out[k]
        /\ out'[w] = SEP /\ read.name \notin {Self, Parent} /\ read' = Close(read)
    BY <1>2, <1>7 DEF CopiesSeparator
  <2>2. Rooted
    <3>1. w + 1 > 0 /\ (w > 0 => 0 \in 0 .. w - 1) /\ (~(p > 0) => w = 0)
      BY <1>3
    <3> QED
      BY <1>5, <2>1, <3>1
  <2>3. Unwritten
    <3>1. CASE read.name = <<>>
      <4>1. read' = read /\ a = 0
        BY <1>2, <1>4, <2>1, <3>1, CloseIs, ReferencesAre
      <4>2. \A k \in 0 .. (w + 1) - 1 - 0 : k = w \/ k \in 0 .. w - 1
        OBVIOUS
      <4>3. w - 1 - 0 = w - 1
        OBVIOUS
      <4> QED
        BY <1>2, <1>5, <2>1, <4>1, <4>2, <4>3
    <3>2. CASE read.name # <<>>
      <4>1. read'.kept = Append(read.kept, read.name)
        BY <1>4, <2>1, <3>2, CloseIs
      <4> DEFINE Kept == Seq(Plain) \ {<<>>}
      <4>2. read.name \in Kept /\ read.kept \in Seq(Kept)
        BY <1>4, <3>2
      <4> HIDE DEF Kept
      <4>3. read'.kept # <<>>
        BY <4>1, <4>2, AppendProperties
      <4> QED
        BY <4>3
    <3> QED
      BY <3>1, <3>2
  <2> HIDE DEF Unwritten, Rooted
  <2> QED
    BY <2>2, <2>3
<1>8. CASE SkipsSelf
  <2>1. /\ SameButName(read', read) /\ read'.name = read.name /\ write_pos' = write_pos
        /\ out' = out /\ Byte(p) = DOT
    BY <1>2, <1>8 DEF SkipsSelf
  <2>2. Byte(0) = SEP => p > 0
    BY <2>1, ByteFacts
  <2> QED
    BY <1>2, <1>5, <2>1, <2>2 DEF SameButName
<1>9. CASE TakesAway
  <2>1. PICK r \in Readings : r.name = Parent /\ SameButName(r, read) /\ read' = Close(r)
    BY <1>9 DEF TakesAway
  <2>2. read'.name = <<>> /\ Len(read'.name) = 0 /\ read.name = <<>>
    BY <1>9, <2>1, CloseIs, EmptySeq DEF TakesAway
  <2>3. PICK v \in Nat : v = write_pos' /\ v >= 1 /\ v <= w - 1 /\ out' = out /\ Byte(p) = DOT
    <3>1. write_pos' \in 1 .. write_pos - 1
      BY <1>9, GreatestStop DEF TakesAway
    <3>2. write_pos' \in Nat /\ write_pos' <= w - 1 /\ write_pos' >= 1
      BY <1>2, <3>1
    <3> QED
      BY <1>2, <1>9, <3>2 DEF TakesAway
  <2>4. a = 0
    BY <1>2, <2>2, EmptySeq
  <2>5. r.kept = read.kept /\ r.emptied = read.emptied
    BY <2>1 DEF SameButName
  <2>6. Rooted
    <3>1. Byte(0) = SEP => p > 0
      BY <2>3, ByteFacts
    <3>2. v > 0
      BY <2>3
    <3> QED
      BY <1>5, <2>3, <3>1, <3>2
  <2>7. Unwritten
    <3>1. CASE read.kept = <<>>
      <4>1. read'.emptied = read.emptied
        BY <2>1, <2>5, <3>1, CloseIs
      <4>2. ASSUME NEW k \in 0 .. v - 1 - 0 PROVE k \in 0 .. w - 1 - 0
        <5>1. v <= w - 1
          BY <2>3
        <5> QED
          BY <5>1
      <4> QED
        BY <1>5, <2>2, <2>3, <2>4, <3>1, <4>1, <4>2
    <3>2. CASE read.kept # <<>>
      <4>1. read'.kept = Front(read.kept) /\ read'.emptied = (read.emptied \/ Len(read.kept) = 1)
        BY <2>1, <2>5, <3>2, CloseIs
      <4>2. Len(read'.kept) = Len(read.kept) - 1
        BY <1>4, <3>2, <4>1, FrontIs
      <4>3. PICK x \in Nat, y \in Nat : x = Len(read.kept) /\ y = Len(read'.kept) /\ y = x - 1
        BY <4>2, Situation, GoesReads
      <4>4. read'.kept = <<>> => Len(read'.kept) = 0
        BY EmptySeq
      <4>5. y = x - 1 => (y = 0 => x = 1)
        OBVIOUS
      <4> QED
        BY <4>1, <4>3, <4>4, <4>5
    <3> QED
      BY <3>1, <3>2
  <2> HIDE DEF Unwritten, Rooted
  <2> QED
    BY <2>6, <2>7
<1> HIDE DEF Good
<1> QED
  BY <1>6, <1>7, <1>8, <1>9 DEF Goes
-----------------------------------------------------------------------------
\* The components kept, each with a separator behind it.

Flattens(f, seqs, n) ==
    f = [i \in 1 .. n |-> IF i = 1 THEN seqs[i] ELSE f[i - 1] \o seqs[i]]

StartsAs(s, t, n) == \A i \in 1 .. n : s[i] = t[i]

LEMMA FlattenExists == ASSUME NEW seqs, NEW n \in Nat PROVE \E f : Flattens(f, seqs, n)
<1> DEFINE T == {m \in Nat : \E f : Flattens(f, seqs, m)}
<1>1. 0 \in T
  <2>1. [i \in 1 .. 0 |-> 0] = [i \in 1 .. 0 |-> IF i = 1 THEN seqs[i]
                                              ELSE [k \in 1 .. 0 |-> 0][i - 1] \o seqs[i]]
    OBVIOUS
  <2>2. Flattens([i \in 1 .. 0 |-> 0], seqs, 0)
    BY <2>1 DEF Flattens
  <2>3. \E f : Flattens(f, seqs, 0)
    BY <2>2
  <2> QED
    BY <2>3
<1>2. ASSUME NEW m \in Nat, m \in T PROVE m + 1 \in T
  <2>1. PICK f : Flattens(f, seqs, m)
    BY <1>2
  <2>2. \A i \in 1 .. m : f[i] = IF i = 1 THEN seqs[i] ELSE f[i - 1] \o seqs[i]
    BY <2>1 DEF Flattens
  <2> DEFINE last == IF m = 0 THEN seqs[1] ELSE f[m] \o seqs[m + 1]
  <2> DEFINE g == [i \in 1 .. m + 1 |-> IF i = m + 1 THEN last ELSE f[i]]
  <2> HIDE DEF last
  <2>3. (\A i \in 1 .. m : g[i] = f[i]) /\ g[m + 1] = last
    <3>1. m + 1 \in 1 .. m + 1 /\ \A i \in 1 .. m : i \in 1 .. m + 1 /\ i # m + 1
      OBVIOUS
    <3> QED
      BY <3>1
  <2>4. g = [i \in 1 .. m + 1 |-> g[i]]
    OBVIOUS
  <2> HIDE DEF g
  <2> USE DEF last
  <2>5. ASSUME NEW i \in 1 .. m + 1
        PROVE  g[i] = IF i = 1 THEN seqs[i] ELSE g[i - 1] \o seqs[i]
    <3>1. CASE i = m + 1 /\ m = 0
      BY <2>3, <3>1
    <3>2. CASE i = m + 1 /\ m # 0
      <4>1. i # 1 /\ i - 1 = m /\ m \in 1 .. m
        BY <3>2
      <4> QED
        BY <2>3, <3>2, <4>1
    <3>3. CASE i # m + 1
      <4>1. i \in 1 .. m /\ (i # 1 => i - 1 \in 1 .. m)
        BY <3>3
      <4> QED
        BY <2>2, <2>3, <4>1
    <3> QED
      BY <3>1, <3>2, <3>3
  <2>6. Flattens(g, seqs, m + 1)
    BY <2>4, <2>5 DEF Flattens
  <2>7. \E h : Flattens(h, seqs, m + 1)
    BY <2>6
  <2> QED
    BY <2>7
<1> HIDE DEF T
<1>3. n \in T
  BY <1>1, <1>2, Induction
<1> USE DEF T
<1> QED
  BY <1>3

LEMMA FlattenAgrees ==
    ASSUME NEW s, NEW t, NEW n \in Nat, NEW k \in Nat, n <= k, StartsAs(s, t, n),
           NEW f, NEW g, Flattens(f, s, n), Flattens(g, t, k)
    PROVE  StartsAs(f, g, n)
<1>1. \A i \in 1 .. n : f[i] = IF i = 1 THEN s[i] ELSE f[i - 1] \o s[i]
  BY DEF Flattens
<1>2. \A i \in 1 .. k : g[i] = IF i = 1 THEN t[i] ELSE g[i - 1] \o t[i]
  BY DEF Flattens
<1>3. \A i \in 1 .. n : i \in 1 .. k
  OBVIOUS
<1> DEFINE T == {m \in Nat : m + 1 <= n => f[m + 1] = g[m + 1]}
<1>4. 0 \in T
  <2>1. 0 + 1 = 1 /\ (1 <= n => 1 \in 1 .. n)
    OBVIOUS
  <2> QED
    BY <1>1, <1>2, <1>3, <2>1 DEF StartsAs
<1>5. ASSUME NEW m \in Nat, m \in T PROVE m + 1 \in T
  <2>1. CASE (m + 1) + 1 <= n
    <3>1. /\ m + 1 <= n /\ (m + 1) + 1 \in 1 .. n /\ (m + 1) + 1 # 1
          /\ ((m + 1) + 1) - 1 = m + 1
      BY <2>1
    <3>2. f[m + 1] = g[m + 1]
      BY <1>5, <3>1
    <3>3. f[(m + 1) + 1] = f[m + 1] \o s[(m + 1) + 1]
      BY <1>1, <3>1
    <3>4. g[(m + 1) + 1] = g[m + 1] \o t[(m + 1) + 1]
      BY <1>2, <1>3, <3>1
    <3>5. s[(m + 1) + 1] = t[(m + 1) + 1]
      BY <3>1 DEF StartsAs
    <3>6. f[(m + 1) + 1] = g[(m + 1) + 1]
      BY <3>2, <3>3, <3>4, <3>5
    <3> QED
      BY <3>6
  <2>2. CASE ~((m + 1) + 1 <= n)
    BY <2>2
  <2> QED
    BY <2>1, <2>2
<1> HIDE DEF T
<1>6. \A m \in Nat : m \in T
  BY <1>4, <1>5, Induction
<1> USE DEF T
<1>7. ASSUME NEW i \in 1 .. n PROVE f[i] = g[i]
  <2>1. i - 1 \in Nat /\ (i - 1) + 1 = i /\ i <= n
    OBVIOUS
  <2> QED
    BY <1>6, <2>1
<1> QED
  BY <1>7 DEF StartsAs

\* One more sequence at the end.
LEMMA FlattenOneMore ==
    ASSUME NEW s, NEW t, NEW m \in Nat, Len(s) = m, Len(t) = m + 1,
           StartsAs(s, t, m)
    PROVE  FlattenSeq(t) = IF m = 0 THEN t[1] ELSE FlattenSeq(s) \o t[m + 1]
<1>1. PICK g : g = CHOOSE h : Flattens(h, t, m + 1)
  OBVIOUS
<1>2. Flattens(g, t, m + 1)
  BY <1>1, FlattenExists
<1>3. FlattenSeq(t) = g[m + 1]
  <2>1. Len(t) # 0
    OBVIOUS
  <2> QED
    BY <1>1, <2>1 DEF FlattenSeq, Flattens
<1>4. \A i \in 1 .. m + 1 : g[i] = IF i = 1 THEN t[i] ELSE g[i - 1] \o t[i]
  BY <1>2 DEF Flattens
<1>5. CASE m = 0
  <2>1. m + 1 = 1 /\ m + 1 \in 1 .. m + 1
    BY <1>5
  <2> QED
    BY <1>3, <1>4, <1>5, <2>1
<1>6. CASE m # 0
  <2>1. PICK f : f = CHOOSE h : Flattens(h, s, m)
    OBVIOUS
  <2>2. Flattens(f, s, m)
    BY <2>1, FlattenExists
  <2>3. FlattenSeq(s) = f[m]
    BY <1>6, <2>1 DEF FlattenSeq, Flattens
  <2>4. m + 1 # 1 /\ (m + 1) - 1 = m /\ m + 1 \in 1 .. m + 1 /\ m \in 1 .. m /\ m <= m + 1
    BY <1>6
  <2>5. f[m] = g[m]
    <3>1. m + 1 \in Nat
      OBVIOUS
    <3>2. StartsAs(f, g, m)
      BY <1>2, <2>2, <2>4, <3>1, FlattenAgrees
    <3> QED
      BY <2>4, <3>2 DEF StartsAs
  <2>6. g[m + 1] = g[m] \o t[m + 1]
    BY <1>4, <2>4
  <2> QED
    BY <1>3, <1>6, <2>3, <2>5, <2>6
<1> QED
  BY <1>5, <1>6

Named == Seq(Plain) \ {<<>>}

LEMMA TerminatedGrows ==
    /\ Terminated(<<>>) = <<>>
    /\ \A kept \in Seq(Named), name \in Named :
           Terminated(Append(kept, name)) =
               IF kept = <<>> THEN Append(name, SEP) ELSE Terminated(kept) \o Append(name, SEP)
<1> DEFINE closed(names) == [i \in DOMAIN names |-> Append(names[i], SEP)]
<1>1. ASSUME NEW names \in Seq(Named)
      PROVE  /\ closed(names) \in Seq(Seq(Bytes)) /\ Len(closed(names)) = Len(names)
             /\ \A i \in 1 .. Len(names) : closed(names)[i] = Append(names[i], SEP)
  <2>1. PICK n \in Nat : n = Len(names) /\ DOMAIN names = 1 .. n
    BY LenProperties
  <2>2. \A i \in 1 .. n : Append(names[i], SEP) \in Seq(Bytes)
    <3>1. \A i \in 1 .. n : names[i] \in Named
      BY <2>1, ElementOfSeq
    <3>2. Seq(Plain) \subseteq Seq(Bytes)
      BY SeqMonotonic DEF Plain
    <3>3. SEP \in Bytes
      BY DEF Bytes
    <3> QED
      BY <3>1, <3>2, <3>3, AppendProperties DEF Named
  <2>3. closed(names) \in [1 .. n -> Seq(Bytes)]
    BY <2>1, <2>2
  <2> QED
    BY <2>1, <2>3, IsASeq
<1>2. Terminated(<<>>) = <<>>
  <2>1. <<>> \in Seq(Named) /\ Len(<<>>) = 0
    BY EmptySeq
  <2>2. closed(<<>>) \in Seq(Seq(Bytes)) /\ Len(closed(<<>>)) = 0
    BY <1>1, <2>1
  <2> HIDE DEF closed
  <2>3. closed(<<>>) = <<>>
    BY <2>2, EmptySeq
  <2>4. FlattenSeq(closed(<<>>)) = closed(<<>>)
    BY <2>2 DEF FlattenSeq
  <2> USE DEF closed
  <2> QED
    BY <2>3, <2>4 DEF Terminated
<1>3. ASSUME NEW kept \in Seq(Named), NEW name \in Named
      PROVE  Terminated(Append(kept, name)) =
                 IF kept = <<>> THEN Append(name, SEP) ELSE Terminated(kept) \o Append(name, SEP)
  <2>1. PICK m \in Nat : m = Len(kept)
    BY LenProperties
  <2>2. /\ Append(kept, name) \in Seq(Named) /\ Len(Append(kept, name)) = m + 1
        /\ \A i \in 1 .. m : Append(kept, name)[i] = kept[i]
        /\ Append(kept, name)[m + 1] = name
    BY <2>1, AppendProperties
  <2>3. PICK s : s = closed(kept)
    OBVIOUS
  <2>4. PICK t : t = closed(Append(kept, name))
    OBVIOUS
  <2>5. /\ Len(s) = m /\ Len(t) = m + 1
        /\ \A i \in 1 .. m : s[i] = Append(kept[i], SEP)
        /\ \A i \in 1 .. m + 1 : t[i] = Append(Append(kept, name)[i], SEP)
    BY <1>1, <2>1, <2>2, <2>3, <2>4
  <2>6. Terminated(kept) = FlattenSeq(s) /\ Terminated(Append(kept, name)) = FlattenSeq(t)
    BY <2>3, <2>4 DEF Terminated
  <2> HIDE DEF closed
  <2>7. (\A i \in 1 .. m : i \in 1 .. m + 1) /\ m + 1 \in 1 .. m + 1 /\ (m = 0 => m + 1 = 1)
    OBVIOUS
  <2>8. StartsAs(s, t, m) /\ t[m + 1] = Append(name, SEP)
    BY <2>2, <2>5, <2>7 DEF StartsAs
  <2>9. FlattenSeq(t) = IF m = 0 THEN t[1] ELSE FlattenSeq(s) \o t[m + 1]
    <3>1. Len(s) = m /\ Len(t) = m + 1 /\ StartsAs(s, t, m)
      BY <2>5, <2>8
    <3> QED
      BY <3>1, FlattenOneMore
  <2>10. kept = <<>> <=> m = 0
    BY <2>1, EmptySeq
  <2> QED
    BY <2>6, <2>7, <2>8, <2>9, <2>10
<1> HIDE DEF closed
<1> QED
  BY <1>2, <1>3

\* What the components kept come to in the output.
LEMMA TerminatedIs ==
    ASSUME NEW kept \in Seq(Named)
    PROVE  /\ Terminated(kept) \in Seq(Bytes)
           /\ kept # <<>> => /\ Terminated(kept) # <<>>
                             /\ Terminated(kept)[Len(Terminated(kept))] = SEP
           /\ \A name \in Named :
                  Terminated(Append(kept, name)) = Terminated(kept) \o Append(name, SEP)
<1>1. SEP \in Bytes /\ Plain \subseteq Bytes
  BY DEF Bytes, Plain
<1>2. ASSUME NEW name \in Named
      PROVE  /\ Append(name, SEP) \in Seq(Bytes) /\ Append(name, SEP) # <<>>
             /\ Len(Append(name, SEP)) \in Nat /\ Len(Append(name, SEP)) >= 1
             /\ Append(name, SEP)[Len(Append(name, SEP))] = SEP
  <2>1. name \in Seq(Bytes)
    BY <1>1, SeqMonotonic DEF Named
  <2>2. PICK a \in Nat : a = Len(name)
    BY <2>1, LenProperties
  <2>3. /\ Append(name, SEP) \in Seq(Bytes) /\ Append(name, SEP) # <<>>
        /\ Len(Append(name, SEP)) = a + 1 /\ Append(name, SEP)[a + 1] = SEP
    BY <1>1, <2>1, <2>2, AppendProperties
  <2> QED
    BY <2>3
<1> DEFINE T == {n \in Nat : \A s \in Seq(Named) : Len(s) = n => Terminated(s) \in Seq(Bytes)}
<1>3. 0 \in T
  <2>1. \A s \in Seq(Named) : Len(s) = 0 => s = <<>>
    BY EmptySeq
  <2>2. <<>> \in Seq(Bytes)
    BY EmptySeq
  <2> QED
    BY <2>1, <2>2, TerminatedGrows
<1>4. ASSUME NEW n \in Nat, n \in T PROVE n + 1 \in T
  <2>1. ASSUME NEW s \in Seq(Named), Len(s) = n + 1 PROVE Terminated(s) \in Seq(Bytes)
    <3>1. s # <<>>
      BY <2>1, EmptySeq
    <3>2. /\ Front(s) \in Seq(Named) /\ Len(Front(s)) = Len(s) - 1 /\ s[Len(s)] \in Named
          /\ s = Append(Front(s), s[Len(s)])
      BY <3>1, FrontIs
    <3>3. Len(Front(s)) = n
      BY <2>1, <3>2, (n + 1) - 1 = n
    <3>4. Terminated(Front(s)) \in Seq(Bytes)
      BY <1>4, <3>2, <3>3
    <3>5. PICK x \in Named : x = s[Len(s)]
      BY <3>2
    <3>6. PICK f \in Seq(Named) : f = Front(s)
      BY <3>2
    <3>7. Terminated(s) = IF f = <<>> THEN Append(x, SEP) ELSE Terminated(f) \o Append(x, SEP)
      BY <3>2, <3>5, <3>6, TerminatedGrows
    <3> QED
      BY <1>2, <3>4, <3>6, <3>7, ConcatProperties
  <2> QED
    BY <2>1
<1> HIDE DEF T
<1>5. \A n \in Nat : n \in T
  BY <1>3, <1>4, Induction
<1> USE DEF T
<1>6. ASSUME NEW s \in Seq(Named) PROVE Terminated(s) \in Seq(Bytes)
  <2>1. Len(s) \in Nat
    BY LenProperties
  <2> QED
    BY <1>5, <2>1
<1> HIDE DEF T
<1>7. ASSUME NEW s \in Seq(Named), NEW name \in Named
      PROVE  Terminated(Append(s, name)) = Terminated(s) \o Append(name, SEP)
  <2>1. CASE s = <<>>
    <3>1. <<>> \o Append(name, SEP) = Append(name, SEP)
      BY <1>2, ConcatEmptySeq
    <3> QED
      BY <2>1, <3>1, TerminatedGrows
  <2>2. CASE s # <<>>
    BY <2>2, TerminatedGrows
  <2> QED
    BY <2>1, <2>2
<1>8. ASSUME kept # <<>>
      PROVE  Terminated(kept) # <<>> /\ Terminated(kept)[Len(Terminated(kept))] = SEP
  <2>1. PICK f \in Seq(Named), x \in Named : kept = Append(f, x)
    BY <1>8, FrontIs
  <2>2. PICK s \in Seq(Bytes), t \in Seq(Bytes) : s = Terminated(f) /\ t = Append(x, SEP)
    BY <1>2, <1>6
  <2>3. Terminated(kept) = s \o t
    BY <1>7, <2>1, <2>2
  <2>4. PICK b \in Nat, c \in Nat : b = Len(s) /\ c = Len(t) /\ c >= 1 /\ t[c] = SEP
    BY <1>2, <2>2, LenProperties
  <2>5. /\ Len(s \o t) = b + c
        /\ \A i \in 1 .. b + c : (s \o t)[i] = IF i <= b THEN s[i] ELSE t[i - b]
    BY <2>4, ConcatProperties
  <2>6. b + c \in 1 .. b + c /\ ~(b + c <= b) /\ (b + c) - b = c /\ b + c # 0
    BY <2>4
  <2>7. (s \o t)[b + c] = SEP
    BY <2>4, <2>5, <2>6
  <2>8. s \o t # <<>>
    BY <2>5, <2>6, EmptySeq
  <2> QED
    BY <2>3, <2>5, <2>7, <2>8
<1> QED
  BY <1>6, <1>7, <1>8
-----------------------------------------------------------------------------
\* The output is what has been read.

RootAt(q)  == IF Byte(0) = SEP /\ q > 0 THEN <<SEP>> ELSE <<>>
Base(r, q) == RootAt(q) \o Terminated(r.kept)
Body(r, q) == Base(r, q) \o r.name

Shows(o, w, s) == Len(s) = w /\ \A i \in 1 .. w : o[i - 1] = s[i]

\* r has been read, the scan is at q, and the output is o up to w.
ShownAt(r, q, o, w) ==
    /\ ~r.above
    /\ Shows(o, w, Body(r, q))
    /\ (q > 0 /\ Byte(q - 1) = SEP) => Byte(q) # SEP

LEMMA WrittenIs ==
    ASSUME NEW o, NEW w \in Nat, NEW s \in Seq(Bytes)
    PROVE  [i \in 1 .. w |-> o[i - 1]] = s <=> Shows(o, w, s)
<1>1. PICK n \in Nat : n = Len(s) /\ s \in [1 .. n -> Bytes] /\ DOMAIN s = 1 .. n
  BY LenProperties
<1>2. ASSUME [i \in 1 .. w |-> o[i - 1]] = s PROVE Shows(o, w, s)
  <2>1. DOMAIN s = 1 .. w /\ \A i \in 1 .. w : o[i - 1] = s[i]
    BY <1>2
  <2>2. 1 .. w = 1 .. n
    BY <1>1, <2>1
  <2>3. n = w
    <3>1. n \in 1 .. w \/ n = 0
      BY <2>2
    <3>2. w \in 1 .. n \/ w = 0
      BY <2>2
    <3>3. n <= w /\ w <= n
      BY <3>1, <3>2
    <3> QED
      BY <3>3
  <2> QED
    BY <1>1, <2>1, <2>3 DEF Shows
<1>3. ASSUME Shows(o, w, s) PROVE [i \in 1 .. w |-> o[i - 1]] = s
  <2>1. n = w /\ \A i \in 1 .. w : o[i - 1] = s[i]
    BY <1>1, <1>3 DEF Shows
  <2>2. s = [i \in 1 .. w |-> s[i]]
    BY <1>1, <2>1
  <2>3. [i \in 1 .. w |-> o[i - 1]] = [i \in 1 .. w |-> s[i]]
    BY <2>1
  <2> QED
    BY <2>2, <2>3
<1> QED
  BY <1>2, <1>3

LEMMA BodyIs ==
    ASSUME NEW r \in Readings, NEW q
    PROVE  /\ RootAt(q) \in Seq(Bytes) /\ Terminated(r.kept) \in Seq(Bytes)
           /\ Base(r, q) \in Seq(Bytes) /\ r.name \in Seq(Bytes) /\ Body(r, q) \in Seq(Bytes)
           /\ Len(Base(r, q)) \in Nat /\ Len(r.name) \in Nat
           /\ Len(Body(r, q)) = Len(Base(r, q)) + Len(r.name)
           /\ \A i \in 1 .. Len(Base(r, q)) + Len(r.name) :
                  Body(r, q)[i] = IF i <= Len(Base(r, q)) THEN Base(r, q)[i]
                                  ELSE r.name[i - Len(Base(r, q))]
<1>1. RootAt(q) \in Seq(Bytes)
  <2>1. SEP \in Bytes
    BY DEF Bytes
  <2>2. <<SEP>> \in Seq(Bytes) /\ <<>> \in Seq(Bytes)
    BY <2>1, EmptySeq
  <2> QED
    BY <2>2 DEF RootAt
<1>2. Terminated(r.kept) \in Seq(Bytes)
  BY TerminatedIs DEF Readings, Named
<1>3. r.name \in Seq(Bytes)
  <2>1. r.name \in Seq(Plain)
    BY DEF Readings
  <2>2. Plain \subseteq Bytes
    BY DEF Plain
  <2> QED
    BY <2>1, <2>2, SeqMonotonic
<1>4. Base(r, q) \in Seq(Bytes)
  BY <1>1, <1>2, ConcatProperties DEF Base
<1>5. PICK s \in Seq(Bytes), t \in Seq(Bytes) : s = Base(r, q) /\ t = r.name
  BY <1>3, <1>4
<1>6. /\ s \o t \in Seq(Bytes) /\ Len(s \o t) = Len(s) + Len(t)
      /\ \A i \in 1 .. Len(s) + Len(t) :
             (s \o t)[i] = IF i <= Len(s) THEN s[i] ELSE t[i - Len(s)]
  BY ConcatProperties
<1>7. Body(r, q) = s \o t
  BY <1>5 DEF Body
<1>8. Len(s) \in Nat /\ Len(t) \in Nat
  BY LenProperties
<1> QED
  BY <1>1, <1>2, <1>5, <1>6, <1>7, <1>8

LEMMA ShownIs ==
    ASSUME StaysInPath, Types, ScanInv, Running
    PROVE  OutputIsReading <=>
               ((above /\ SingleSeparators) => ShownAt(read, scan_pos, out, write_pos))
<1>1. read \in Readings /\ write_pos \in Nat
  BY Situation DEF Types
<1>2. Root = RootAt(scan_pos)
  BY AbsoluteIs DEF Root, RootAt, Types
<1>3. Body(read, scan_pos) \in Seq(Bytes)
  BY <1>1, BodyIs
<1>4. Body(read, scan_pos) = (Root \o Terminated(read.kept)) \o read.name
  BY <1>2 DEF Body, Base
<1>5. Output = Body(read, scan_pos) <=> Shows(out, write_pos, Body(read, scan_pos))
  BY <1>1, <1>3, WrittenIs DEF Output
<1> QED
  BY <1>4, <1>5 DEF OutputIsReading, ShownAt

LEMMA ShownNext ==
    ASSUME StaysInPath, Types, Types', input' = input, above' = above, read' \in Readings,
           (above /\ SingleSeparators) => ShownAt(read', scan_pos', out', write_pos')
    PROVE  OutputIsReading'
<1>1. write_pos' \in Nat
  BY DEF Types
<1>2. Root' = RootAt(scan_pos')
  <2>1. Absolute(Path)' <=> Byte(0) = SEP
    BY AbsoluteIs, PathKept DEF Types
  <2> QED
    BY <2>1 DEF Root, RootAt
<1>3. Body(read', scan_pos') \in Seq(Bytes)
  BY BodyIs
<1>4. Body(read', scan_pos') = (Root' \o Terminated(read'.kept)) \o read'.name
  BY <1>2 DEF Body, Base
<1>5. Output' = Body(read', scan_pos') <=> Shows(out', write_pos', Body(read', scan_pos'))
  BY <1>1, <1>3, WrittenIs DEF Output
<1>6. SingleSeparators' = SingleSeparators /\ Byte(scan_pos)' = Byte(scan_pos')
      /\ Byte(scan_pos - 1)' = Byte(scan_pos' - 1)
  BY PathKept
<1>7. (above /\ SingleSeparators)' =>
          /\ ~read'.above /\ Output' = (Root' \o Terminated(read'.kept)) \o read'.name
          /\ (scan_pos' > 0 /\ Byte(scan_pos' - 1) = SEP) => Byte(scan_pos') # SEP
  BY <1>4, <1>5, <1>6 DEF ShownAt
<1> QED
  BY <1>6, <1>7 DEF OutputIsReading

LEMMA ShownCopies ==
    ASSUME StaysInPath, Types, ScanInv, Running, input' = input, NEW c \in {1, 2}, Copies(c),
           Goes, ShownAt(read, scan_pos, out, write_pos)
    PROVE  ShownAt(read', scan_pos', out', write_pos')
<1>1. PICK p \in Nat, w \in Nat, a \in Nat :
          p = scan_pos /\ w = write_pos /\ a = Len(read.name)
  BY Situation
<1>2. /\ scan_pos' = p + c /\ write_pos' = w + c /\ SameButName(read', read)
      /\ \A k \in 0 .. w - 1 : out'[k] = out[k]
      /\ \A k \in 0 .. c - 1 : out'[w + k] = Byte(p + k)
      /\ Len(read'.name) = a + c
      /\ \A k \in 1 .. a : read'.name[k] = read.name[k]
      /\ \A k \in 0 .. c - 1 : read'.name[a + 1 + k] = Byte(p + k)
  BY <1>1 DEF Copies
<1>3. ASSUME NEW k \in 0 .. c - 1 PROVE Byte(p + k) # SEP
  <2>1. a + 1 + k \in 1 .. a + c
    OBVIOUS
  <2>2. read'.name \in Seq(Plain) /\ Len(read'.name) = a + c
    BY <1>2, GoesReads
  <2>3. read'.name[a + 1 + k] \in Plain
    BY <2>1, <2>2, ElementOfSeq
  <2>4. read'.name[a + 1 + k] = Byte(p + k)
    BY <1>2
  <2> QED
    BY <2>3, <2>4 DEF Plain
<1>4. Base(read', p + c) = Base(read, p)
  <2>1. Byte(p) # SEP
    <3>1. 0 \in 0 .. c - 1 /\ p + 0 = p
      OBVIOUS
    <3> QED
      BY <1>3, <3>1
  <2>2. Byte(0) = SEP => p > 0 /\ p + c > 0
    BY <2>1
  <2> QED
    BY <1>2, <2>2 DEF Base, RootAt, SameButName
<1>5. read \in Readings /\ read' \in Readings
  BY Situation, GoesReads
<1>6. PICK base \in Seq(Bytes) : base = Base(read, p) /\ base = Base(read', p + c)
  BY <1>4, <1>5, BodyIs
<1>7. PICK b \in Nat : b = Len(base)
  BY LenProperties
<1>8. PICK x \in Seq(Bytes), y \in Seq(Bytes) :
          /\ x = read.name /\ y = read'.name /\ Len(x) = a /\ Len(y) = a + c
          /\ \A k \in 1 .. a : y[k] = x[k]
          /\ \A k \in 0 .. c - 1 : y[a + 1 + k] = Byte(p + k)
  BY <1>1, <1>2, <1>5, BodyIs
<1>9. PICK s \in Seq(Bytes), t \in Seq(Bytes) :
          s = base \o x /\ t = base \o y /\ s = Body(read, p) /\ t = Body(read', p + c)
  BY <1>6, <1>8, ConcatProperties DEF Body
<1>10. /\ Len(s) = b + a
       /\ \A i \in 1 .. b + a : s[i] = IF i <= b THEN base[i] ELSE x[i - b]
  <2>1. /\ Len(base \o x) = Len(base) + Len(x)
        /\ \A i \in 1 .. Len(base) + Len(x) :
               (base \o x)[i] = IF i <= Len(base) THEN base[i] ELSE x[i - Len(base)]
    BY ConcatProperties
  <2>2. Len(base) = b /\ Len(x) = a /\ base \o x = s
    BY <1>7, <1>8, <1>9
  <2> QED
    BY <2>1, <2>2
<1>11. /\ Len(t) = b + (a + c)
       /\ \A i \in 1 .. b + (a + c) : t[i] = IF i <= b THEN base[i] ELSE y[i - b]
  <2>1. /\ Len(base \o y) = Len(base) + Len(y)
        /\ \A i \in 1 .. Len(base) + Len(y) :
               (base \o y)[i] = IF i <= Len(base) THEN base[i] ELSE y[i - Len(base)]
    BY ConcatProperties
  <2>2. Len(base) = b /\ Len(y) = a + c /\ base \o y = t
    BY <1>7, <1>8, <1>9
  <2> QED
    BY <2>1, <2>2
<1>12. b + a = w /\ \A i \in 1 .. w : out[i - 1] = s[i]
  BY <1>1, <1>9, <1>10 DEF ShownAt, Shows
<1>13. ASSUME NEW i \in 1 .. w + c PROVE out'[i - 1] = t[i]
  <2>1. b + (a + c) = w + c
    BY <1>12
  <2>2. CASE i <= w
    <3>1. i \in 1 .. w /\ i - 1 \in 0 .. w - 1
      BY <2>2
    <3>2. out'[i - 1] = s[i]
      BY <1>2, <1>12, <3>1
    <3>3. s[i] = t[i]
      <4>1. CASE i <= b
        BY <1>10, <1>11, <1>12, <2>1, <3>1, <4>1
      <4>2. CASE ~(i <= b)
        <5>1. i - b \in 1 .. a
          BY <1>12, <3>1, <4>2
        <5> QED
          BY <1>8, <1>10, <1>11, <1>12, <2>1, <3>1, <4>2, <5>1
      <4> QED
        BY <4>1, <4>2
    <3> QED
      BY <3>2, <3>3
  <2>3. CASE ~(i <= w)
    <3>1. PICK k \in 0 .. c - 1 : i = w + k + 1
      <4>1. i - w - 1 \in 0 .. c - 1 /\ i = w + (i - w - 1) + 1
        BY <2>3
      <4> QED
        BY <4>1
    <3>2. i - 1 = w + k /\ ~(i <= b) /\ i - b = a + 1 + k
      BY <1>12, <3>1
    <3>3. t[i] = y[i - b]
      BY <1>11, <2>1, <3>2
    <3>4. y[a + 1 + k] = Byte(p + k) /\ out'[w + k] = Byte(p + k)
      BY <1>2, <1>8
    <3> QED
      BY <3>2, <3>3, <3>4
  <2> QED
    BY <2>2, <2>3
<1>14. Len(t) = w + c
  <2>1. b + (a + c) = w + c
    BY <1>12
  <2> QED
    BY <1>11, <2>1
<1>15. Byte((p + c) - 1) # SEP
  <2>1. c - 1 \in 0 .. c - 1 /\ p + (c - 1) = (p + c) - 1
    OBVIOUS
  <2> QED
    BY <1>3, <2>1
<1>16. ~read'.above
  BY <1>2 DEF ShownAt, SameButName
<1>17. Shows(out', w + c, t)
  BY <1>13, <1>14 DEF Shows
<1> QED
  BY <1>2, <1>9, <1>15, <1>16, <1>17 DEF ShownAt

LEMMA ShownSeparator ==
    ASSUME StaysInPath, Types, ScanInv, Running, input' = input, NEW j \in Nat,
           CopiesSeparator(j), Goes, ShownAt(read, scan_pos, out, write_pos)
    PROVE  ShownAt(read', scan_pos', out', write_pos')
<1>1. PICK n \in Nat, p \in Nat, w \in Nat : n = length /\ p = scan_pos /\ w = write_pos
  <2>1. length \in Nat /\ scan_pos \in Nat /\ write_pos \in Nat
    BY Situation
  <2> QED
    BY <2>1
<1>2. /\ p <= j /\ j < n /\ scan_pos' = j + 1 /\ write_pos' = w + 1
      /\ \A k \in 0 .. w - 1 : out'[k] = out[k]
      /\ out'[w] = SEP /\ Byte(p) = SEP /\ Byte(j + 1) # SEP
      /\ read.name \notin {Self, Parent} /\ read' = Close(read)
  BY <1>1 DEF CopiesSeparator
<1>3. read \in Readings /\ read' \in Readings /\ read.name \in Seq(Plain) /\ read = At(p)
  BY <1>1, Situation, GoesReads DEF read
<1>4. /\ read'.name = <<>> /\ read'.above = read.above
      /\ read'.kept = IF read.name = <<>> THEN read.kept ELSE Append(read.kept, read.name)
  BY <1>2, <1>3, CloseIs
<1>5. ~read'.above
  BY <1>4 DEF ShownAt
<1>6. read.name = <<>> => p = 0
  <2>1. p \in 0 .. n
    BY <1>2
  <2>2. read.name = <<>> => Behind(p)
    BY <1>1, <1>3, <2>1, AtIs DEF Types
  <2> QED
    BY <1>1, <1>2, <2>2 DEF Behind, ShownAt
<1>7. /\ Terminated(read.kept) \in Seq(Bytes)
      /\ read.kept \in Seq(Named)
      /\ Base(read, p) \in Seq(Bytes) /\ Base(read', j + 1) \in Seq(Bytes)
      /\ RootAt(p) \in Seq(Bytes) /\ Body(read, p) \in Seq(Bytes)
      /\ read.name \in Seq(Bytes)
  BY <1>3, BodyIs, TerminatedIs DEF Readings, Named
<1>8. SEP \in Bytes
  BY DEF Bytes
<1>9. Body(read', j + 1) = Append(Body(read, p), SEP)
  <2>1. Body(read', j + 1) = Base(read', j + 1)
    BY <1>4, <1>7, ConcatEmptySeq DEF Body
  <2>2. CASE read.name = <<>>
    <3>1. p = 0 /\ read = Nothing
      BY <1>3, <1>6, <2>2, AtIs DEF Types
    <3>2. read.kept = <<>> /\ read'.kept = <<>> /\ Terminated(<<>>) = <<>>
      BY <1>4, <3>1, NothingIs, TerminatedGrows
    <3>3. RootAt(p) = <<>> /\ RootAt(j + 1) = <<SEP>>
      <4>1. ~(0 > 0) /\ j + 1 > 0
        OBVIOUS
      <4> QED
        BY <1>2, <3>1, <4>1 DEF RootAt
    <3>4. Base(read', j + 1) = <<SEP>> /\ Base(read, p) = <<>>
      <4>1. <<SEP>> \in Seq(Bytes) /\ <<>> \in Seq(Bytes)
        BY <1>8, EmptySeq
      <4> QED
        BY <3>2, <3>3, <4>1, ConcatEmptySeq DEF Base
    <3>5. Body(read, p) = <<>>
      <4>1. <<>> \in Seq(Bytes)
        BY EmptySeq
      <4> QED
        BY <2>2, <3>4, <4>1, ConcatEmptySeq DEF Body
    <3>6. Append(<<>>, SEP) = <<SEP>>
      OBVIOUS
    <3> QED
      BY <2>1, <3>4, <3>5, <3>6
  <2>3. CASE read.name # <<>>
    <3>1. read.name \in Named
      BY <1>3, <2>3 DEF Named
    <3>2. Terminated(read'.kept) = Terminated(read.kept) \o Append(read.name, SEP)
      BY <1>4, <1>7, <2>3, <3>1, TerminatedIs
    <3>3. p # 0
      <4>1. At(0).name = <<>>
        BY AtIs, NothingIs DEF Types
      <4> QED
        BY <1>3, <2>3, <4>1
    <3>4. RootAt(j + 1) = RootAt(p)
      <4>1. p > 0 /\ j + 1 > 0
        BY <3>3
      <4> QED
        BY <4>1 DEF RootAt
    <3>5. Append(read.name, SEP) \in Seq(Bytes) /\ Append(read.name, SEP) = read.name \o <<SEP>>
          /\ <<SEP>> \in Seq(Bytes)
      BY <1>7, <1>8, AppendProperties, AppendIsConcat
    <3>6. Base(read', j + 1) = (RootAt(p) \o Terminated(read.kept)) \o Append(read.name, SEP)
      <4>1. PICK u \in Seq(Bytes), v \in Seq(Bytes), x \in Seq(Bytes) :
                u = RootAt(p) /\ v = Terminated(read.kept) /\ x = Append(read.name, SEP)
        BY <1>7, <3>5
      <4>2. Associates(u, v, x)
        BY ConcatAssociates
      <4>3. Base(read', j + 1) = u \o (v \o x)
        BY <3>2, <3>4, <4>1 DEF Base
      <4> QED
        BY <4>1, <4>2, <4>3 DEF Associates
    <3>7. Base(read', j + 1) = Base(read, p) \o (read.name \o <<SEP>>)
      BY <3>5, <3>6 DEF Base
    <3>8. Base(read, p) \o (read.name \o <<SEP>>) = Body(read, p) \o <<SEP>>
      <4>1. PICK u \in Seq(Bytes), v \in Seq(Bytes), x \in Seq(Bytes) :
                u = Base(read, p) /\ v = read.name /\ x = <<SEP>>
        BY <1>7, <3>5
      <4>2. Associates(u, v, x)
        BY ConcatAssociates
      <4> QED
        BY <4>1, <4>2 DEF Associates, Body
    <3>9. Body(read, p) \o <<SEP>> = Append(Body(read, p), SEP)
      BY <1>7, <1>8, AppendIsConcat
    <3> QED
      BY <2>1, <3>7, <3>8, <3>9
  <2> QED
    BY <2>2, <2>3
<1>10. PICK s \in Seq(Bytes) : s = Body(read, p)
  BY <1>7
<1>11. Len(s) = w /\ \A i \in 1 .. w : out[i - 1] = s[i]
  BY <1>1, <1>10 DEF ShownAt, Shows
<1>12. /\ Len(Append(s, SEP)) = w + 1 /\ Append(s, SEP)[w + 1] = SEP
       /\ \A i \in 1 .. w : Append(s, SEP)[i] = s[i]
  BY <1>8, <1>11, AppendProperties
<1>13. ASSUME NEW i \in 1 .. w + 1 PROVE out'[i - 1] = Append(s, SEP)[i]
  <2>1. CASE i = w + 1
    BY <1>2, <1>12, <2>1, (w + 1) - 1 = w
  <2>2. CASE i # w + 1
    <3>1. i \in 1 .. w /\ i - 1 \in 0 .. w - 1
      BY <2>2
    <3> QED
      BY <1>2, <1>11, <1>12, <3>1
  <2> QED
    BY <2>1, <2>2
<1>14. Shows(out', w + 1, Body(read', j + 1))
  BY <1>9, <1>10, <1>12, <1>13 DEF Shows
<1> QED
  BY <1>2, <1>5, <1>14 DEF ShownAt

\* Behind a reference there is one separator at most.
LEMMA SingleIs ==
    ASSUME StaysInPath, input \in Inputs, SingleSeparators, NEW p \in Nat, p < length,
           Behind(p), Byte(p) = DOT
    PROVE  /\ Byte(p + 1) = SEP => Byte(p + 2) # SEP
           /\ (p + 1 < length /\ Byte(p + 1) = DOT /\ Byte(p + 2) = SEP) => Byte(p + 3) # SEP
<1>1. PICK n \in Nat : n = length /\ n = Len(Path) /\ DOMAIN Path = 1 .. n /\ p < n
  BY PathIs, LenProperties DEF length
<1>2. \A k \in 0 .. n - 1 : Path[k + 1] = Byte(k)
  BY <1>1, BytesOfPath
<1>3. Path[p + 1] = DOT /\ (p + 1 = 1 \/ Path[(p + 1) - 1] = SEP)
  <2>1. p \in 0 .. n - 1
    BY <1>1
  <2>2. p > 0 => p - 1 \in 0 .. n - 1 /\ (p - 1) + 1 = p /\ (p + 1) - 1 = p
    BY <2>1
  <2>3. p > 0 => Byte(p - 1) = SEP
    BY DEF Behind
  <2> QED
    BY <1>2, <2>1, <2>2, <2>3
<1>4. ASSUME NEW j \in p + 1 .. n, SubSeq(Path, p + 1, j) \in {Self, Parent}, Byte(j) = SEP,
             j < n, Byte(j + 1) = SEP
      PROVE  FALSE
  <2>1. j \in Nat /\ j + 1 \in 0 .. n /\ j \in 0 .. n - 1
    BY <1>4
  <2>2. j + 1 # n
    BY <1>1, <1>4, BytesOfPath, ByteFacts
  <2>3. j + 1 \in 0 .. n - 1 /\ j + 2 <= n /\ (j + 1) + 1 = j + 2
    BY <2>1, <2>2
  <2>4. Path[j + 1] = SEP /\ Path[j + 2] = SEP
    BY <1>2, <1>4, <2>1, <2>3
  <2>5. p + 1 \in DOMAIN Path /\ j \in DOMAIN Path /\ p + 1 <= j
    BY <1>1, <1>4, <2>1
  <2>6. j + 2 <= Len(Path)
    BY <1>1, <2>3
  <2> QED
    BY <1>3, <1>4, <2>4, <2>5, <2>6 DEF SingleSeparators
<1>5. DOT \in Plain
  BY ByteFacts DEF Plain, Bytes
<1>6. ASSUME Byte(p + 1) = SEP PROVE Byte(p + 2) # SEP
  <2>1. p + 1 < n
    <3>1. p + 1 # n
      BY <1>1, <1>6, BytesOfPath, ByteFacts
    <3> QED
      BY <1>1, <3>1
  <2>2. SubSeq(Path, p + 1, p + 1) = Self
    <3>1. \A k \in p + 1 .. p + 1 : Path[k] \in Plain
      <4>1. \A k \in p + 1 .. p + 1 : k = p + 1
        OBVIOUS
      <4> QED
        BY <1>3, <1>5, <4>1
    <3>2. /\ SubSeq(Path, p + 1, p + 1) \in Seq(Plain)
          /\ Len(SubSeq(Path, p + 1, p + 1)) =
                 IF p + 1 <= p + 1 THEN (p + 1) - (p + 1) + 1 ELSE 0
          /\ \A i \in 1 .. (p + 1) - (p + 1) + 1 :
                 SubSeq(Path, p + 1, p + 1)[i] = Path[(p + 1) + i - 1]
      <4>1. p + 1 \in Int
        OBVIOUS
      <4> QED
        BY <3>1, <4>1, SubSeqProperties
    <3>3. /\ (IF p + 1 <= p + 1 THEN (p + 1) - (p + 1) + 1 ELSE 0) = 1
          /\ 1 \in 1 .. (p + 1) - (p + 1) + 1 /\ (p + 1) + 1 - 1 = p + 1
      OBVIOUS
    <3>4. Len(SubSeq(Path, p + 1, p + 1)) = 1 /\ SubSeq(Path, p + 1, p + 1)[1] = DOT
      BY <1>3, <3>2, <3>3
    <3> QED
      BY <3>2, <3>4, ReferencesAre
  <2>3. p + 1 \in p + 1 .. n /\ (p + 1) + 1 = p + 2
    BY <2>1
  <2> QED
    BY <1>4, <1>6, <2>1, <2>2, <2>3
<1>7. ASSUME p + 1 < n, Byte(p + 1) = DOT, Byte(p + 2) = SEP PROVE Byte(p + 3) # SEP
  <2>1. p + 2 < n
    <3>1. p + 2 # n
      BY <1>1, <1>7, BytesOfPath, ByteFacts
    <3> QED
      BY <1>7, <3>1
  <2>2. Path[p + 2] = DOT
    <3>1. p + 1 \in 0 .. n - 1 /\ (p + 1) + 1 = p + 2
      BY <1>7
    <3> QED
      BY <1>2, <1>7, <3>1
  <2>3. SubSeq(Path, p + 1, p + 2) = Parent
    <3>1. \A k \in p + 1 .. p + 2 : Path[k] \in Plain
      <4>1. \A k \in p + 1 .. p + 2 : k = p + 1 \/ k = p + 2
        OBVIOUS
      <4> QED
        BY <1>3, <1>5, <2>2, <4>1
    <3>2. /\ SubSeq(Path, p + 1, p + 2) \in Seq(Plain)
          /\ Len(SubSeq(Path, p + 1, p + 2)) =
                 IF p + 1 <= p + 2 THEN (p + 2) - (p + 1) + 1 ELSE 0
          /\ \A i \in 1 .. (p + 2) - (p + 1) + 1 :
                 SubSeq(Path, p + 1, p + 2)[i] = Path[(p + 1) + i - 1]
      <4>1. p + 1 \in Int /\ p + 2 \in Int
        OBVIOUS
      <4> QED
        BY <3>1, <4>1, SubSeqProperties
    <3>3. /\ (IF p + 1 <= p + 2 THEN (p + 2) - (p + 1) + 1 ELSE 0) = 2
          /\ 1 \in 1 .. (p + 2) - (p + 1) + 1 /\ (p + 1) + 1 - 1 = p + 1
          /\ 2 \in 1 .. (p + 2) - (p + 1) + 1 /\ (p + 1) + 2 - 1 = p + 2
      OBVIOUS
    <3>4. /\ Len(SubSeq(Path, p + 1, p + 2)) = 2 /\ SubSeq(Path, p + 1, p + 2)[1] = DOT
          /\ SubSeq(Path, p + 1, p + 2)[2] = DOT
      BY <1>3, <2>2, <3>2, <3>3
    <3> QED
      BY <3>2, <3>4, ReferencesAre
  <2>4. p + 2 \in p + 1 .. n /\ (p + 2) + 1 = p + 3
    BY <2>1
  <2> QED
    BY <1>4, <1>7, <2>1, <2>3, <2>4
<1> QED
  BY <1>1, <1>6, <1>7

LEMMA ShownSelf ==
    ASSUME StaysInPath, Types, ScanInv, Running, input' = input, SingleSeparators, SkipsSelf,
           ShownAt(read, scan_pos, out, write_pos)
    PROVE  ShownAt(read', scan_pos', out', write_pos')
<1>1. PICK n \in Nat, p \in Nat : n = length /\ p = scan_pos
  BY Situation
<1>2. /\ p < n /\ scan_pos' = p + 2 /\ write_pos' = write_pos /\ out' = out
      /\ Byte(p) = DOT /\ Behind(p)
      /\ read.name = <<>> /\ SameButName(read', read) /\ read'.name = <<>>
  BY <1>1 DEF SkipsSelf
<1>3. Body(read', p + 2) = Body(read, p)
  <2>1. Byte(0) = SEP => p > 0 /\ p + 2 > 0
    BY <1>2, ByteFacts
  <2> QED
    BY <1>2, <2>1 DEF Body, Base, RootAt, SameButName
<1>4. Byte((p + 2) - 1) = SEP => Byte(p + 2) # SEP
  <2>1. (p + 2) - 1 = p + 1
    OBVIOUS
  <2> QED
    BY <1>1, <1>2, <2>1, SingleIs DEF Types
<1>5. ~read'.above
  BY <1>2 DEF ShownAt, SameButName
<1> QED
  BY <1>1, <1>2, <1>3, <1>4, <1>5 DEF ShownAt

LEMMA ShownAway ==
    ASSUME StaysInPath, Types, ScanInv, Running, input' = input, above, SingleSeparators,
           TakesAway, ShownAt(read, scan_pos, out, write_pos)
    PROVE  ShownAt(read', scan_pos', out', write_pos')
<1>1. PICK n \in Nat, p \in Nat, w \in Nat : n = length /\ p = scan_pos /\ w = write_pos
  BY Situation
<1>2. /\ p + 1 < n /\ scan_pos' = p + 3 /\ out' = out /\ ~AtRoot(w)
      /\ write_pos' \in Stops /\ \A l \in Stops : l <= write_pos'
      /\ Byte(p) = DOT /\ Byte(p + 1) = DOT /\ Behind(p) /\ read.name = <<>>
  BY <1>1 DEF TakesAway
<1>3. PICK r \in Readings : r.name = Parent /\ SameButName(r, read) /\ read' = Close(r)
  BY DEF TakesAway
<1>4. PICK v \in Nat : v = write_pos' /\ v >= 1 /\ v <= w - 1
  <2>1. write_pos' \in 1 .. write_pos - 1
    BY <1>1, <1>2, GreatestStop
  <2>2. write_pos' \in Nat /\ write_pos' >= 1 /\ write_pos' <= w - 1
    BY <1>1, <2>1
  <2> QED
    BY <2>2
<1>5. w >= 2
  BY <1>2 DEF AtRoot
<1>6. out[v - 1] = SEP /\ \A l \in 1 .. w - 1 : out[l - 1] = SEP => l <= v
  BY <1>1, <1>2, <1>4 DEF Stops
<1>7. read \in Readings /\ read.kept \in Seq(Named)
  BY Situation DEF Named
<1>8. Body(read, p) = Base(read, p) /\ Base(read, p) \in Seq(Bytes)
  BY <1>2, <1>7, BodyIs, ConcatEmptySeq DEF Body
<1>9. Len(Base(read, p)) = w /\ \A i \in 1 .. w : out[i - 1] = Base(read, p)[i]
  BY <1>1, <1>8 DEF ShownAt, Shows
<1>10. read.kept # <<>>
  <2> SUFFICES ASSUME read.kept = <<>> PROVE FALSE
    OBVIOUS
  <2>1. Base(read, p) = RootAt(p)
    <3>1. PICK root \in Seq(Bytes) : root = RootAt(p)
      BY <1>7, BodyIs
    <3>2. Base(read, p) = root \o <<>>
      BY <3>1, TerminatedGrows DEF Base
    <3> QED
      BY <3>1, <3>2, ConcatEmptySeq
  <2>2. Len(RootAt(p)) \in {0, 1}
    BY EmptySeq DEF RootAt
  <2>3. w \in {0, 1}
    BY <1>9, <2>1, <2>2
  <2> QED
    BY <1>5, <2>3
<1>11. PICK f \in Seq(Named), x \in Named : read.kept = Append(f, x) /\ f = Front(read.kept)
  BY <1>7, <1>10, FrontIs
<1>12. /\ read'.kept = f /\ read'.name = <<>> /\ ~read'.above /\ read' \in Readings
  <2>1. r.kept = read.kept /\ ~r.above
    BY <1>3 DEF SameButName, ShownAt
  <2> QED
    BY <1>3, <1>10, <1>11, <2>1, CloseIs
<1>13. RootAt(p + 3) = RootAt(p)
  <2>1. Byte(0) = SEP => p > 0 /\ p + 3 > 0
    BY <1>2, ByteFacts
  <2> QED
    BY <2>1 DEF RootAt
<1>14. PICK root \in Seq(Bytes), front \in Seq(Bytes), last \in Seq(Bytes), base \in Seq(Bytes) :
           /\ root = RootAt(p) /\ front = Terminated(f) /\ last = Append(x, SEP)
           /\ base = root \o front
  <2>1. Append(x, SEP) \in Seq(Bytes)
    <3>1. x \in Seq(Bytes)
      <4>1. Plain \subseteq Bytes /\ x \in Seq(Plain)
        BY DEF Plain, Named
      <4> QED
        BY <4>1, SeqMonotonic
    <3>2. SEP \in Bytes
      BY DEF Bytes
    <3> QED
      BY <3>1, <3>2, AppendProperties
  <2> QED
    BY <1>7, <2>1, BodyIs, TerminatedIs, ConcatProperties
<1>15. Base(read, p) = base \o last
  <2>1. Terminated(read.kept) = front \o last
    BY <1>11, <1>14, TerminatedIs
  <2> QED
    <3>1. Associates(root, front, last)
      BY ConcatAssociates
    <3> QED
      BY <1>14, <2>1, <3>1 DEF Associates, Base
<1>16. Body(read', p + 3) = base
  <2>1. Base(read', p + 3) = base
    BY <1>12, <1>13, <1>14 DEF Base
  <2> QED
    BY <1>12, <1>14, <2>1, ConcatEmptySeq DEF Body
<1>17. PICK b \in Nat, c \in Nat : /\ b = Len(base) /\ c = Len(x) /\ Len(last) = c + 1 /\ c >= 1
                                   /\ \A i \in 1 .. c : last[i] = x[i] /\ x[i] \in Plain
  <2>1. x \in Seq(Plain) /\ x # <<>>
    BY DEF Named
  <2>2. PICK c \in Nat : c = Len(x) /\ c >= 1
    BY <2>1, EmptySeq
  <2>3. \A i \in 1 .. c : x[i] \in Plain
    BY <2>1, <2>2, ElementOfSeq
  <2>4. x \in Seq(Bytes) /\ SEP \in Bytes
    <3>1. Plain \subseteq Bytes /\ SEP \in Bytes
      BY DEF Plain, Bytes
    <3> QED
      BY <2>1, <3>1, SeqMonotonic
  <2>5. Len(last) = c + 1 /\ \A i \in 1 .. c : last[i] = x[i]
    BY <1>14, <2>2, <2>4, AppendProperties
  <2>6. Len(base) \in Nat
    BY LenProperties
  <2> QED
    BY <2>2, <2>3, <2>5, <2>6
<1>18. /\ w = b + (c + 1)
       /\ \A i \in 1 .. w : out[i - 1] = IF i <= b THEN base[i] ELSE last[i - b]
  <2>1. /\ Len(base \o last) = Len(base) + Len(last)
        /\ \A i \in 1 .. Len(base) + Len(last) :
               (base \o last)[i] = IF i <= Len(base) THEN base[i] ELSE last[i - Len(base)]
    BY ConcatProperties
  <2>2. b + (c + 1) = Len(base) + Len(last)
    BY <1>17
  <2>3. w = b + (c + 1)
    <3>1. Len(base \o last) = w
      BY <1>9, <1>15, Zenon
    <3> QED
      BY <2>1, <2>2, <3>1, Zenon
  <2>4. ASSUME NEW i \in 1 .. w
        PROVE  out[i - 1] = IF i <= b THEN base[i] ELSE last[i - b]
    <3>1. out[i - 1] = (base \o last)[i]
      BY <1>9, <1>15, Zenon
    <3>2. i \in 1 .. Len(base) + Len(last)
      BY <2>2, <2>3, Zenon
    <3>3. (base \o last)[i] = IF i <= Len(base) THEN base[i] ELSE last[i - Len(base)]
      BY <2>1, <3>2, Zenon
    <3>4. Len(base) = b
      BY <1>17
    <3> QED
      BY <3>1, <3>3, <3>4, Zenon
  <2> QED
    BY <2>3, <2>4
<1>19. v <= b
  <2> SUFFICES ASSUME ~(v <= b) PROVE FALSE
    BY <1>4
  <2>1. v \in 1 .. w /\ v - b \in 1 .. c
    <3>1. v >= 1 /\ v <= w - 1
      BY <1>4, Zenon
    <3>2. v <= b + c
      <4>1. w - 1 = b + c
        <5>1. w = b + (c + 1)
          BY <1>18, Zenon
        <5> QED
          BY <5>1
      <4> QED
        BY <3>1, <4>1, Zenon
    <3> QED
      BY <3>1, <3>2
  <2>2. last[v - b] = SEP
    BY <1>6, <1>18, <2>1
  <2>3. last[v - b] \in Plain
    BY <1>17, <2>1
  <2> QED
    BY <2>2, <2>3 DEF Plain
<1>20. b >= 1 /\ b \in 1 .. w - 1 /\ b \in 1 .. w
  BY <1>4, <1>17, <1>18, <1>19
<1>21. base[b] = SEP
  <2>1. CASE f = <<>>
    <3>1. base = root
      BY <1>14, <2>1, TerminatedGrows, ConcatEmptySeq
    <3>2. root # <<>>
      BY <1>17, <1>20, <3>1, EmptySeq
    <3>3. root = <<SEP>>
      BY <1>14, <3>2 DEF RootAt
    <3> QED
      BY <1>17, <3>1, <3>3
  <2>2. CASE f # <<>>
    <3>1. PICK d \in Nat, e \in Nat : d = Len(root) /\ e = Len(front)
      BY LenProperties
    <3>2. front # <<>> /\ front[e] = SEP
      BY <1>14, <2>2, <3>1, TerminatedIs
    <3>3. e >= 1
      BY <3>1, <3>2, EmptySeq
    <3>4. /\ Len(root \o front) = d + e
          /\ \A i \in 1 .. d + e : (root \o front)[i] = IF i <= d THEN root[i] ELSE front[i - d]
      BY <3>1, ConcatProperties
    <3>5. d + e \in 1 .. d + e /\ ~(d + e <= d) /\ (d + e) - d = e
      BY <3>3
    <3> QED
      BY <1>14, <1>17, <3>2, <3>4, <3>5
  <2> QED
    BY <2>1, <2>2
<1>22. v = b
  <2>1. out[b - 1] = SEP
    BY <1>18, <1>20, <1>21
  <2>2. b <= v
    BY <1>6, <1>20, <2>1
  <2> QED
    BY <1>4, <1>19, <2>2
<1>23. Shows(out, b, base)
  <2>1. \A i \in 1 .. b : i \in 1 .. w /\ i <= b
    BY <1>20
  <2> QED
    BY <1>17, <1>18, <2>1 DEF Shows
<1>24. Byte((p + 3) - 1) = SEP => Byte(p + 3) # SEP
  <2>1. (p + 3) - 1 = p + 2 /\ p < n
    BY <1>2
  <2> QED
    BY <1>1, <1>2, <2>1, SingleIs DEF Types
<1> QED
  BY <1>2, <1>4, <1>12, <1>16, <1>22, <1>23, <1>24 DEF ShownAt

LEMMA OutputStep ==
    ASSUME StaysInPath, Types, Types', ScanInv, OutputIsReading, Running, input' = input,
           above' = above, Goes
    PROVE  OutputIsReading'
<1>1. read' \in Readings
  BY GoesReads
<1>2. ASSUME above, SingleSeparators PROVE ShownAt(read', scan_pos', out', write_pos')
  <2>1. ShownAt(read, scan_pos, out, write_pos)
    BY <1>2, ShownIs
  <2>2. CASE CopiesName
    <3>1. CASE scan_pos' = scan_pos /\ write_pos' = write_pos /\ out' = out /\ read' = read
      BY <2>1, <3>1
    <3>2. CASE Copies(1) \/ Copies(2)
      BY <2>1, <3>2, ShownCopies
    <3> QED
      BY <2>2, <3>1, <3>2 DEF CopiesName
  <2>3. CASE \E j \in Nat : CopiesSeparator(j)
    BY <2>1, <2>3, ShownSeparator
  <2>4. CASE SkipsSelf
    BY <1>2, <2>1, <2>4, ShownSelf
  <2>5. CASE TakesAway
    BY <1>2, <2>1, <2>5, ShownAway
  <2> QED
    BY <2>2, <2>3, <2>4, <2>5 DEF Goes
<1> QED
  BY <1>1, <1>2, ShownNext
-----------------------------------------------------------------------------
\* The scan steps over the end of the path only with a reference.

EndsInReference ==
    (Running /\ scan_pos = length + 1) => Read(Path).name \in {Self, Parent}

LEMMA EndStep ==
    ASSUME StaysInPath, Types, ScanInv, Running, input' = input, Step, EndsInReference, Goes
    PROVE  EndsInReference'
<1>1. PICK n \in Nat, p \in Nat : n = length /\ p = scan_pos
  BY Situation
<1>2. Path' = Path /\ length' = n /\ Read(Path)' = Read(Path) /\ At(n) = Read(Path)
  BY <1>1, PathKept, AtIs DEF Types
<1> SUFFICES ASSUME scan_pos' = n + 1 PROVE Read(Path).name \in {Self, Parent}
  BY <1>2 DEF EndsInReference
<1>3. CASE CopiesName
  <2>1. ~Copies(1) /\ ~Copies(2)
    BY <1>1 DEF Copies
  <2> QED
    BY <1>1, <1>3, <2>1 DEF CopiesName, EndsInReference
<1>4. CASE \E j \in Nat : CopiesSeparator(j)
  BY <1>1, <1>4 DEF CopiesSeparator
<1>5. CASE SkipsSelf
  <2>1. p + 1 = n /\ p < n /\ Byte(p) = DOT /\ Behind(p)
    BY <1>1, <1>5 DEF SkipsSelf
  <2> QED
    BY <1>1, <1>2, <2>1, DotRead DEF Types
<1>6. CASE TakesAway
  <2>1. p + 2 = n /\ p + 1 < n /\ p < n /\ Byte(p) = DOT /\ Byte(p + 1) = DOT /\ Behind(p)
        /\ Ahead(p + 2)
    BY <1>1, <1>6 DEF TakesAway
  <2>2. InPath(p) /\ ParentRef(p)
    BY <1>1, <2>1, ByteFacts DEF InPath, ParentRef
  <2> QED
    BY <1>1, <1>2, <2>1, <2>2, ParentRead DEF Types
<1> QED
  BY <1>3, <1>4, <1>5, <1>6 DEF Goes
-----------------------------------------------------------------------------
\* What a call that has ended has done.

LEMMA InvalidClimbs ==
    ASSUME StaysInPath, Types, ScanInv, KeptInOutput, Running, Step, result' = "invalid_path"
    PROVE  input' = input /\ Resolve(Path).above
<1>1. PICK n \in Nat, p \in Nat, w \in Nat, a \in Nat :
          n = length /\ p = scan_pos /\ w = write_pos /\ a = Len(read.name)
  BY Situation
<1>2. ~WriteChar(LastSeparator(scan_pos)) /\ ~WriteChar(scan_pos)
  BY DEF WriteChar, LeaveObjects
<1>3. ~CopySeparator /\ ~CopyChar /\ ~SkipRelativeRef /\ ~Finish /\ ~LeaveObjects
  BY <1>2 DEF CopySeparator, CopyChar, SkipRelativeRef, Finish, LeaveObjects, Running
<1>4. InPath(p) /\ FollowParentRef
  BY <1>1, <1>3 DEF Step, ScanInv
<1>5. Byte(p) = DOT /\ ParentRef(p)
  BY <1>1, <1>4 DEF FollowParentRef
<1>6. AtRoot(w) /\ input' = input
  BY <1>1, <1>3, <1>4 DEF FollowParentRef, PopComponent, Running, arguments
<1>7. /\ p + 1 < n /\ At(p + 2) \in Readings /\ At(p + 2).name = Parent
      /\ SameButName(At(p + 2), At(p)) /\ At(p + 3) = Close(At(p + 2))
  BY <1>1, <1>4, <1>5, ParentRead DEF Types
<1>8. read.kept = <<>>
  <2> SUFFICES ASSUME read.kept # <<>> PROVE FALSE
    OBVIOUS
  <2>1. PICK m \in Nat : m = Len(read.kept) /\ m >= 1
    BY Situation, EmptySeq
  <2>2. PICK ends \in [1 .. m -> Nat] :
            \A i \in 1 .. m : ends[i] >= 2 /\ ends[i] + a <= w
    BY <1>1, <2>1 DEF KeptInOutput, SeparatorsFor
  <2>3. 1 \in 1 .. m
    BY <2>1
  <2>4. PICK e \in Nat : e = ends[1] /\ e >= 2 /\ e + a <= w
    BY <2>2, <2>3
  <2> QED
    BY <1>6, <2>4 DEF AtRoot
<1>9. At(p + 3).above
  <2>1. At(p + 2).kept = <<>>
    BY <1>1, <1>7, <1>8 DEF SameButName, read
  <2> QED
    BY <1>7, <2>1, CloseIs
<1>10. p + 3 \in 0 .. n + 1
  BY <1>7
<1> QED
  BY <1>1, <1>6, <1>9, <1>10, ReadingRemembers DEF Types

\* A round reads nothing behind its object.
LEMMA StaysInside ==
    ASSUME StaysInPath, Types, ScanInv, Running
    PROVE  LooksInside
<1>1. PICK n \in Nat, p \in Nat, m \in Nat :
          n = length /\ p = scan_pos /\ m = Len(input) /\ n < m /\ InPath(p)
  BY PathIs DEF Types, ScanInv
<1>2. /\ \A i \in 0 .. n : InInput(i)
      /\ InInput(p) /\ (p >= n => Byte(p) = NUL) /\ Byte(n) = NUL
  BY <1>1, BytesOfPath DEF Types
<1>3. ASSUME Byte(p) = SEP PROVE \E k \in p .. m - 1 : Byte(k) # SEP
  <2>1. n \in p .. m - 1
    BY <1>1, <1>2, <1>3, ByteFacts
  <2> QED
    BY <1>2, <2>1, ByteFacts
<1>4. ASSUME Byte(p) = DOT
      PROVE  InInput(p + 1) /\ (Byte(p + 1) = NUL \/ InInput(p + 2))
  <2>1. p < n
    BY <1>2, <1>4, ByteFacts
  <2>2. InInput(p + 1)
    BY <1>2, <2>1
  <2>3. CASE p + 1 = n
    BY <1>2, <2>2, <2>3
  <2>4. CASE p + 2 \in 0 .. n
    BY <1>2, <2>2, <2>4
  <2> QED
    BY <2>1, <2>3, <2>4
<1> QED
  BY <1>1, <1>2, <1>3, <1>4 DEF LooksInside

\* A call leaves its objects only where one of the clauses of GoodCallsInBounds holds.
LEMMA UndefinedExcused ==
    ASSUME StaysInPath, Types, ScanInv, KeptInOutput, FirstInOutput, Running,
           Step, result' = "undefined"
    PROVE  /\ input' = input /\ above' = above /\ out_len' = out_len
           /\ \/ above /\ ~KeepsFirst
              \/ ~RoomForInput /\ LEAD \in Range(Path)
<1>1. PICK n \in Nat, p \in Nat, w \in Nat, o \in Nat :
          n = length /\ p = scan_pos /\ w = write_pos /\ o = out_len
  BY Situation
<1>2. w < o /\ w <= p /\ p <= n + 1 /\ InPath(p) /\ input \in Inputs
  BY <1>1 DEF ScanInv, Types
<1> DEFINE Excused == \/ above /\ ~KeepsFirst
                      \/ ~RoomForInput /\ LEAD \in Range(Path)
<1>3. input' = input /\ above' = above /\ out_len' = out_len
  BY DEF Step, CopySeparator, CopyChar, SkipRelativeRef, FollowParentRef, PopComponent,
         WriteChar, LeaveObjects, Finish, arguments
<1> SUFFICES Excused
  BY <1>3
<1>4. LooksInside
  BY StaysInside
<1>5. CASE CopySeparator
  <2>1. PICK i \in Nat : i = LastSeparator(p) /\ i < n /\ Byte(i) = SEP /\ WriteChar(i)
    <3>1. /\ LastSeparator(p) \in p .. n - 1
          /\ \A k \in p .. LastSeparator(p) : Byte(k) = SEP
      BY <1>1, <1>2, <1>5, LastSeparatorIs DEF CopySeparator
    <3>2. LastSeparator(p) \in p .. LastSeparator(p)
      BY <3>1
    <3>3. LastSeparator(p) \in Nat /\ LastSeparator(p) < n
      BY <3>1
    <3> QED
      BY <1>1, <1>5, <3>1, <3>2, <3>3 DEF CopySeparator
  <2>2. CharLen(Byte(i)) = 1
    BY <2>1, ByteFacts DEF CharLen
  <2>3. i + 1 <= Len(input)
    <3>1. n \in Nat /\ Len(input) \in Nat /\ n < Len(input)
      BY <1>1, <1>2, PathIs
    <3> QED
      BY <2>1, <3>1
  <2>4. w + 1 <= o
    BY <1>2
  <2>5. result' \in {"err", "running"}
    BY <1>1, <2>1, <2>2, <2>3, <2>4 DEF WriteChar
  <2> QED
    BY <2>5
<1>6. CASE FollowParentRef
  <2>1. Byte(p) = DOT /\ ParentRef(p) /\ ~AtRoot(w) /\ Stops = {}
    BY <1>1, <1>6, PopIs DEF FollowParentRef, PopComponent, Running
  <2>2. w >= 2
    BY <2>1 DEF AtRoot
  <2>3. above
    BY <1>1, <2>1 DEF Stops
  <2>4. \A k \in 1 .. w - 1 : out[k - 1] # SEP
    BY <1>1, <2>1, <2>3 DEF Stops
  <2>5. out[0] # SEP
    <3>1. 1 \in 1 .. w - 1 /\ 1 - 1 = 0
      BY <2>2
    <3> QED
      BY <2>4, <3>1
  <2>6. ~Absolute(Path)
    <3> SUFFICES ASSUME Absolute(Path) PROVE FALSE
      OBVIOUS
    <3>1. p > 0
      <4>1. Byte(0) = SEP
        BY <1>2, AbsoluteIs
      <4>2. p # 0
        BY <2>1, <4>1, ByteFacts
      <4> QED
        BY <4>2
    <3> QED
      BY <1>1, <2>5, <3>1 DEF FirstInOutput
  <2>7. /\ p + 1 < n /\ At(p).name = <<>> /\ At(p + 2) \in Readings /\ At(p + 2).name = Parent
        /\ SameButName(At(p + 2), At(p)) /\ At(p + 3) = Close(At(p + 2))
    BY <1>1, <1>2, <1>6, <2>1, ParentRead
  <2>8. read = At(p) /\ Len(read.name) = 0
    BY <1>1, <2>7, EmptySeq DEF read
  <2>9. read.kept # <<>> \/ read.emptied
    <3> SUFFICES ASSUME read.kept = <<>>, ~read.emptied PROVE FALSE
      OBVIOUS
    <3>1. \A k \in 0 .. w - 1 - 0 : out[k] = SEP
      BY <1>1, <2>8 DEF FirstInOutput
    <3>2. 0 \in 0 .. w - 1 - 0
      BY <2>2
    <3> QED
      BY <2>5, <3>1, <3>2
  <2>10. read.kept # <<>> => Len(read.kept) = 1
    <3> SUFFICES ASSUME read.kept # <<>> PROVE Len(read.kept) = 1
      OBVIOUS
    <3>1. PICK m \in Nat : m = Len(read.kept) /\ m >= 1
      BY Situation, EmptySeq
    <3>2. PICK ends \in [1 .. m -> Nat] :
              /\ \A i \in 1 .. m : ends[i] >= 2 /\ ends[i] + 0 <= w /\ out[ends[i] - 1] = SEP
              /\ \A i, j \in 1 .. m : i < j => ends[i] + 2 <= ends[j]
      BY <1>1, <2>8, <3>1 DEF KeptInOutput, SeparatorsFor
    <3>3. ASSUME m >= 2 PROVE FALSE
      <4>1. 1 \in 1 .. m /\ 2 \in 1 .. m
        BY <3>3
      <4>2. PICK d \in Nat, e \in Nat : d = ends[1] /\ e = ends[2] /\ d >= 2
        BY <3>2, <4>1
      <4>3. d + 2 <= e /\ e + 0 <= w /\ out[d - 1] = SEP
        BY <3>2, <4>1, <4>2
      <4>4. d \in 1 .. w - 1
        BY <4>2, <4>3
      <4> QED
        BY <2>4, <4>3, <4>4
    <3>4. ~(m >= 2)
      BY <3>3
    <3>5. m >= 1
      BY <3>1
    <3>6. m = 1
      BY <3>4, <3>5
    <3> QED
      BY <3>1, <3>6
  <2>11. At(p + 3).emptied
    <3>1. PICK r \in Readings : /\ r = At(p + 2) /\ r.name = Parent
                                /\ r.kept = read.kept /\ r.emptied = read.emptied
      BY <2>7, <2>8 DEF SameButName
    <3>2. r.emptied => Close(r).emptied
      BY CloseIs
    <3>3. r.kept # <<>> => Close(r).emptied = (r.emptied \/ Len(r.kept) = 1)
      BY <3>1, CloseIs
    <3>4. Close(r).emptied
      BY <2>9, <2>10, <3>1, <3>2, <3>3
    <3> QED
      BY <2>7, <3>1, <3>4
  <2>12. p + 3 \in 0 .. n + 1
    BY <2>7
  <2>13. Resolve(Path).emptied
    BY <1>1, <1>2, <2>11, <2>12, ReadingRemembers
  <2> QED
    BY <2>3, <2>6, <2>13 DEF KeepsFirst
<1>7. CASE CopyChar
  <2>1. p < n /\ WriteChar(p)
    BY <1>1, <1>2, <1>7, BytesOfPath DEF CopyChar
  <2>2. PICK c \in {0, 1, 2} : c = CharLen(Byte(p)) /\ (c = 2 <=> Byte(p) = LEAD)
    BY ByteFacts DEF CharLen
  <2>3. ~(p + c <= Len(input) /\ w + c <= o)
    <3> SUFFICES ASSUME p + c <= Len(input) /\ w + c <= o PROVE FALSE
      OBVIOUS
    <3>1. result' \in {"err", "running"}
      BY <1>1, <2>1, <2>2 DEF WriteChar
    <3> QED
      BY <3>1
  <2>4. /\ p \in 0 .. n - 1 /\ p \in 0 .. n
        /\ c = 2 => p + 1 < n
    <3>1. p \in 0 .. n - 1
      BY <2>1
    <3> QED
      BY <1>1, <1>2, <2>2, <3>1, BytesOfPath
  <2>5. p + c <= Len(input)
    <3>1. p + c <= n
      BY <2>1, <2>4
    <3>2. PICK m \in Nat : m = Len(input) /\ n < m
      BY <1>1, <1>2, PathIs
    <3> QED
      BY <3>1, <3>2
  <2>6. c = 2
    BY <1>2, <2>3, <2>5
  <2>7. ~RoomForInput
    <3>1. ~(o > n)
      BY <1>2, <2>3, <2>4, <2>5, <2>6
    <3> QED
      BY <1>1, <3>1 DEF RoomForInput, length
  <2>8. LEAD \in Range(Path)
    <3>1. Path[p + 1] = LEAD
      BY <1>1, <1>2, <2>2, <2>4, <2>6, BytesOfPath
    <3>2. p + 1 \in DOMAIN Path
      <4>1. DOMAIN Path = 1 .. n
        BY <1>1, <1>2, PathIs, LenProperties DEF length
      <4> QED
        BY <2>4, <4>1
    <3> QED
      BY <3>1, <3>2 DEF Range
  <2> QED
    BY <2>7, <2>8
<1>8. ~SkipRelativeRef /\ ~Finish
  BY DEF SkipRelativeRef, Finish, Running
<1> HIDE DEF Excused
<1> QED
  BY <1>1, <1>4, <1>5, <1>6, <1>7, <1>8 DEF Step

LEMMA FrontOfAppend ==
    ASSUME NEW S, NEW s \in Seq(S), NEW e \in S
    PROVE  Front(Append(s, e)) = s
<1>1. PICK t \in Seq(S) : t = Append(s, e) /\ t # <<>>
  BY AppendProperties
<1>2. /\ Front(t) \in Seq(S) /\ t[Len(t)] \in S /\ t = Append(Front(t), t[Len(t)])
  BY <1>1, FrontIs
<1> QED
  BY <1>1, <1>2, AppendInjective

EndsApart(root, names, name) ==
    root \o (names \o Append(name, SEP)) = Append((root \o names) \o name, SEP)

LEMMA SeparatorLast ==
    ASSUME NEW root \in Seq(Bytes), NEW names \in Seq(Bytes), NEW name \in Seq(Bytes)
    PROVE  EndsApart(root, names, name)
<1>1. SEP \in Bytes /\ <<SEP>> \in Seq(Bytes)
  BY DEF Bytes
<1>2. PICK last \in Seq(Bytes) : last = Append(name, SEP) /\ last = name \o <<SEP>>
  BY <1>1, AppendIsConcat, AppendProperties
<1>3. Associates(root, names, last)
  BY ConcatAssociates
<1>4. PICK base \in Seq(Bytes) : base = root \o names
  BY ConcatProperties
<1>5. Associates(base, name, <<SEP>>)
  BY <1>1, ConcatAssociates
<1>6. base \o name \in Seq(Bytes)
  BY ConcatProperties
<1>7. Append(base \o name, SEP) = (base \o name) \o <<SEP>>
  BY <1>1, <1>6, AppendIsConcat
<1> QED
  BY <1>2, <1>3, <1>4, <1>5, <1>7 DEF Associates, EndsApart

\* A call that finds the terminator has written the normal form.
LEMMA FinishIsNormal ==
    ASSUME StaysInPath, Types, ScanInv, NoReferenceCopied, OutputIsReading, EndsInReference,
           Running, Step, result' = "ok"
    PROVE  /\ input' = input /\ above' = above /\ out'[write_pos'] = NUL
           /\ (above /\ SingleSeparators) =>
                  Output' = NormalForm(Path) /\ ~Resolve(Path).above
<1>1. PICK n \in Nat, p \in Nat, w \in Nat, o \in Nat :
          n = length /\ p = scan_pos /\ w = write_pos /\ o = out_len
  BY Situation
<1>2. Finish /\ InPath(p)
  BY <1>1 DEF Step, CopySeparator, CopyChar, SkipRelativeRef, FollowParentRef, PopComponent,
         WriteChar, LeaveObjects, Running, ScanInv
<1>3. /\ Byte(p) = NUL /\ input' = input /\ above' = above /\ write_pos' = w
      /\ out' = [out EXCEPT ![w] = NUL]
  BY <1>1, <1>2 DEF Finish, arguments
<1>4. w < o /\ out \in [0 .. o - 1 -> Bytes \cup {JUNK}] /\ p <= n + 1 /\ input \in Inputs
  BY <1>1, Situation
<1>5. out'[w] = NUL /\ \A i \in 1 .. w : out'[i - 1] = out[i - 1]
  <2>1. w \in 0 .. o - 1 /\ \A i \in 1 .. w : i - 1 \in 0 .. o - 1 /\ i - 1 # w
    BY <1>4
  <2> QED
    BY <1>3, <1>4, <2>1
<1>6. Output' = Output
  BY <1>1, <1>3, <1>5 DEF Output
<1>7. p = n \/ p = n + 1
  <2>1. ~(p < n)
    BY <1>1, <1>3, <1>4, BytesOfPath
  <2> QED
    BY <1>4, <2>1
<1>8. ASSUME above, SingleSeparators
      PROVE  Output = NormalForm(Path) /\ ~Resolve(Path).above
  <2>1. ShownAt(read, p, out, w)
    BY <1>1, <1>8, ShownIs
  <2>2. read \in Readings /\ read = At(p) /\ read.name \in Seq(Plain)
        /\ read.kept \in Seq(Named)
    BY <1>1, Situation DEF read, Named
  <2>3. Output = Body(read, p)
    <3>1. Body(read, p) \in Seq(Bytes)
      BY <2>2, BodyIs
    <3> QED
      BY <1>1, <2>1, <3>1, WrittenIs DEF Output, ShownAt
  <2>4. RootAt(p) = IF Absolute(Path) THEN <<SEP>> ELSE <<>>
    <3>1. Absolute(Path) <=> Byte(0) = SEP
      BY <1>4, AbsoluteIs
    <3>2. Byte(0) = SEP => p > 0
      BY <1>3, ByteFacts
    <3> QED
      BY <3>1, <3>2 DEF RootAt
  <2>5. \A names \in Seq(Bytes) :
            RootAt(p) \o names = IF Absolute(Path) THEN <<SEP>> \o names ELSE names
    BY <2>4, ConcatEmptySeq
  <2>6. CASE read.name = <<>>
    <3>1. Resolve(Path) = read
      <4>1. CASE p = n
        BY <1>1, <1>4, <2>2, <2>6, <4>1, AtIs, CloseIs DEF Resolve
      <4>2. CASE p = n + 1
        BY <1>1, <1>4, <2>2, <4>2, AtIs
      <4> QED
        BY <1>7, <4>1, <4>2
    <3>2. ~EndsInName(Path)
      <4>1. CASE p = n
        <5>1. Read(Path) = read
          BY <1>1, <1>4, <2>2, <4>1, AtIs
        <5> QED
          BY <2>6, <5>1 DEF EndsInName
      <4>2. CASE p = n + 1
        BY <1>1, <4>2 DEF EndsInReference, EndsInName
      <4> QED
        BY <1>7, <4>1, <4>2
    <3>3. PICK names \in Seq(Bytes) : names = Terminated(read.kept)
      BY <2>2, BodyIs
    <3>4. NormalForm(Path) = RootAt(p) \o names
      BY <2>5, <3>1, <3>2, <3>3 DEF NormalForm
    <3>5. Body(read, p) = RootAt(p) \o names
      BY <2>2, <2>6, <3>3, BodyIs, ConcatEmptySeq DEF Body, Base
    <3> QED
      BY <2>1, <2>3, <3>1, <3>4, <3>5 DEF ShownAt
  <2>7. CASE read.name # <<>>
    <3>1. p = n
      BY <1>1, <1>7, <2>7, Situation
    <3>2. read = Read(Path)
      BY <1>1, <1>4, <2>2, <3>1, AtIs
    <3>3. read.name \notin {Self, Parent}
      BY <1>1, <1>3 DEF NoReferenceCopied, Ahead
    <3>4. EndsInName(Path)
      BY <2>7, <3>2, <3>3 DEF EndsInName
    <3>5. Resolve(Path).kept = Append(read.kept, read.name) /\ Resolve(Path).above = read.above
      BY <2>2, <2>7, <3>2, <3>3, CloseIs DEF Resolve
    <3>6. RootAt(p) \o (Terminated(read.kept) \o Append(read.name, SEP))
              = Append((RootAt(p) \o Terminated(read.kept)) \o read.name, SEP)
      <4>1. /\ RootAt(p) \in Seq(Bytes) /\ Terminated(read.kept) \in Seq(Bytes)
            /\ read.name \in Seq(Bytes)
        BY <2>2, BodyIs
      <4>2. EndsApart(RootAt(p), Terminated(read.kept), read.name)
        BY <4>1, SeparatorLast
      <4> QED
        BY <4>2 DEF EndsApart
    <3>7. PICK root \in Seq(Bytes), names \in Seq(Bytes), base \in Seq(Bytes),
               name \in Seq(Bytes), body \in Seq(Bytes) :
              /\ root = RootAt(p) /\ names = Terminated(read.kept) /\ base = root \o names
              /\ name = read.name /\ body = base \o name /\ body = Body(read, p)
      BY <2>2, BodyIs DEF Body, Base
    <3>8. SEP \in Bytes
      BY DEF Bytes
    <3>9. PICK last \in Seq(Bytes) : last = Append(name, SEP)
      BY <3>8, AppendProperties
    <3>10. Terminated(Resolve(Path).kept) = names \o last
      <4>1. read.name \in Named
        BY <2>2, <2>7 DEF Named
      <4> QED
        BY <2>2, <3>5, <3>7, <3>9, <4>1, TerminatedIs
    <3>11. PICK closed \in Seq(Bytes) : closed = names \o last
      BY ConcatProperties
    <3>12. NormalForm(Path) = Front(root \o closed)
      BY <2>5, <3>4, <3>7, <3>10, <3>11 DEF NormalForm
    <3>13. root \o closed = Append(body, SEP)
      BY <3>6, <3>7, <3>9, <3>11
    <3>14. Front(Append(body, SEP)) = body
      BY <3>8, FrontOfAppend
    <3> QED
      BY <2>1, <2>3, <3>5, <3>7, <3>12, <3>13, <3>14 DEF ShownAt
  <2> QED
    BY <2>6, <2>7
<1> QED
  BY <1>3, <1>5, <1>6, <1>8
-----------------------------------------------------------------------------
\* The inductive invariant of the whole call.

Answers ==
    /\ result = "ok" => /\ out[write_pos] = NUL
                        /\ (above /\ SingleSeparators) =>
                               Output = NormalForm(Path) /\ ~Resolve(Path).above
    /\ result = "invalid_path" => Resolve(Path).above
    /\ result = "undefined" => \/ above /\ ~KeepsFirst
                               \/ ~RoomForInput /\ LEAD \in Range(Path)

CallInv == Types /\ ScanInv /\ ReadInv /\ EndsInReference /\ Answers

\* What the answers are about does not change.
LEMMA AnswersKept ==
    ASSUME input' = input, above' = above, out_len' = out_len
    PROVE  /\ SingleSeparators' = SingleSeparators /\ NormalForm(Path)' = NormalForm(Path)
           /\ Resolve(Path)' = Resolve(Path) /\ KeepsFirst' = KeepsFirst
           /\ RoomForInput' = RoomForInput /\ Range(Path)' = Range(Path)
<1>1. Path' = Path
  BY LengthKept
<1> QED
  BY <1>1 DEF SingleSeparators, KeepsFirst, RoomForInput

LEMMA StepKeepsAnswers ==
    ASSUME StaysInPath, CallInv, Step
    PROVE  ReadInv' /\ EndsInReference' /\ Answers'
<1>1. /\ Types /\ ScanInv /\ NoReferenceCopied /\ KeptInOutput /\ FirstInOutput
      /\ OutputIsReading /\ EndsInReference /\ Running
  BY DEF CallInv, ReadInv, Step
<1>2. Types'
  BY <1>1, StepKeepsInv
<1>3. above' = above /\ input' = input /\ out_len' = out_len
  BY DEF Step, CopySeparator, CopyChar, SkipRelativeRef, FollowParentRef, PopComponent,
         WriteChar, LeaveObjects, Finish, arguments
<1>4. CASE Running'
  <2>1. Goes
    BY <1>1, <1>4, StepGoes
  <2>2. NoReferenceCopied'
    BY <1>1, <1>3, <2>1, NoReferenceStep
  <2>3. KeptInOutput'
    BY <1>1, <1>3, <2>1, KeptStep
  <2>4. FirstInOutput'
    BY <1>1, <1>3, <2>1, FirstStep
  <2>5. OutputIsReading'
    BY <1>1, <1>2, <1>3, <2>1, OutputStep
  <2>6. EndsInReference'
    BY <1>1, <1>3, <2>1, EndStep
  <2>7. Answers'
    BY <1>4 DEF Answers, Running
  <2> QED
    BY <2>2, <2>3, <2>4, <2>5, <2>6, <2>7 DEF ReadInv
<1>5. CASE ~Running'
  <2>1. ReadInv' /\ EndsInReference'
    BY <1>5 DEF ReadInv, NoReferenceCopied, KeptInOutput, FirstInOutput, OutputIsReading,
                EndsInReference
  <2>2. CASE result' = "ok"
    <3>1. /\ out'[write_pos'] = NUL
          /\ (above /\ SingleSeparators) => Output' = NormalForm(Path) /\ ~Resolve(Path).above
      BY <1>1, <2>2, FinishIsNormal
    <3>2. out[write_pos]' = out'[write_pos']
      OBVIOUS
    <3>3. Answers'
      BY <1>3, <2>2, <3>1, <3>2, AnswersKept DEF Answers
    <3> QED
      BY <2>1, <3>3
  <2>3. CASE result' = "invalid_path"
    <3>1. Resolve(Path).above
      BY <1>1, <2>3, InvalidClimbs
    <3>2. Answers'
      BY <1>3, <2>3, <3>1, AnswersKept DEF Answers
    <3> QED
      BY <2>1, <3>2
  <2>4. CASE result' = "undefined"
    <3>1. \/ above /\ ~KeepsFirst
          \/ ~RoomForInput /\ LEAD \in Range(Path)
      BY <1>1, <2>4, UndefinedExcused
    <3>2. Answers'
      BY <1>3, <2>4, <3>1, AnswersKept DEF Answers
    <3> QED
      BY <2>1, <3>2
  <2>5. CASE result' \notin {"ok", "invalid_path", "undefined"}
    BY <2>1, <2>5 DEF Answers
  <2> QED
    BY <2>2, <2>3, <2>4, <2>5
<1> QED
  BY <1>4, <1>5

LEMMA CallKeepsAnswers ==
    ASSUME StaysInPath, CallInv, NEW null \in BOOLEAN, Call(null)
    PROVE  ReadInv' /\ EndsInReference' /\ Answers'
<1>1. /\ scan_pos = 0 /\ write_pos = 0 /\ result' \in {"invalid_parameter", "running"}
      /\ UNCHANGED <<input, above, out_len, out, scan_pos, write_pos>>
      /\ Types /\ input \in Inputs
  BY DEF Call, CallInv, ScanInv, Types, arguments
<1>2. Types'
  BY CallKeepsInv DEF CallInv
<1>3. Answers'
  BY <1>1 DEF Answers
<1>4. read' = Nothing
  BY <1>1, PathKept, AtIs
<1>5. Len(<<>>) = 0
  BY EmptySeq
<1>6. NoReferenceCopied'
  <2>1. <<>> # Self /\ <<>> # Parent
    <3>1. <<>> \in Seq(Plain)
      BY EmptySeq
    <3> QED
      BY <3>1, ReferencesAre
  <2> QED
    BY <1>4, <2>1, NothingIs DEF NoReferenceCopied
<1>7. KeptInOutput'
  <2>1. [i \in 1 .. 0 |-> 0] \in [1 .. 0 -> Nat] /\ \A i \in 1 .. 0 : FALSE
    OBVIOUS
  <2>2. \E ends \in [1 .. 0 -> Nat] : TRUE
    BY <2>1
  <2>3. PICK ends \in [1 .. 0 -> Nat] : TRUE
    BY <2>2
  <2>4. read'.kept = <<>> /\ read'.name = <<>> /\ write_pos' = 0 /\ Len(read'.kept) = 0
    BY <1>1, <1>4, <1>5, NothingIs
  <2>5. /\ \A i \in 1 .. Len(read'.kept) :
              ends[i] >= 2 /\ ends[i] + Len(read'.name) <= write_pos' /\ out'[ends[i] - 1] = SEP
        /\ \A i, j \in 1 .. Len(read'.kept) : i < j => ends[i] + 2 <= ends[j]
    BY <2>1, <2>4
  <2>6. Len(read'.name) <= write_pos'
    BY <1>5, <2>4
  <2>7. \E some \in [1 .. Len(read'.kept) -> Nat] : SeparatorsFor(read, some)'
    BY <2>4, <2>5 DEF SeparatorsFor
  <2> QED
    BY <2>6, <2>7 DEF KeptInOutput
<1>8. FirstInOutput'
  <2>1. \A k \in 0 .. 0 - 1 - 0 : FALSE
    OBVIOUS
  <2> QED
    BY <1>1, <1>4, <1>5, <2>1, NothingIs DEF FirstInOutput
<1>9. OutputIsReading'
  <2>1. read' \in Readings
    BY <1>4, NothingIs
  <2>2. ShownAt(Nothing, 0, out', 0)
    <3>1. RootAt(0) = <<>>
      BY DEF RootAt
    <3>2. Body(Nothing, 0) = <<>>
      <4>1. <<>> \in Seq(Bytes)
        BY EmptySeq
      <4> QED
        BY <3>1, <4>1, NothingIs, TerminatedGrows, ConcatEmptySeq DEF Body, Base
    <3>3. Shows(out', 0, <<>>)
      BY <1>5 DEF Shows
    <3> QED
      BY <3>2, <3>3, NothingIs DEF ShownAt
  <2> QED
    BY <1>1, <1>2, <1>4, <2>1, <2>2, ShownNext
<1>10. EndsInReference'
  <2>1. length' = length /\ length \in Nat
    BY <1>1, LengthKept, PathIs
  <2>2. scan_pos' # length' + 1
    BY <1>1, <2>1
  <2> QED
    BY <2>2 DEF EndsInReference
<1> QED
  BY <1>3, <1>6, <1>7, <1>8, <1>9, <1>10 DEF ReadInv

LEMMA CallInvHolds == Spec => [](StaysInPath => CallInv)
<1>1. Init /\ Types /\ ScanInv => CallInv
  BY DEF Init, CallInv, ReadInv, NoReferenceCopied, KeptInOutput, FirstInOutput,
         OutputIsReading, EndsInReference, Answers, Running
<1> DEFINE Inv == Types /\ (StaysInPath => ScanInv)
<1>2. (StaysInPath => CallInv) /\ [Next]_vars /\ Inv' => (StaysInPath => CallInv)'
  <2> SUFFICES ASSUME StaysInPath => CallInv, [Next]_vars, Inv', StaysInPath' PROVE CallInv'
    OBVIOUS
  <2>3. StaysInPath /\ CallInv /\ Types' /\ ScanInv'
    BY InputKept, LengthKept
  <2> HIDE DEF Inv
  <2>1. CASE UNCHANGED vars
    <3>1. input' = input /\ above' = above /\ out_len' = out_len /\ out' = out
          /\ scan_pos' = scan_pos /\ write_pos' = write_pos /\ result' = result
      BY <2>1 DEF vars, arguments
    <3>2. /\ read' = read /\ length' = length /\ Path' = Path /\ Output' = Output
          /\ Absolute(Path)' = Absolute(Path) /\ SingleSeparators' = SingleSeparators
      BY <3>1, PathKept DEF read, Output
    <3>3. NoReferenceCopied'
      BY <2>3, <3>1, <3>2 DEF CallInv, ReadInv, NoReferenceCopied, Running, Ahead, Byte
    <3>4. KeptInOutput'
      BY <2>3, <3>1, <3>2 DEF CallInv, ReadInv, KeptInOutput, SeparatorsFor, Running
    <3>5. FirstInOutput'
      BY <2>3, <3>1, <3>2 DEF CallInv, ReadInv, FirstInOutput, Running
    <3>6. OutputIsReading'
      BY <2>3, <3>1, <3>2 DEF CallInv, ReadInv, OutputIsReading, Running, Root, Byte
    <3>7. EndsInReference'
      BY <2>3, <3>1, <3>2 DEF CallInv, EndsInReference, Running
    <3>8. Answers'
      BY <2>3, <3>1, <3>2, AnswersKept DEF CallInv, Answers
    <3> QED
      BY <2>3, <3>3, <3>4, <3>5, <3>6, <3>7, <3>8 DEF CallInv, ReadInv
  <2>2. CASE Next
    <3>1. ReadInv' /\ EndsInReference' /\ Answers'
      BY <2>2, <2>3, StepKeepsAnswers, CallKeepsAnswers DEF Next
    <3> QED
      BY <2>3, <3>1 DEF CallInv
  <2> QED
    BY <2>1, <2>2
<1> QED
  BY <1>1, <1>2, ScanInvHolds, PTL DEF Spec

\* A call that succeeds has written the normal form of its input, when the scan stays
\* in the path, the output lies above the input and no separators follow a dot
\* component, whatever is behind the path in its object (filesystem.h:27,
\* filepath.c:45-67).
THEOREM NormalizedWhenGood == Spec => []GoodCallsNormal
<1>1. (StaysInPath => CallInv) => GoodCallsNormal
  BY DEF CallInv, Answers, GoodCallsNormal, OkMeansNormal
<1> QED
  BY <1>1, CallInvHolds, PTL

\* A scan that stays in the path refuses it as invalid only when it climbs above its
\* root, and one that does never succeeds (filepath.c:55-60).
THEOREM InvalidOnlyAboveRoot == Spec => []InvalidMeansAboveRoot
<1>1. (StaysInPath => CallInv) => InvalidMeansAboveRoot
  BY DEF CallInv, Answers, InvalidMeansAboveRoot, OnlyAboveRootInvalid, ClimbsAboveRoot
<1> QED
  BY <1>1, CallInvHolds, PTL

\* The call stays inside its two objects but for the kinds of path and output that it
\* does not look out for (filepath.c:51-66, 79).
THEOREM GoodCallsStayInBounds == Spec => []GoodCallsInBounds
<1>1. (StaysInPath => CallInv) => GoodCallsInBounds
  BY DEF CallInv, Answers, GoodCallsInBounds, InBounds
<1> QED
  BY <1>1, CallInvHolds, PTL
-----------------------------------------------------------------------------
\* A normal form is its own normal form, and no longer than its path.

LEMMA AppendInduction ==
    ASSUME NEW S, NEW T, <<>> \in T,
           \A s \in Seq(S), e \in S : s \in T => Append(s, e) \in T
    PROVE  Seq(S) \subseteq T
<1> DEFINE N == {n \in Nat : \A s \in Seq(S) : Len(s) = n => s \in T}
<1>1. 0 \in N
  <2>1. \A s \in Seq(S) : Len(s) = 0 => s = <<>>
    BY EmptySeq
  <2> QED
    BY <2>1
<1>2. ASSUME NEW n \in Nat, n \in N PROVE n + 1 \in N
  <2>1. ASSUME NEW s \in Seq(S), Len(s) = n + 1 PROVE s \in T
    <3>1. s # <<>>
      BY <2>1, EmptySeq
    <3>2. PICK f, e : f \in Seq(S) /\ e \in S /\ s = Append(f, e) /\ Len(f) = (n + 1) - 1
      BY <2>1, <3>1, FrontIs
    <3>3. Len(f) = n
      BY <3>2, (n + 1) - 1 = n
    <3>4. f \in T
      BY <1>2, <3>2, <3>3
    <3> QED
      BY <3>2, <3>4
  <2> QED
    BY <2>1
<1> HIDE DEF N
<1>3. Nat \subseteq N
  BY <1>1, <1>2, Induction
<1> USE DEF N
<1>4. ASSUME NEW s \in Seq(S) PROVE s \in T
  <2>1. Len(s) \in Nat
    BY LenProperties
  <2> QED
    BY <1>3, <2>1
<1> QED
  BY <1>4

LEMMA ReadGrows ==
    ASSUME NEW s \in Seq(Bytes), NEW c \in Bytes
    PROVE  Read(Append(s, c)) = ReadChar(Read(s), c)
<1>1. PICK n \in Nat : n = Len(s)
  BY LenProperties
<1>2. PICK t : t = Append(s, c)
  OBVIOUS
<1>3. Len(t) = n + 1 /\ t[n + 1] = c /\ \A i \in 1 .. n : t[i] = s[i]
  BY <1>1, <1>2, AppendProperties
<1>4. PICK R, Q : R = Reading(s) /\ Q = Reading(t)
  OBVIOUS
<1>5. R[0] = Nothing /\ \A i \in 1 .. n : R[i] = ReadChar(R[i - 1], s[i])
  BY <1>1, <1>4, ReadingUnfolds
<1>6. Q[0] = Nothing /\ \A i \in 1 .. n + 1 : Q[i] = ReadChar(Q[i - 1], t[i])
  BY <1>3, <1>4, ReadingUnfolds
<1> DEFINE T == {i \in Nat : i <= n => Q[i] = R[i]}
<1>7. 0 \in T
  BY <1>5, <1>6
<1>8. ASSUME NEW i \in Nat, i \in T PROVE i + 1 \in T
  <2>1. CASE i + 1 <= n
    <3>1. i <= n /\ i + 1 \in 1 .. n /\ i + 1 \in 1 .. n + 1 /\ (i + 1) - 1 = i
      BY <2>1
    <3>2. Q[i] = R[i] /\ t[i + 1] = s[i + 1]
      BY <1>3, <1>8, <3>1
    <3>3. R[i + 1] = ReadChar(R[i], s[i + 1])
      BY <1>5, <3>1
    <3>4. Q[i + 1] = ReadChar(Q[i], t[i + 1])
      BY <1>6, <3>1
    <3> QED
      BY <3>2, <3>3, <3>4
  <2> QED
    BY <2>1
<1> HIDE DEF T
<1>9. Nat \subseteq T
  BY <1>7, <1>8, Induction
<1> USE DEF T
<1>10. Q[n] = R[n]
  BY <1>9
<1>11. n + 1 \in 1 .. n + 1 /\ (n + 1) - 1 = n
  OBVIOUS
<1>12. Q[n + 1] = ReadChar(Q[n], t[n + 1])
  BY <1>6, <1>11
<1> QED
  BY <1>1, <1>2, <1>3, <1>4, <1>10, <1>12 DEF Read

LEMMA ReadOfNothing == Read(<<>>) = Nothing
  BY EmptySeq, ReadingUnfolds DEF Read

\* A name that is no reference.
Proper == Seq(Plain) \ {<<>>, Self, Parent}

LEMMA ProperNames ==
    /\ Proper \subseteq Named /\ Seq(Proper) \subseteq Seq(Named)
    /\ Plain \subseteq Bytes /\ Seq(Plain) \subseteq Seq(Bytes) /\ SEP \in Bytes
<1>1. Proper \subseteq Named /\ Plain \subseteq Bytes /\ SEP \in Bytes
  BY DEF Proper, Named, Plain, Bytes
<1> QED
  BY <1>1, SeqMonotonic

\* The first components keep their places when one more is written.
LEMMA TerminatedLonger ==
    ASSUME NEW kept \in Seq(Named), NEW name \in Named
    PROVE  /\ Terminated(kept) \in Seq(Bytes) /\ Len(Terminated(kept)) \in Nat
           /\ Len(name) \in Nat
           /\ Len(Terminated(Append(kept, name))) = Len(Terminated(kept)) + Len(name) + 1
<1>1. name \in Seq(Bytes) /\ SEP \in Bytes
  BY ProperNames DEF Named
<1>2. PICK last \in Seq(Bytes) : last = Append(name, SEP) /\ Len(last) = Len(name) + 1
  BY <1>1, AppendProperties
<1>3. PICK all \in Seq(Bytes) : all = Terminated(kept)
  BY TerminatedIs
<1>4. Len(all) \in Nat /\ Len(name) \in Nat
  BY <1>1, LenProperties
<1>5. Len(all \o last) = Len(all) + Len(last)
  BY ConcatProperties
<1>6. Terminated(Append(kept, name)) = all \o last
  BY <1>2, <1>3, TerminatedIs
<1> QED
  BY <1>2, <1>3, <1>4, <1>5, <1>6

LEMMA CloseBounded ==
    ASSUME NEW r \in Readings, r.kept \in Seq(Proper)
    PROVE  /\ Close(r).kept \in Seq(Proper)
           /\ Len(Terminated(r.kept)) \in Nat /\ Len(r.name) \in Nat
           /\ Len(Terminated(Close(r).kept)) \in Nat
           /\ Len(Terminated(Close(r).kept)) <= Len(Terminated(r.kept)) + Len(r.name) + 1
           /\ r.name \in {<<>>, Self, Parent} =>
                  Len(Terminated(Close(r).kept)) <= Len(Terminated(r.kept))
<1>1. r.name \in Seq(Plain) /\ r.kept \in Seq(Named)
  BY ProperNames DEF Readings
<1>2. Len(Terminated(r.kept)) \in Nat /\ Len(r.name) \in Nat
  <2>1. Terminated(r.kept) \in Seq(Bytes)
    BY <1>1, TerminatedIs
  <2> QED
    BY <1>1, <2>1, LenProperties
<1>6. PICK b \in Nat, d \in Nat : b = Len(Terminated(r.kept)) /\ d = Len(r.name)
  BY <1>2
<1>3. CASE Close(r).kept = r.kept
  <2>1. b <= b + d + 1 /\ b <= b
    OBVIOUS
  <2>2. Len(Terminated(Close(r).kept)) = b /\ Close(r).kept \in Seq(Proper)
    BY <1>6, <1>3
  <2> QED
    BY <1>6, <2>1, <2>2
<1>4. CASE r.name = Parent /\ r.kept # <<>>
  <2>1. PICK f, e : f \in Seq(Proper) /\ e \in Proper /\ r.kept = Append(f, e) /\ f = Front(r.kept)
    BY <1>4, FrontIs
  <2>2. Close(r).kept = f
    BY <1>4, <2>1, CloseIs
  <2>3. f \in Seq(Named) /\ e \in Named
    BY <2>1, ProperNames
  <2>4. PICK x \in Nat, y \in Nat : /\ x = Len(Terminated(f)) /\ y = Len(e)
                                    /\ Len(Terminated(r.kept)) = x + y + 1
    BY <2>1, <2>3, TerminatedLonger
  <2>5. x <= b /\ x <= b + d + 1
    <3>1. b = x + y + 1
      BY <1>6, <2>4, Zenon
    <3> QED
      BY <3>1
  <2>6. Len(Terminated(Close(r).kept)) = x /\ Close(r).kept \in Seq(Proper)
    BY <2>1, <2>2, <2>4
  <2> QED
    BY <1>6, <2>5, <2>6
<1>5. CASE r.name \notin {<<>>, Self, Parent}
  <2>1. r.name \in Proper /\ r.name \in Named
    BY <1>1, <1>5 DEF Proper, Named
  <2>2. Close(r).kept = Append(r.kept, r.name)
    BY <1>5, CloseIs
  <2>3. Append(r.kept, r.name) \in Seq(Proper)
    BY <2>1, AppendProperties
  <2>4. Len(Terminated(Append(r.kept, r.name))) = Len(Terminated(r.kept)) + Len(r.name) + 1
    BY <1>1, <2>1, TerminatedLonger
  <2>5. Len(Terminated(Close(r).kept)) = b + d + 1 /\ Close(r).kept \in Seq(Proper)
    BY <1>6, <2>2, <2>3, <2>4
  <2>6. b + d + 1 <= b + d + 1 /\ b + d + 1 \in Nat
    OBVIOUS
  <2> QED
    BY <1>6, <1>5, <2>5, <2>6
<1> QED
  BY <1>3, <1>4, <1>5, CloseIs

RootOf(s) == IF Absolute(s) THEN <<SEP>> ELSE <<>>

LEMMA RootIs ==
    /\ RootOf(<<>>) = <<>>
    /\ \A s \in Seq(Bytes) : RootOf(s) \in Seq(Bytes) /\ Len(RootOf(s)) \in Nat
    /\ \A s \in Seq(Bytes), c \in Bytes :
           IF s = <<>> THEN Len(RootOf(Append(s, c))) <= 1 /\ (c # SEP => RootOf(Append(s, c)) = <<>>)
                       ELSE RootOf(Append(s, c)) = RootOf(s)
<1>1. <<SEP>> \in Seq(Bytes) /\ <<>> \in Seq(Bytes) /\ Len(<<SEP>>) = 1 /\ Len(<<>>) = 0
  BY ProperNames, EmptySeq
<1>2. RootOf(<<>>) = <<>>
  BY DEF RootOf, Absolute
<1>3. ASSUME NEW s \in Seq(Bytes), NEW c \in Bytes
      PROVE  IF s = <<>> THEN Len(RootOf(Append(s, c))) <= 1 /\ (c # SEP => RootOf(Append(s, c)) = <<>>)
                         ELSE RootOf(Append(s, c)) = RootOf(s)
  <2>1. /\ Append(s, c) # <<>> /\ \A i \in 1 .. Len(s) : Append(s, c)[i] = s[i]
        /\ Append(s, c)[Len(s) + 1] = c
    BY AppendProperties
  <2>2. CASE s = <<>>
    <3>1. Append(s, c)[1] = c
      BY <1>1, <2>1, <2>2
    <3> QED
      BY <1>1, <2>1, <2>2, <3>1 DEF RootOf, Absolute
  <2>3. CASE s # <<>>
    <3>1. 1 \in 1 .. Len(s)
      BY <2>3, EmptySeq, LenProperties
    <3>2. Append(s, c)[1] = s[1]
      BY <2>1, <3>1
    <3> QED
      BY <2>1, <2>3, <3>2 DEF RootOf, Absolute
  <2> QED
    BY <2>2, <2>3
<1>4. ASSUME NEW s \in Seq(Bytes) PROVE RootOf(s) \in Seq(Bytes) /\ Len(RootOf(s)) \in Nat
  BY <1>1 DEF RootOf
<1> QED
  BY <1>2, <1>3, <1>4

\* No reference is kept, and what has been read is no longer than what it was read from.
ReadsLess(s) ==
    /\ Read(s) \in Readings /\ Read(s).kept \in Seq(Proper)
    /\ Len(RootOf(s)) + Len(Terminated(Read(s).kept)) + Len(Read(s).name) <= Len(s)

LEMMA ReadingNoLonger == ASSUME NEW path \in Seq(Bytes) PROVE ReadsLess(path)
<1> DEFINE T == {s \in Seq(Bytes) : ReadsLess(s)}
<1>1. <<>> \in T
  <2>1. /\ Nothing \in Readings /\ Nothing.kept = <<>> /\ Nothing.name = <<>>
        /\ Terminated(<<>>) = <<>> /\ Len(<<>>) = 0
    BY NothingIs, TerminatedGrows, EmptySeq
  <2>2. <<>> \in Seq(Bytes) /\ <<>> \in Seq(Proper)
    BY EmptySeq
  <2>3. Len(RootOf(<<>>)) = 0
    BY <2>1, RootIs
  <2>4. 0 + 0 + 0 <= 0
    OBVIOUS
  <2>5. ReadsLess(<<>>)
    BY <2>1, <2>2, <2>3, <2>4, ReadOfNothing DEF ReadsLess
  <2> QED
    BY <2>2, <2>5
<1>2. ASSUME NEW s \in Seq(Bytes), NEW c \in Bytes, s \in T PROVE Append(s, c) \in T
  <2>1. PICK r \in Readings : r = Read(s) /\ r.kept \in Seq(Proper)
    BY <1>2 DEF ReadsLess
  <2>2. PICK n \in Nat, a \in Nat, b \in Nat, d \in Nat :
            /\ n = Len(s) /\ a = Len(RootOf(s)) /\ b = Len(Terminated(r.kept)) /\ d = Len(r.name)
            /\ a + b + d <= n
    <3>1. Len(s) \in Nat /\ Len(RootOf(s)) \in Nat
      BY LenProperties, RootIs
    <3> QED
      BY <1>2, <2>1, <3>1, CloseBounded DEF ReadsLess
  <2>3. Append(s, c) \in Seq(Bytes) /\ Len(Append(s, c)) = n + 1
    BY <2>2, AppendProperties
  <2>4. PICK e \in Nat : e = Len(RootOf(Append(s, c))) /\ (c # SEP => e <= a) /\ (e <= a \/ (n = 0 /\ e <= 1))
    <3>1. Len(RootOf(Append(s, c))) \in Nat
      BY <2>3, RootIs
    <3>2. CASE s = <<>>
      <4>1. n = 0 /\ Len(<<>>) = 0
        BY <2>2, <3>2, EmptySeq
      <4>2. /\ Len(RootOf(Append(s, c))) <= 1
            /\ c # SEP => RootOf(Append(s, c)) = <<>>
        BY <3>2, RootIs
      <4>3. PICK e \in Nat : e = Len(RootOf(Append(s, c)))
        BY <3>1
      <4>4. e <= 1 /\ (c # SEP => e <= a)
        BY <4>1, <4>2, <4>3
      <4> QED
        BY <4>1, <4>3, <4>4
    <3>3. CASE s # <<>>
      BY <2>2, <3>1, <3>3, RootIs
    <3> QED
      BY <3>2, <3>3
  <2>5. Read(Append(s, c)) = ReadChar(r, c)
    BY <2>1, ReadGrows
  <2>6. CASE c = SEP
    <3>1. Read(Append(s, c)) = Close(r)
      BY <2>5, <2>6 DEF ReadChar
    <3>2. Close(r) \in Readings /\ Close(r).name = <<>> /\ Len(<<>>) = 0
      BY CloseIs, EmptySeq
    <3>3. PICK f \in Nat : /\ f = Len(Terminated(Close(r).kept)) /\ f <= b + d + 1
                           /\ r.name \in {<<>>, Self, Parent} => f <= b
      BY <2>1, <2>2, CloseBounded
    <3>4. Close(r).kept \in Seq(Proper)
      BY <2>1, CloseBounded
    <3>5. n = 0 => d = 0 /\ b = 0 /\ f <= b
      <4>0. a + b + d <= n
        BY <2>2
      <4>1. ASSUME n = 0 PROVE d = 0 /\ b = 0
        BY <4>0, <4>1
      <4>2. d = 0 => r.name = <<>>
        BY <2>2, EmptySeq DEF Readings
      <4> QED
        BY <3>3, <4>1, <4>2
    <3>6. e + f + 0 <= n + 1
      <4>1. a + b + d <= n /\ f <= b + d + 1 /\ (e <= a \/ (n = 0 /\ e <= 1))
        BY <2>2, <2>4, <3>3
      <4> QED
        BY <3>5, <4>1
    <3>7. ReadsLess(Append(s, c))
      BY <2>3, <2>4, <3>1, <3>2, <3>3, <3>4, <3>6 DEF ReadsLess
    <3> QED
      BY <2>3, <3>7
  <2>7. CASE c # SEP
    <3>1. c \in Plain
      BY <2>7 DEF Plain
    <3>2. /\ ReadChar(r, c) \in Readings /\ ReadChar(r, c).kept = r.kept
          /\ Len(ReadChar(r, c).name) = d + 1
      BY <2>2, <3>1, ReadCharIs DEF SameButName
    <3>3. e + b + (d + 1) <= n + 1
      <4>1. a + b + d <= n /\ e <= a
        BY <2>2, <2>4, <2>7
      <4> QED
        BY <4>1
    <3>4. ReadsLess(Append(s, c))
      BY <2>1, <2>2, <2>3, <2>4, <2>5, <3>2, <3>3 DEF ReadsLess
    <3> QED
      BY <2>3, <3>4
  <2> QED
    BY <2>6, <2>7
<1> HIDE DEF T
<1>3. Seq(Bytes) \subseteq T
  BY <1>1, <1>2, AppendInduction
<1> USE DEF T
<1> QED
  BY <1>3

LEMMA AppendBehind ==
    ASSUME NEW s \in Seq(Bytes), NEW f \in Seq(Bytes), NEW e \in Bytes
    PROVE  s \o Append(f, e) = Append(s \o f, e) /\ s \o f \in Seq(Bytes)
<1>1. <<e>> \in Seq(Bytes) /\ s \o f \in Seq(Bytes)
  BY ConcatProperties
<1>2. Append(f, e) = f \o <<e>> /\ Append(s \o f, e) = (s \o f) \o <<e>>
  BY <1>1, AppendIsConcat
<1>3. Associates(s, f, <<e>>)
  BY <1>1, ConcatAssociates
<1> QED
  BY <1>1, <1>2, <1>3 DEF Associates

\* The characters of a name are read into the name.
ReadsOn(s, name) ==
    /\ SameButName(Read(s \o name), Read(s)) /\ Read(s \o name).name = name
    /\ RootOf(s \o name) = RootOf(s)

LEMMA ReadName ==
    ASSUME NEW s \in Seq(Bytes), Read(s).name = <<>>, NEW name \in Seq(Plain)
    PROVE  ReadsOn(s, name)
<1> DEFINE T == {f \in Seq(Plain) : ReadsOn(s, f)}
<1>1. <<>> \in T
  <2>1. s \o <<>> = s /\ <<>> \in Seq(Plain)
    BY ConcatEmptySeq, EmptySeq
  <2>2. ReadsOn(s, <<>>)
    BY <2>1 DEF ReadsOn, SameButName
  <2> QED
    BY <2>1, <2>2
<1>2. ASSUME NEW f \in Seq(Plain), NEW e \in Plain, f \in T PROVE Append(f, e) \in T
  <2>1. f \in Seq(Bytes) /\ e \in Bytes /\ e # SEP /\ Append(f, e) \in Seq(Plain)
    BY ProperNames, AppendProperties DEF Plain
  <2>2. PICK u \in Seq(Bytes) : u = s \o f /\ s \o Append(f, e) = Append(u, e)
    BY <2>1, AppendBehind
  <2>3. ReadsOn(s, f) /\ Read(u) \in Readings
    BY <1>2, ReadingNoLonger DEF ReadsLess
  <2>4. Read(Append(u, e)) = ReadChar(Read(u), e)
    BY <2>1, ReadGrows
  <2>5. SameButName(Read(Append(u, e)), Read(u)) /\ Read(Append(u, e)).name = Append(Read(u).name, e)
    BY <2>3, <2>4, ReadCharIs
  <2>6. RootOf(Append(u, e)) = RootOf(u)
    <3>1. IF u = <<>> THEN (e # SEP => RootOf(Append(u, e)) = <<>>)
                      ELSE RootOf(Append(u, e)) = RootOf(u)
      BY <2>1, RootIs
    <3> QED
      BY <2>1, <3>1, RootIs
  <2>7. ReadsOn(s, Append(f, e))
    BY <2>2, <2>3, <2>5, <2>6 DEF ReadsOn, SameButName
  <2> QED
    BY <2>1, <2>7
<1> HIDE DEF T
<1>3. Seq(Plain) \subseteq T
  BY <1>1, <1>2, AppendInduction
<1> USE DEF T
<1> QED
  BY <1>3

Roots == {<<>>, <<SEP>>}

\* What has been kept is read back from what it comes to.
ReadsBack(root, kept) ==
    /\ Read(root \o Terminated(kept)).kept = kept
    /\ Read(root \o Terminated(kept)).name = <<>>
    /\ ~Read(root \o Terminated(kept)).above
    /\ RootOf(root \o Terminated(kept)) = root

LEMMA RootReads ==
    ASSUME NEW root \in Roots
    PROVE  root \in Seq(Bytes) /\ Read(root) = Nothing /\ RootOf(root) = root
<1>1. <<>> \in Seq(Bytes) /\ SEP \in Bytes /\ Append(<<>>, SEP) = <<SEP>>
  BY EmptySeq, ProperNames
<1>2. Read(<<SEP>>) = ReadChar(Nothing, SEP)
  BY <1>1, ReadGrows, ReadOfNothing
<1>3. ReadChar(Nothing, SEP) = Nothing
  BY NothingIs, CloseIs DEF ReadChar
<1>4. RootOf(<<SEP>>) = <<SEP>>
  BY DEF RootOf, Absolute
<1>5. <<SEP>> \in Seq(Bytes)
  BY <1>1
<1> QED
  BY <1>1, <1>2, <1>3, <1>4, <1>5, ReadOfNothing, RootIs DEF Roots

\* One more name: how it is written and how it is read.
ReadsName(body, root, kept, name) ==
    /\ Append(kept, name) \in Seq(Proper)
    /\ root \o Terminated(Append(kept, name)) = Append(body, SEP)
    /\ Read(body).name = name
    /\ Close(Read(body)).kept = Append(kept, name) /\ Close(Read(body)).name = <<>>
    /\ ~Close(Read(body)).above
    /\ RootOf(body) = root /\ RootOf(Append(body, SEP)) = root
    /\ Len(body) = Len(root) + Len(Terminated(kept)) + Len(name)

LEMMA NameReads ==
    ASSUME NEW root \in Roots, NEW kept \in Seq(Proper), ReadsBack(root, kept),
           NEW name \in Proper
    PROVE  \E body \in Seq(Bytes) : ReadsName(body, root, kept, name)
<1>1. /\ root \in Seq(Bytes) /\ kept \in Seq(Named) /\ name \in Named
      /\ name \in Seq(Plain) /\ name \in Seq(Bytes) /\ SEP \in Bytes
      /\ name \notin {<<>>, Self, Parent}
  BY RootReads, ProperNames DEF Proper
<1>2. PICK names \in Seq(Bytes) : names = Terminated(kept)
  BY <1>1, TerminatedIs
<1>3. PICK base \in Seq(Bytes) : base = root \o names /\ Len(base) = Len(root) + Len(names)
  BY <1>1, ConcatProperties
<1>4. PICK body \in Seq(Bytes) : body = base \o name /\ Len(body) = Len(base) + Len(name)
  BY <1>1, ConcatProperties
<1>5. /\ Read(base).kept = kept /\ Read(base).name = <<>> /\ ~Read(base).above
      /\ RootOf(base) = root
  BY <1>2, <1>3 DEF ReadsBack
<1>6. ReadsOn(base, name)
  BY <1>1, <1>5, ReadName
<1>7. /\ Read(body).kept = kept /\ Read(body).name = name /\ ~Read(body).above
      /\ RootOf(body) = root /\ Read(body) \in Readings
  BY <1>4, <1>5, <1>6, ReadingNoLonger DEF ReadsOn, SameButName, ReadsLess
<1>8. /\ Close(Read(body)).kept = Append(kept, name) /\ Close(Read(body)).name = <<>>
      /\ ~Close(Read(body)).above
  BY <1>1, <1>7, CloseIs
<1>9. root \o Terminated(Append(kept, name)) = Append(body, SEP)
  <2>1. Terminated(Append(kept, name)) = names \o Append(name, SEP)
    BY <1>1, <1>2, TerminatedIs
  <2>2. root \o (names \o Append(name, SEP)) = Append((root \o names) \o name, SEP)
    <3>1. root \in Seq(Bytes) /\ names \in Seq(Bytes) /\ name \in Seq(Bytes)
      BY <1>1
    <3>2. EndsApart(root, names, name)
      BY <3>1, SeparatorLast
    <3> QED
      BY <3>2 DEF EndsApart
  <2> QED
    BY <1>3, <1>4, <2>1, <2>2, Zenon
<1>10. RootOf(Append(body, SEP)) = root
  <2>1. body # <<>>
    BY <1>1, <1>7, ReadOfNothing, NothingIs
  <2> QED
    BY <1>1, <1>7, <2>1, RootIs
<1>11. Append(kept, name) \in Seq(Proper)
  BY AppendProperties
<1>12. Len(body) = Len(root) + Len(Terminated(kept)) + Len(name)
  BY <1>2, <1>3, <1>4
<1>13. ReadsName(body, root, kept, name)
  BY <1>7, <1>8, <1>9, <1>10, <1>11, <1>12 DEF ReadsName
<1> QED
  BY <1>13

LEMMA KeptReadsBack ==
    ASSUME NEW root \in Roots, NEW kept \in Seq(Proper)
    PROVE  ReadsBack(root, kept)
<1> DEFINE T == {k \in Seq(Proper) : ReadsBack(root, k)}
<1>1. <<>> \in T
  <2>1. <<>> \in Seq(Proper) /\ Terminated(<<>>) = <<>>
    BY EmptySeq, TerminatedGrows
  <2>2. root \o <<>> = root
    BY RootReads, ConcatEmptySeq
  <2>3. ReadsBack(root, <<>>)
    BY <2>1, <2>2, RootReads, NothingIs DEF ReadsBack
  <2> QED
    BY <2>1, <2>3
<1>2. ASSUME NEW k \in Seq(Proper), NEW name \in Proper, k \in T PROVE Append(k, name) \in T
  <2>1. PICK body \in Seq(Bytes) : ReadsName(body, root, k, name)
    BY <1>2, NameReads
  <2>2. Read(Append(body, SEP)) = Close(Read(body))
    BY ProperNames, ReadGrows DEF ReadChar
  <2>3. ReadsBack(root, Append(k, name))
    BY <2>1, <2>2 DEF ReadsBack, ReadsName
  <2> QED
    BY <2>1, <2>3 DEF ReadsName
<1> HIDE DEF T
<1>3. Seq(Proper) \subseteq T
  BY <1>1, <1>2, AppendInduction
<1> USE DEF T
<1> QED
  BY <1>3

LEMMA NormalFormIs ==
    ASSUME NEW path \in Seq(Bytes)
    PROVE  NormalForm(path) = IF EndsInName(path)
                              THEN Front(RootOf(path) \o Terminated(Resolve(path).kept))
                              ELSE RootOf(path) \o Terminated(Resolve(path).kept)
<1>1. Read(path) \in Readings /\ Read(path).kept \in Seq(Proper)
  BY ReadingNoLonger DEF ReadsLess
<1>2. Resolve(path).kept \in Seq(Proper)
  BY <1>1, CloseBounded DEF Resolve
<1>3. PICK names \in Seq(Bytes) : names = Terminated(Resolve(path).kept)
  BY <1>2, ProperNames, TerminatedIs
<1>4. RootOf(path) \o names = IF Absolute(path) THEN <<SEP>> \o names ELSE names
  BY ConcatEmptySeq DEF RootOf
<1> QED
  BY <1>3, <1>4 DEF NormalForm

\* The normal form of a path is its own normal form, no parent reference in it climbs,
\* and it is no longer than the path.
LEMMA NormalFormStable ==
    ASSUME NEW path \in Seq(Bytes)
    PROVE  LET normal == NormalForm(path)
           IN  /\ NormalForm(normal) = normal /\ ~ClimbsAboveRoot(normal)
               /\ Len(normal) <= Len(path)
<1>1. PICK r \in Readings : r = Read(path) /\ r.kept \in Seq(Proper)
  BY ReadingNoLonger DEF ReadsLess
<1>2. PICK root \in Roots : root = RootOf(path)
  BY DEF Roots, RootOf
<1>3. PICK n \in Nat, a \in Nat, b \in Nat, d \in Nat :
          /\ n = Len(path) /\ a = Len(root) /\ b = Len(Terminated(r.kept)) /\ d = Len(r.name)
          /\ a + b + d <= n
  <2>1. Len(path) \in Nat /\ Len(root) \in Nat
    BY <1>2, LenProperties, RootIs
  <2> QED
    BY <1>1, <1>2, <2>1, CloseBounded, ReadingNoLonger DEF ReadsLess
<1>4. CASE EndsInName(path)
  <2>1. r.name \in Proper
    BY <1>1, <1>4 DEF EndsInName, Readings, Proper
  <2>2. ReadsBack(root, r.kept)
    BY <1>1, KeptReadsBack
  <2>3. PICK body \in Seq(Bytes) : ReadsName(body, root, r.kept, r.name)
    BY <1>1, <2>1, <2>2, NameReads
  <2>4. Resolve(path).kept = Append(r.kept, r.name)
    BY <1>1, <2>1, CloseIs DEF Resolve, Proper
  <2>5. Front(Append(body, SEP)) = body
    BY ProperNames, FrontOfAppend
  <2>6. NormalForm(path) = body
    BY <1>2, <1>4, <2>3, <2>4, <2>5, NormalFormIs DEF ReadsName
  <2>7. EndsInName(body) /\ Resolve(body).kept = Append(r.kept, r.name) /\ ~ClimbsAboveRoot(body)
    BY <2>1, <2>3 DEF EndsInName, Proper, Resolve, ClimbsAboveRoot, ReadsName
  <2>8. NormalForm(body) = body
    BY <2>3, <2>5, <2>7, NormalFormIs DEF ReadsName
  <2>9. Len(body) <= Len(path)
    <3>1. Len(body) = a + b + d
      BY <1>3, <2>3 DEF ReadsName
    <3> QED
      BY <1>3, <3>1
  <2> QED
    BY <2>6, <2>7, <2>8, <2>9
<1>5. CASE ~EndsInName(path)
  <2>1. r.name \in {<<>>, Self, Parent}
    BY <1>1, <1>5 DEF EndsInName
  <2>2. PICK k \in Seq(Proper), f \in Nat :
            k = Resolve(path).kept /\ f = Len(Terminated(k)) /\ f <= b
    BY <1>1, <1>3, <2>1, CloseBounded DEF Resolve
  <2>3. ReadsBack(root, k)
    BY KeptReadsBack
  <2>4. PICK names \in Seq(Bytes) : names = Terminated(k)
    BY ProperNames, TerminatedIs
  <2>5. PICK whole \in Seq(Bytes) : whole = root \o names /\ Len(whole) = Len(root) + Len(names)
    BY RootReads, ConcatProperties
  <2>6. NormalForm(path) = whole
    BY <1>2, <1>5, <2>2, <2>4, <2>5, NormalFormIs
  <2>7. /\ Read(whole).kept = k /\ Read(whole).name = <<>> /\ ~Read(whole).above
        /\ RootOf(whole) = root /\ Read(whole) \in Readings
    BY <2>3, <2>4, <2>5, ReadingNoLonger DEF ReadsBack, ReadsLess
  <2>8. Resolve(whole) = Read(whole) /\ ~EndsInName(whole) /\ ~ClimbsAboveRoot(whole)
    BY <2>7, CloseIs DEF Resolve, EndsInName, ClimbsAboveRoot
  <2>9. NormalForm(whole) = whole
    BY <2>4, <2>5, <2>7, <2>8, NormalFormIs
  <2>10. Len(whole) <= Len(path)
    <3>1. Len(whole) = a + f
      BY <1>3, <2>2, <2>4, <2>5
    <3>2. a + f <= n
      <4>1. a + b + d <= n /\ f <= b
        BY <1>3, <2>2
      <4> QED
        BY <4>1
    <3> QED
      BY <1>3, <3>1, <3>2
  <2> QED
    BY <2>6, <2>8, <2>9, <2>10
<1> QED
  BY <1>4, <1>5

(****************************************************************************)
(* What filepath_normalize writes is normal already, when its scan stays in *)
(* the path, the output lies above the input and no separators follow a dot *)
(* component (filepath.c:45-67): normalizing the output again would change  *)
(* nothing, it climbs nowhere, and it is no longer than the path.           *)
(****************************************************************************)
OutputIsNormal ==
    result = "ok" /\ StaysInPath /\ above /\ SingleSeparators =>
        /\ NormalForm(Output) = Output /\ ~ClimbsAboveRoot(Output) /\ Len(Output) <= length

THEOREM OutputAlwaysNormal == Spec => []OutputIsNormal
<1>1. (StaysInPath => CallInv) => OutputIsNormal
  <2> SUFFICES ASSUME StaysInPath, CallInv, result = "ok", above, SingleSeparators
               PROVE  OutputIsNormal
    BY DEF OutputIsNormal
  <2>1. Output = NormalForm(Path)
    BY DEF CallInv, Answers
  <2>2. Path \in Seq(Bytes)
    BY PathIs DEF CallInv, Types
  <2> QED
    BY <2>1, <2>2, NormalFormStable DEF OutputIsNormal, length
<1> QED
  BY <1>1, CallInvHolds, PTL
=============================================================================
