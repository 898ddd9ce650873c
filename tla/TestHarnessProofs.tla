--------------------------- MODULE TestHarnessProofs ---------------------------
(****************************************************************************)
(* Proofs about TestHarness, for words of any width, any number of tests    *)
(* and any number of assertions in each.                                    *)
(****************************************************************************)
EXTENDS TestHarness, FiniteSetTheorems, SequenceTheorems, TLAPS

Types ==
    /\ g_test_registry \in Entries \cup {NULL}
    /\ next \in [Entries -> Entries \cup {NULL}]
    /\ pc \in {"register", "loop", "test", "returned", "aborted"}
    /\ pc = "test" => g_test_registry # NULL
    /\ reported \in BOOLEAN /\ wrong \in BOOLEAN
    /\ registered \in Seq(Entries)
    /\ ran \in Seq(Entries)
    /\ asserts \in 0 .. MaxAsserts
-----------------------------------------------------------------------------
\* Comparing two words says of the integers they stand for what it should.

LEMMA Words ==
    /\ Word \in Nat \ {0} /\ (Word % 2) = 0 /\ NULL \notin Entries
  BY ConstantsAssumption DEF ConstantsAssumption

LEMMA Halves ==
    \E h \in Nat : Word = 2 * h /\ Word \div 2 = h
<1>1. /\ Word \in Nat /\ Word = 2 * (Word \div 2) + (Word % 2) /\ Word \div 2 \in Nat
  BY Words
<1> QED
  BY <1>1, Words

LEMMA DivisionRemainder ==
    ASSUME NEW v \in Int, NEW p \in Nat \ {0}
    PROVE  /\ v = p * (v \div p) + (v % p)
           /\ v % p \in 0 .. p - 1
           /\ v \div p \in Int
  OBVIOUS

LEMMA QuotientOf ==
    ASSUME NEW p \in Nat \ {0}, NEW q \in Int, NEW r \in 0 .. p - 1, NEW v \in -p .. p - 1,
           v = p * q + r
    PROVE  q = IF v < 0 THEN -1 ELSE 0
<1>1. CASE q >= 1
  <2>1. PICK d \in Nat : q = 1 + d
    <3>1. q - 1 \in Nat /\ q = 1 + (q - 1)
      BY <1>1
    <3> QED
      BY <3>1
  <2>2. p * (1 + d) = p + p * d /\ p * d \in Nat
    OBVIOUS
  <2> QED
    BY <2>1, <2>2
<1>2. CASE q <= -2
  <2>1. PICK d \in Nat : q = -2 - d
    <3>1. -2 - q \in Nat /\ q = -2 - (-2 - q)
      BY <1>2
    <3> QED
      BY <3>1
  <2>2. p * (-2 - d) = -(2 * p) - p * d /\ p * d \in Nat
    OBVIOUS
  <2> QED
    BY <2>1, <2>2
<1>3. CASE q = -1
  BY <1>3
<1>4. CASE q = 0
  BY <1>4
<1> QED
  BY <1>1, <1>2, <1>3, <1>4

LEMMA WordOf ==
    ASSUME NEW x \in Int, -Word <= x, x < Word
    PROVE  AsWord(x) = IF x < 0 THEN x + Word ELSE x
<1>1. PICK p \in Nat \ {0} : p = Word
  BY Words
<1>2. PICK q \in Int, r \in 0 .. p - 1 : r = (x % p) /\ x = p * q + r
  BY DivisionRemainder
<1>3. q = IF x < 0 THEN -1 ELSE 0
  BY <1>1, <1>2, QuotientOf
<1>4. r = IF x < 0 THEN x + p ELSE x
  BY <1>2, <1>3
<1> QED
  BY <1>1, <1>2, <1>4 DEF AsWord

LEMMA PredicateMeansIntegers ==
    ASSUME NEW x \in Assertions
    PROVE  Passes(x) <=> Means(x)
<1>1. PICK h \in Nat : Word = 2 * h /\ Word \div 2 = h
  BY Halves
<1>2. CASE x.type = "u"
  <2>1. x.lhs \in 0 .. Word - 1 /\ x.rhs \in 0 .. Word - 1
    BY <1>2 DEF Assertions, Unsigned
  <2>2. AsWord(x.lhs) = x.lhs /\ AsWord(x.rhs) = x.rhs
    BY <2>1, WordOf, Words
  <2> QED
    BY <1>2, <2>2 DEF Passes, Means
<1>3. CASE x.type = "s"
  <2>1. x.lhs \in -h .. h - 1 /\ x.rhs \in -h .. h - 1
    BY <1>1, <1>3 DEF Assertions, Signed
  <2>2. ASSUME NEW v \in -h .. h - 1
        PROVE  AsSigned(AsWord(v)) = v
    <3>1. AsWord(v) = IF v < 0 THEN v + Word ELSE v
      BY <1>1, WordOf
    <3> QED
      BY <1>1, <3>1 DEF AsSigned
  <2>3. AsSigned(AsWord(x.lhs)) = x.lhs /\ AsSigned(AsWord(x.rhs)) = x.rhs
    BY <2>1, <2>2
  <2> QED
    BY <1>3, <2>3 DEF Passes, Means
<1> QED
  BY <1>2, <1>3 DEF Assertions
-----------------------------------------------------------------------------
\* A failure is printed exactly when an assertion was wrong.

LEMMA TypesHold == Spec => []Types
<1>0. MaxAsserts \in Nat /\ 0 \in 0 .. MaxAsserts
  BY ConstantsAssumption DEF ConstantsAssumption
<1>1. Init => Types
  BY EmptySeq, <1>0 DEF Init, Types
<1>2. ASSUME Types, [Next]_vars PROVE Types'
  <2>1. CASE \E e \in Entries : Register(e)
    <3>1. PICK e \in Entries : Register(e)
      BY <2>1
    <3>2. /\ next' = [next EXCEPT ![e] = g_test_registry] /\ g_test_registry' = e
          /\ UNCHANGED <<pc, asserts, reported, wrong, ran>>
      BY <3>1 DEF Register, PushFront
    <3>3. registered' \in Seq(Entries)
      BY <1>2, <3>1, AppendProperties DEF Register, Types
    <3> QED
      BY <1>2, <3>2, <3>3, Words DEF Types
  <2>2. CASE EndRegistration
    BY <1>2, <2>2 DEF EndRegistration, Types, list
  <2>3. CASE CallTest
    <3>1. g_test_registry \in Entries
      BY <1>2, <2>3 DEF CallTest, Types
    <3>2. ran' \in Seq(Entries)
      BY <1>2, <2>3, <3>1, AppendProperties DEF CallTest, Types
    <3> QED
      BY <1>0, <1>2, <2>3, <3>2 DEF CallTest, Types, list
  <2>4. CASE TestReturns
    <3>1. g_test_registry' \in Entries \cup {NULL}
      BY <1>2, <2>4 DEF TestReturns, Types
    <3> QED
      BY <1>2, <2>4, <3>1 DEF TestReturns, Types
  <2>5. CASE MainReturns
    BY <1>2, <2>5 DEF MainReturns, Types, list
  <2>6. CASE \E x \in Assertions : AssertOp(x)
    <3>1. PICK x \in Assertions : AssertOp(x)
      BY <2>6
    <3>2. wrong' \in BOOLEAN
      BY <1>2, <3>1 DEF AssertOp, Types
    <3>3. UNCHANGED <<list, registered, ran>> /\ pc' \in {pc, "aborted"} /\ reported' \in {reported, TRUE}
      BY <3>1 DEF AssertOp, ReportFailure
    <3>4. asserts' \in 0 .. MaxAsserts
      BY <1>0, <1>2, <3>1 DEF AssertOp, Types
    <3> QED
      BY <1>2, <3>2, <3>3, <3>4 DEF Types, list
  <2>7. CASE UNCHANGED vars
    BY <1>2, <2>7 DEF vars, list, Types
  <2> QED
    BY <1>2, <2>1, <2>2, <2>3, <2>4, <2>5, <2>6, <2>7 DEF Next, Run
<1> QED
  BY <1>1, <1>2, PTL DEF Spec

\* A failure is printed exactly when a test asserted something that is not true of
\* the integers it compared (testing.h, libd_assert_op and the predicates).
THEOREM ReportsAlwaysMeanIntegers == Spec => []ReportsMeanIntegers
<1>1. Init => ReportsMeanIntegers
  BY DEF Init, ReportsMeanIntegers
<1>2. ASSUME Types, ReportsMeanIntegers, [Next]_vars PROVE ReportsMeanIntegers'
  <2>1. CASE \E x \in Assertions : AssertOp(x)
    <3>1. PICK x \in Assertions : AssertOp(x)
      BY <2>1
    <3>2. CASE Passes(x)
      <4>1. Means(x)
        BY <3>2, PredicateMeansIntegers
      <4> QED
        BY <1>2, <3>1, <3>2, <4>1 DEF AssertOp, ReportsMeanIntegers
    <3>3. CASE ~Passes(x)
      <4>1. ~Means(x)
        BY <3>3, PredicateMeansIntegers
      <4> QED
        BY <3>1, <3>3, <4>1 DEF AssertOp, ReportFailure, ReportsMeanIntegers
    <3> QED
      BY <3>2, <3>3
  <2>2. CASE ~(\E x \in Assertions : AssertOp(x))
    <3>1. UNCHANGED <<reported, wrong>>
      BY <1>2, <2>2
      DEF Next, Run, vars, Register, EndRegistration, CallTest, TestReturns, MainReturns
    <3> QED
      BY <1>2, <3>1 DEF ReportsMeanIntegers
  <2> QED
    BY <2>1, <2>2
<1> QED
  BY <1>1, <1>2, TypesHold, PTL DEF Spec
-----------------------------------------------------------------------------
\* The loop runs every test once.

\* The history of the tests run is long enough for all of them.
RunsFit == IsFiniteSet(Entries) /\ Cardinality(Entries) <= MaxRuns

\* The front of a list of the first k entries that were registered.
FrontOf(k) == IF k = 0 THEN NULL ELSE registered[k]

\* How many entries are left in the list; the test that runs still is.
Left == IF pc = "test" THEN Len(registered) - Len(ran) + 1 ELSE Len(registered) - Len(ran)

(****************************************************************************)
(* The inductive invariant.  ZeroMeansAllPassed says what is so at the end; *)
(* on the way the list holds the entries registered first, in the order     *)
(* that remains to be run, and the loop has run those behind them.          *)
(****************************************************************************)
ListInv ==
    /\ \A i, j \in 1 .. Len(registered) : registered[i] = registered[j] => i = j
    /\ \A k \in 1 .. Len(registered) : next[registered[k]] = FrontOf(k - 1)
    /\ Len(ran) <= Len(registered)
    /\ \A k \in 1 .. Len(ran) : ran[k] = registered[Len(registered) - k + 1]
    /\ pc = "register" => Len(ran) = 0
    /\ pc = "test" => Len(ran) > 0
    /\ pc # "aborted" => g_test_registry = FrontOf(Left)
    /\ pc = "returned" => g_test_registry = NULL

WrongInv == wrong => pc = "aborted"

IInv == Types /\ ListInv /\ WrongInv

LEMMA Lengths ==
    ASSUME Types
    PROVE  /\ Len(registered) \in Nat /\ Len(ran) \in Nat
           /\ \A k \in 1 .. Len(registered) : registered[k] \in Entries
  BY LenProperties, ElementOfSeq DEF Types

LEMMA NoMoreThanEntries ==
    ASSUME IInv, RunsFit
    PROVE  Len(registered) <= MaxRuns
<1>1. PICK n \in Nat : n = Len(registered)
  BY Lengths DEF IInv
<1>2. registered \in [1 .. n -> Entries]
  BY <1>1, LenProperties DEF IInv, Types
<1>3. registered \in Injection(1 .. n, Entries)
  BY <1>1, <1>2 DEF IInv, ListInv, Injection, IsInjective
<1>4. /\ Cardinality(1 .. n) <= Cardinality(Entries)
      /\ Cardinality(Entries) \in Nat
  BY <1>3, FS_Injection, FS_CardinalityType DEF RunsFit
<1>5. Cardinality(1 .. n) = n
  BY FS_Interval
<1> QED
  BY <1>1, <1>4, <1>5, ConstantsAssumption DEF RunsFit, ConstantsAssumption

LEMMA RegisterKeepsList ==
    ASSUME IInv, ~RegisterTwice, ~TestsRegister, NEW e \in Entries, Register(e)
    PROVE  ListInv' /\ WrongInv'
<1>1. PICK n \in Nat : n = Len(registered)
  BY Lengths DEF IInv
<1>2. /\ pc = "register" /\ pc' = pc /\ ran' = ran /\ wrong' = wrong /\ Len(ran) = 0
      /\ next' = [next EXCEPT ![e] = g_test_registry] /\ g_test_registry' = e
      /\ registered' = Append(registered, e)
      /\ \A k \in 1 .. n : registered[k] # e
  BY <1>1 DEF Register, PushFront, IInv, ListInv, Contains
<1>3. /\ Len(registered') = n + 1 /\ registered'[n + 1] = e
      /\ \A k \in 1 .. n : registered'[k] = registered[k]
  BY <1>1, <1>2, AppendProperties DEF IInv, Types
<1>4. g_test_registry = FrontOf(n) /\ Left = n
  BY <1>1, <1>2 DEF IInv, ListInv, Left
<1>5. \A k \in 0 .. n : FrontOf(k)' = FrontOf(k)
  BY <1>3 DEF FrontOf
<1>6. /\ \A k \in 1 .. n : next'[registered[k]] = next[registered[k]]
      /\ next'[e] = g_test_registry
  BY <1>1, <1>2, Lengths DEF IInv, Types
<1>7. ASSUME NEW k \in 1 .. n + 1
      PROVE  next'[registered'[k]] = FrontOf(k - 1)'
  <2>1. CASE k = n + 1
    BY <1>3, <1>4, <1>5, <1>6, <2>1
  <2>2. CASE k # n + 1
    <3>1. k \in 1 .. n /\ k - 1 \in 0 .. n
      BY <2>2
    <3>2. next[registered[k]] = FrontOf(k - 1)
      BY <1>1, <3>1 DEF IInv, ListInv
    <3> QED
      BY <1>3, <1>5, <1>6, <3>1, <3>2
  <2> QED
    BY <2>1, <2>2
<1>8. ASSUME NEW i \in 1 .. n + 1, NEW j \in 1 .. n + 1, registered'[i] = registered'[j]
      PROVE  i = j
  <2>1. i \in 1 .. n \/ i = n + 1
    OBVIOUS
  <2>2. j \in 1 .. n \/ j = n + 1
    OBVIOUS
  <2> QED
    BY <1>1, <1>2, <1>3, <1>8, <2>1, <2>2 DEF IInv, ListInv
<1>9. Left' = n + 1 /\ FrontOf(n + 1)' = e
  BY <1>2, <1>3 DEF Left, FrontOf
<1>10. ListInv'
  BY <1>2, <1>3, <1>7, <1>8, <1>9 DEF ListInv
<1> QED
  BY <1>2, <1>10 DEF IInv, WrongInv

LEMMA CallTestKeepsList ==
    ASSUME IInv, RunsFit, CallTest
    PROVE  ListInv' /\ WrongInv'
<1>1. PICK n \in Nat, r \in Nat : n = Len(registered) /\ r = Len(ran) /\ r <= n
  BY Lengths DEF IInv, ListInv
<1>2. /\ pc = "loop" /\ pc' = "test" /\ g_test_registry # NULL
      /\ UNCHANGED <<g_test_registry, next, wrong, registered>>
      /\ g_test_registry = FrontOf(n - r)
  BY <1>1 DEF CallTest, list, IInv, ListInv, Left
<1>3. r < n /\ g_test_registry = registered[n - r] /\ n - r \in 1 .. n
  BY <1>1, <1>2 DEF FrontOf
<1>4. r < MaxRuns
  BY <1>1, <1>3, NoMoreThanEntries, ConstantsAssumption DEF ConstantsAssumption
<1>5. ran' = Append(ran, g_test_registry) /\ g_test_registry \in Entries
  BY <1>1, <1>3, <1>4, Lengths DEF CallTest, IInv
<1>6. /\ Len(ran') = r + 1 /\ ran'[r + 1] = registered[n - r]
      /\ \A k \in 1 .. r : ran'[k] = ran[k]
  BY <1>1, <1>3, <1>5, AppendProperties DEF IInv, Types
<1>7. ASSUME NEW k \in 1 .. r + 1
      PROVE  ran'[k] = registered[n - k + 1]
  <2>1. CASE k = r + 1
    <3>1. n - k + 1 = n - r
      BY <2>1
    <3> QED
      BY <1>6, <2>1, <3>1
  <2>2. CASE k # r + 1
    <3>1. k \in 1 .. r
      BY <2>2
    <3> QED
      BY <1>1, <1>6, <3>1 DEF IInv, ListInv
  <2> QED
    BY <2>1, <2>2
<1>8. Left' = n - r
  BY <1>1, <1>2, <1>6 DEF Left
<1>9. \A k : FrontOf(k)' = FrontOf(k)
  BY <1>2 DEF FrontOf
<1>10. ListInv'
  BY <1>1, <1>2, <1>3, <1>6, <1>7, <1>8, <1>9 DEF IInv, ListInv
<1> QED
  BY <1>2, <1>10 DEF IInv, WrongInv

LEMMA TestReturnsKeepsList ==
    ASSUME IInv, TestReturns
    PROVE  ListInv' /\ WrongInv'
<1>1. PICK n \in Nat, r \in Nat : n = Len(registered) /\ r = Len(ran) /\ r <= n
  BY Lengths DEF IInv, ListInv
<1>2. /\ pc = "test" /\ pc' = "loop" /\ g_test_registry' = next[g_test_registry]
      /\ UNCHANGED <<next, wrong, registered, ran>>
      /\ r > 0 /\ g_test_registry = FrontOf(n - r + 1)
  BY <1>1 DEF TestReturns, IInv, ListInv, Left
<1>3. n - r + 1 \in 1 .. n /\ (n - r + 1) - 1 = n - r
  BY <1>1, <1>2
<1>4. g_test_registry' = FrontOf(n - r)
  <2>1. g_test_registry = registered[n - r + 1]
    BY <1>2, <1>3 DEF FrontOf
  <2> QED
    BY <1>1, <1>2, <1>3, <2>1 DEF IInv, ListInv
<1>5. Left' = n - r
  BY <1>1, <1>2 DEF Left
<1>6. \A k : FrontOf(k)' = FrontOf(k)
  BY <1>2 DEF FrontOf
<1>7. ListInv'
  BY <1>1, <1>2, <1>4, <1>5, <1>6 DEF IInv, ListInv
<1> QED
  BY <1>2, <1>7 DEF IInv, WrongInv

LEMMA AssertOpKeepsList ==
    ASSUME IInv, AbortOnFail, NEW x \in Assertions, AssertOp(x)
    PROVE  ListInv' /\ WrongInv'
<1>1. /\ pc = "test" /\ UNCHANGED <<g_test_registry, next, registered, ran>>
      /\ pc' \in {"test", "aborted"}
  BY DEF AssertOp, ReportFailure, list
<1>2. \A k : FrontOf(k)' = FrontOf(k)
  BY <1>1 DEF FrontOf
<1>3. pc' = "test" => Left' = Left
  BY <1>1 DEF Left
<1>4. ListInv'
  BY <1>1, <1>2, <1>3 DEF IInv, ListInv
<1>5. WrongInv'
  BY <1>1, PredicateMeansIntegers DEF IInv, WrongInv, AssertOp, ReportFailure
<1> QED
  BY <1>4, <1>5

\* The list stays as it is and so does what the loop has left of it.
LEMMA OthersKeepList ==
    ASSUME IInv, EndRegistration \/ MainReturns \/ UNCHANGED vars
    PROVE  ListInv' /\ WrongInv'
<1>1. /\ UNCHANGED <<g_test_registry, next, wrong, registered, ran>>
      /\ pc' = pc \/ (pc # "test" /\ pc' \in {"loop", "returned"} /\ ~wrong)
  BY DEF EndRegistration, MainReturns, vars, list, IInv, WrongInv
<1>2. \A k : FrontOf(k)' = FrontOf(k)
  BY <1>1 DEF FrontOf
<1>3. Left' = Left
  BY <1>1 DEF Left
<1>4. ListInv'
  <2>1. /\ pc # "aborted" \/ pc' = pc
        /\ pc' = "returned" => pc = "returned" \/ g_test_registry = NULL
    BY DEF EndRegistration, MainReturns, vars
  <2> QED
    BY <1>1, <1>2, <1>3, <2>1 DEF IInv, ListInv
<1> QED
  BY <1>1, <1>4 DEF IInv, WrongInv

LEMMA InvariantHolds ==
    ASSUME AbortOnFail, ~RegisterTwice, ~TestsRegister, RunsFit
    PROVE  Spec => []IInv
<1>1. Init => ListInv /\ WrongInv
  <2> SUFFICES ASSUME Init PROVE ListInv /\ WrongInv
    OBVIOUS
  <2>1. Len(registered) = 0 /\ Len(ran) = 0
    BY EmptySeq DEF Init
  <2> QED
    BY <2>1 DEF Init, ListInv, WrongInv, Left, FrontOf
<1>2. IInv /\ [Next]_vars => (ListInv /\ WrongInv)'
  BY RegisterKeepsList, CallTestKeepsList, TestReturnsKeepsList, AssertOpKeepsList,
     OthersKeepList
  DEF Next, Run
<1> QED
  BY <1>1, <1>2, TypesHold, PTL DEF Spec, IInv

\* Status 0 means that every registered test has run, once, the last registered
\* first, and that none of their assertions was wrong (testing.h, TEST_MAIN).
THEOREM ZeroAlwaysMeansAllPassed ==
    ASSUME AbortOnFail, ~RegisterTwice, ~TestsRegister, RunsFit
    PROVE  Spec => []ZeroMeansAllPassed
<1>1. IInv => ZeroMeansAllPassed
  <2> SUFFICES ASSUME IInv, pc = "returned" PROVE ran = Reverse(registered) /\ ~wrong
    BY DEF ZeroMeansAllPassed
  <2>1. PICK n \in Nat, r \in Nat : n = Len(registered) /\ r = Len(ran) /\ r <= n
    BY Lengths DEF IInv, ListInv
  <2>2. FrontOf(n - r) = NULL
    BY <2>1 DEF IInv, ListInv, Left
  <2>3. n = r
    <3>1. n - r # 0 => n - r \in 1 .. n
      BY <2>1
    <3> QED
      BY <2>1, <2>2, <3>1, Lengths, Words DEF FrontOf, IInv
  <2>4. Reverse(registered) \in Seq(Entries) /\ Len(Reverse(registered)) = n
    <3>1. ASSUME NEW k \in 1 .. n PROVE registered[(n - k) + 1] \in Entries
      BY <2>1, Lengths, (n - k) + 1 \in 1 .. n DEF IInv
    <3>2. Reverse(registered) \in [1 .. n -> Entries]
      BY <2>1, <3>1 DEF Reverse
    <3>3. Reverse(registered) \in Seq(Entries)
      BY <3>2, SeqDef
    <3>4. DOMAIN Reverse(registered) = 1 .. n /\ Len(Reverse(registered)) \in Nat
      BY <3>2, <3>3, LenProperties
    <3> QED
      BY <3>3, <3>4, LenProperties
  <2>5. ASSUME NEW k \in 1 .. n PROVE ran[k] = Reverse(registered)[k]
    BY <2>1, <2>3 DEF Reverse, IInv, ListInv
  <2>6. ran = Reverse(registered)
    BY <2>1, <2>3, <2>4, <2>5, SeqEqual DEF IInv, Types
  <2> QED
    BY <2>6 DEF IInv, WrongInv
<1> QED
  BY <1>1, InvariantHolds, PTL
-----------------------------------------------------------------------------
\* The loop over the tests comes to its end.

\* What the round of the loop still does, at most: call the test, make its assertions.
LeftOfRound == IF pc = "loop" THEN MaxAsserts + 1 ELSE MaxAsserts - asserts

\* Every step of main ends the program, leaves fewer entries in the list, or less of the
\* round for the same entries: a list that is no cycle is consumed (testing.h:102-105).
THEOREM RunsShorten ==
    ASSUME IInv, RunsFit, Run
    PROVE  \/ pc' \in {"returned", "aborted"}
           \/ Left \in Nat /\ Left' \in Nat /\ Left' < Left
           \/ Left' = Left /\ LeftOfRound \in Nat /\ LeftOfRound' \in Nat
                            /\ LeftOfRound' < LeftOfRound
<1>1. PICK n \in Nat, r \in Nat, m \in Nat, a \in Nat :
          /\ n = Len(registered) /\ r = Len(ran) /\ r <= n
          /\ m = MaxAsserts /\ a = asserts /\ a <= m
  BY Lengths, ConstantsAssumption DEF ConstantsAssumption, IInv, Types, ListInv
<1>2. CASE CallTest
  <2>1. pc = "loop" /\ pc' = "test" /\ asserts' = 0 /\ registered' = registered
    BY <1>2 DEF CallTest
  <2>2. r < n
    <3>1. FrontOf(n - r) # NULL
      BY <1>1, <1>2 DEF CallTest, IInv, ListInv, Left
    <3> QED
      BY <1>1, <3>1 DEF FrontOf
  <2>3. r < MaxRuns /\ g_test_registry \in Entries
    BY <1>1, <1>2, <2>2, NoMoreThanEntries, ConstantsAssumption
    DEF ConstantsAssumption, CallTest, IInv, Types
  <2>4. Len(ran') = r + 1
    BY <1>1, <1>2, <2>3, AppendProperties DEF CallTest, IInv, Types
  <2>5. Left = n - r /\ Left' = n - (r + 1) + 1
    BY <1>1, <2>1, <2>4 DEF Left
  <2>6. LeftOfRound = m + 1 /\ LeftOfRound' = m
    BY <1>1, <2>1 DEF LeftOfRound
  <2> QED
    BY <1>1, <2>5, <2>6
<1>3. CASE TestReturns
  <2>1. Left = n - r + 1 /\ Left' = n - r
    BY <1>1, <1>3 DEF TestReturns, Left
  <2> QED
    BY <1>1, <2>1
<1>4. CASE MainReturns
  BY <1>4 DEF MainReturns
<1>5. ASSUME NEW x \in Assertions, AssertOp(x), pc' # "aborted"
      PROVE  /\ Left' = Left /\ LeftOfRound \in Nat
             /\ LeftOfRound' \in Nat /\ LeftOfRound' < LeftOfRound
  <2>1. /\ pc = "test" /\ pc' = "test" /\ a < m /\ asserts' = a + 1
        /\ UNCHANGED <<registered, ran>>
    BY <1>1, <1>5 DEF AssertOp, ReportFailure
  <2>2. Left' = Left
    BY <2>1 DEF Left
  <2>3. LeftOfRound = m - a /\ LeftOfRound' = m - (a + 1)
    BY <1>1, <2>1 DEF LeftOfRound
  <2> QED
    BY <1>1, <2>1, <2>2, <2>3
<1> QED
  BY <1>2, <1>3, <1>4, <1>5 DEF Run
=============================================================================
