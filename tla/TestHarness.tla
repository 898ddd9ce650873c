------------------------------ MODULE TestHarness ------------------------------
(****************************************************************************)
(* libd's test harness (include/libd/testing.h): the program of one test    *)
(* file.  main registers tests in a list threaded through their entries,    *)
(* then runs the list from the front; an assertion that fails is reported   *)
(* and aborts the program.                                                  *)
(*                                                                          *)
(* An assertion passes its operands as words (uintptr_t) to a predicate     *)
(* that compares them as they are or as signed integers.  What a test does  *)
(* besides asserting is no concern of the harness.                          *)
(****************************************************************************)
EXTENDS Integers, SequencesExt

CONSTANTS
    Entries,            \* struct libd_test_entry, one for each TEST
    NULL,
    Word,               \* 2^64, the modulus of uintptr_t
    AbortOnFail,        \* LIBD_TESTING_ABORT_ON_FAIL
    MaxAsserts,         \* bound on the assertions of one test
    MaxRuns,            \* bound on the history of the tests run
    RegisterTwice,      \* whether main may register a test again
    TestsRegister       \* whether a test may register tests

ASSUME ConstantsAssumption ==
    /\ NULL \notin Entries
    /\ Word \in Nat \ {0} /\ Word % 2 = 0
    /\ MaxAsserts \in Nat /\ MaxRuns \in Nat
    /\ {AbortOnFail, RegisterTwice, TestsRegister} \subseteq BOOLEAN

VARIABLES
    g_test_registry,    \* the front of the list
    next,               \* next[e], in each entry
    pc,                 \* in main: "register", "loop", in a "test", "returned" or
                        \*   "aborted"
    asserts,            \* assertions the running test has made
    reported,           \* whether a failed assertion was printed
    wrong,              \* history: an assertion was made that does not hold
    registered,         \* history: the entries in the order of registration
    ran                 \* history: the entries in the order they were run

list == <<g_test_registry, next>>
vars == <<list, pc, asserts, reported, wrong, registered, ran>>

Init ==
    /\ g_test_registry = NULL
    /\ next = [e \in Entries |-> NULL]
    /\ pc = "register"
    /\ asserts = 0
    /\ reported = FALSE
    /\ wrong = FALSE
    /\ registered = <<>>
    /\ ran = <<>>
-----------------------------------------------------------------------------
\* Mutant: the entries registered before are dropped.
FrontOnly(e) ==
    /\ next' = [next EXCEPT ![e] = NULL]
    /\ g_test_registry' = e

\* register_test
PushFront(e) ==
    /\ next' = [next EXCEPT ![e] = g_test_registry]
    /\ g_test_registry' = e

Register(e) ==
    /\ \/ pc = "register"
       \/ pc = "test" /\ TestsRegister
    /\ Contains(registered, e) => RegisterTwice /\ Len(registered) <= Cardinality(Entries)
    /\ PushFront(e)
    /\ registered' = Append(registered, e)
    /\ UNCHANGED <<pc, asserts, reported, wrong, ran>>

\* The statements of main are over and the loop begins.
EndRegistration ==
    /\ pc = "register"
    /\ pc' = "loop"
    /\ UNCHANGED <<list, asserts, reported, wrong, registered, ran>>

\* g_test_registry->f()
CallTest ==
    /\ pc = "loop"
    /\ g_test_registry # NULL
    /\ pc' = "test"
    /\ asserts' = 0
    /\ ran' = IF Len(ran) < MaxRuns THEN Append(ran, g_test_registry) ELSE ran
    /\ UNCHANGED <<list, reported, wrong, registered>>

\* Mutant: the loop does not go on to the next entry.
TestReturnsToItself ==
    /\ pc = "test"
    /\ pc' = "loop"
    /\ UNCHANGED <<list, asserts, reported, wrong, registered, ran>>

\* The test returns; only now is the next entry read.
TestReturns ==
    /\ pc = "test"
    /\ g_test_registry' = next[g_test_registry]
    /\ pc' = "loop"
    /\ UNCHANGED <<next, asserts, reported, wrong, registered, ran>>

MainReturns ==
    /\ pc = "loop"
    /\ g_test_registry = NULL
    /\ pc' = "returned"
    /\ UNCHANGED <<list, asserts, reported, wrong, registered, ran>>
-----------------------------------------------------------------------------
\* Mutant: a word stands for itself.
UnsignedWord(w) == w

\* The conversions to uintptr_t and from it to int64_t.
AsWord(x)   == x % Word
AsSigned(w) == IF w < Word \div 2 THEN w ELSE w - Word

Compare(op, x, y) ==
    CASE op = "==" -> x = y
      [] op = "!=" -> x # y
      [] op = "<"  -> x < y
      [] op = "<=" -> x <= y
      [] op = ">"  -> x > y
      [] op = ">=" -> x >= y

\* ASSERT_EQ_U to ASSERT_GE_S, of integers their type can hold. ASSERT_TRUE, FALSE,
\* ZERO, NONZERO, OK and the tests of pointers are _U with an operand of 0 or 1.
Ops == {"==", "!=", "<", "<=", ">", ">="}
Unsigned == 0 .. Word - 1
Signed   == -(Word \div 2) .. Word \div 2 - 1

Assertions ==
    [type : {"u"}, op : Ops, lhs : Unsigned, rhs : Unsigned]
        \cup [type : {"s"}, op : Ops, lhs : Signed, rhs : Signed]

\* What the predicate returns.
Passes(x) ==
    LET l == AsWord(x.lhs)
        r == AsWord(x.rhs)
    IN  IF x.type = "s" THEN Compare(x.op, AsSigned(l), AsSigned(r))
                        ELSE Compare(x.op, l, r)

\* What the client asserts.
Means(x) == Compare(x.op, x.lhs, x.rhs)

ReportFailure ==
    /\ reported' = TRUE
    /\ pc' = IF AbortOnFail THEN "aborted" ELSE pc

\* libd_assert_op
AssertOp(x) ==
    /\ pc = "test"
    /\ asserts < MaxAsserts
    /\ asserts' = asserts + 1
    /\ wrong' = (wrong \/ ~Means(x))
    /\ IF Passes(x) THEN UNCHANGED <<pc, reported>> ELSE ReportFailure
    /\ UNCHANGED <<list, registered, ran>>

\* What main does once the tests are registered.
Run ==
    \/ CallTest
    \/ TestReturns
    \/ MainReturns
    \/ \E x \in Assertions : AssertOp(x)

Next ==
    \/ \E e \in Entries : Register(e)
    \/ EndRegistration
    \/ Run

\* The program runs, and each test it calls makes some assertions and returns.
Spec == Init /\ [][Next]_vars /\ WF_vars(Run)
-----------------------------------------------------------------------------
TypeOK ==
    /\ g_test_registry \in Entries \cup {NULL}
    /\ next \in [Entries -> Entries \cup {NULL}]
    /\ pc \in {"register", "loop", "test", "returned", "aborted"}
    /\ pc = "test" => g_test_registry # NULL
    /\ asserts \in 0 .. MaxAsserts
    /\ {reported, wrong} \subseteq BOOLEAN
    /\ registered \in Seq(Entries) /\ ran \in Seq(Entries)

(****************************************************************************)
(* A failure is printed exactly when a test asserted something that is not   *)
(* true of the integers it compared, although they are compared as words     *)
(* (testing.h:120-145, 167).                                                 *)
(****************************************************************************)
ReportsMeanIntegers == reported <=> wrong

(****************************************************************************)
(* Status 0, which is all a build learns of the program, means that every    *)
(* registered test has run, once, the last registered first, and that none   *)
(* of their assertions was wrong: the list the loop consumes as it goes      *)
(* loses none and repeats none, and no failure is passed over                *)
(* (testing.h:70-75, 101-106, 175-177).                                      *)
(****************************************************************************)
ZeroMeansAllPassed == pc = "returned" => ran = Reverse(registered) /\ ~wrong

(****************************************************************************)
(* The loop over the tests ends (testing.h:102-105).                         *)
(****************************************************************************)
Finishes == pc = "loop" ~> pc \in {"returned", "aborted"}
=============================================================================
