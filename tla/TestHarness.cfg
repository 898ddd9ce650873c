SPECIFICATION Spec
CONSTANTS
    test1 = test1
    test2 = test2
    test3 = test3
    NULL = NULL
    Entries <- MCEntries
    Word = 8
    AbortOnFail = TRUE
    MaxAsserts = 2
    MaxRuns = 4
    RegisterTwice = FALSE
    TestsRegister = FALSE
CHECK_DEADLOCK FALSE
INVARIANTS
    ReportsMeanIntegers
    ZeroMeansAllPassed
PROPERTIES
    Finishes
