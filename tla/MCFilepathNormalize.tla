-------------------------- MODULE MCFilepathNormalize --------------------------
(****************************************************************************)
(* All paths of up to MaxPath bytes, written from separators, dots, names   *)
(* of one and of two bytes and their concatenations.  Seven bytes hold two  *)
(* names with a parent reference behind them, and a reference after that.   *)
(* Then every object of up to MaxBuffer bytes, and short paths with more    *)
(* behind them: a scan that goes on behind "." finds "/.." and its end.     *)
(****************************************************************************)
EXTENDS FilepathNormalize

CONSTANTS
    MaxPath,            \* bound on the bytes of a path in valid UTF-8
    MaxBuffer           \* bound on the bytes of an object of any kind

\* Strings of valid UTF-8: every LEAD is followed by a CONT, every CONT follows
\* a LEAD.
ValidEncoding(p) ==
    /\ \A i \in DOMAIN p : p[i] = LEAD => i < Len(p) /\ p[i + 1] = CONT
    /\ \A i \in DOMAIN p : p[i] = CONT => i > 1 /\ p[i - 1] = LEAD

\* Every path in valid UTF-8.
Paths(max) ==
    {p \in UNION {[1 .. n -> {SEP, DOT, NAME, LEAD, CONT}] : n \in 0 .. max} :
        ValidEncoding(p)}

\* A literal with a terminator of its own has two, as in every test.
Literal(p) == p \o <<NUL, NUL>>
String(p)  == p \o <<NUL>>

\* Every object of up to max bytes with a terminator in it, whatever is before
\* and behind.
Buffers(max) ==
    {b \in UNION {[1 .. n -> Bytes] : n \in 1 .. max} : \E i \in DOMAIN b : b[i] = NUL}

\* What an earlier use of the buffer left behind the terminator.
Leftovers == [1 .. 4 -> {SEP, DOT, NAME, NUL}]

AnyInputs ==
    {Literal(p) : p \in Paths(MaxPath)} \cup {String(p) : p \in Paths(MaxPath - 1)}
        \cup Buffers(MaxBuffer) \cup {String(p) \o r : p \in Paths(2), r \in Leftovers}

\* The output on the stack and the input in read-only data, as in every test.
Above == {TRUE}

\* "a/.", the path of a plain string.
TrailingDotInputs == {String(<<NAME, SEP, DOT>>)}

\* "a/." with "b" behind it, "/." with "/../.." and "a/." with "bbb", each as old
\* bytes of the buffer it was written to.
LeftoverInputs ==
    {String(<<NAME, SEP, DOT>>) \o String(<<NAME>>),
     String(<<SEP, DOT>>) \o String(<<SEP, DOT, DOT, SEP, DOT, DOT>>),
     String(<<NAME, SEP, DOT>>) \o String(<<NAME, NAME, NAME>>)}

\* "a/../b".
TakesFirstAwayInputs ==
    {Literal(<<NAME, SEP, DOT, DOT, SEP, NAME, NAME>>)}

\* "/a/bb/..", with the output below the input.
ParentRefInputs ==
    {Literal(<<SEP, NAME, SEP, NAME, NAME, SEP, DOT, DOT>>)}
Below == {FALSE}

Anywhere == BOOLEAN

\* "a/.//b".
SeparatorsAfterDotsInputs ==
    {Literal(<<NAME, SEP, DOT, SEP, SEP, NAME>>)}

\* A path with a byte that starts no character.
UnrecognizedInputs == {Literal(<<NAME, CONT>>)}

\* A two-byte character where the output has one byte left.
WideInputs == {Literal(<<SEP, LEAD, CONT>>)}
=============================================================================
