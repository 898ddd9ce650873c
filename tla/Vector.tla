-------------------------------- MODULE Vector --------------------------------
(****************************************************************************)
(* What a dynamic array promises, without a capacity or memory: a sequence  *)
(* that a write overwrites and extends from a position inside it or at its  *)
(* end.  A call that fails leaves the sequence as it was.  DArray           *)
(* implements this specification.                                           *)
(****************************************************************************)
EXTENDS Integers, Sequences

CONSTANTS
    Elems,          \* what the array holds
    Writes,         \* the sequences a client writes
    NoElem          \* the answer of a call that returns no element

VARIABLES
    exists,
    contents,
    answer,         \* the element the last call returned
    status          \* whether it succeeded

vars == <<exists, contents, answer, status>>

Init == exists = FALSE /\ contents = <<>> /\ answer = NoElem /\ status = "ok"

Succeed(element) == status' = "ok" /\ answer' = element

\* d stored over s from position i on, counted from 0.
Overwrite(s, i, d) ==
    SubSeq(s, 1, i) \o d \o SubSeq(s, i + Len(d) + 1, Len(s))

Create ==
    /\ ~exists
    /\ exists' = TRUE
    /\ Succeed(NoElem)
    /\ UNCHANGED contents

Destroy ==
    /\ exists
    /\ exists' = FALSE
    /\ contents' = <<>>
    /\ Succeed(NoElem)

Read(i) ==
    /\ Succeed(contents[i])
    /\ UNCHANGED <<exists, contents>>

\* A write of elements the client brings, or of some the array holds itself.
Write(i, d) ==
    /\ exists
    /\ contents' = Overwrite(contents, i, d)
    /\ Succeed(NoElem)
    /\ UNCHANGED exists

Fail ==
    /\ status' = "failed"
    /\ answer' = NoElem
    /\ UNCHANGED <<exists, contents>>

Parts == {SubSeq(contents, i, j) : i \in 1 .. Len(contents), j \in 0 .. Len(contents)}

Next ==
    \/ Create
    \/ Destroy
    \/ \E i \in DOMAIN contents : Read(i)
    \/ \E i \in 0 .. Len(contents), d \in Writes \cup Parts : Write(i, d)
    \/ Fail

Spec == Init /\ [][Next]_vars
=============================================================================
