--------------------------- MODULE FilepathNormalize ---------------------------
(****************************************************************************)
(* libd_filesystem_filepath_normalize (src/filesystem/filepath.c): one call *)
(* of it, a step for each round of its loop.  The scan position moves over  *)
(* the input and the write position over the output; a parent reference     *)
(* moves the write position back to the separator before the last           *)
(* component.                                                               *)
(*                                                                          *)
(* A character is what the loop tells apart: a separator, a dot, the        *)
(* terminator, another ASCII character, and the two bytes of a longer       *)
(* UTF-8 character.  input is the whole object the path is stored in, which *)
(* may go on after the terminator with bytes of any kind.  An access        *)
(* outside the two objects is undefined behaviour: the call ends as         *)
(* "undefined", and what the program does from there on is not modelled.    *)
(*                                                                          *)
(* On POSIX a path has no prefix (src/platform/posix/paths.c): path_start   *)
(* is the start of the input and the loop that copies the prefix does       *)
(* nothing.                                                                 *)
(****************************************************************************)
EXTENDS Naturals, PathNormalForm

CONSTANTS
    NUL,                \* the terminator
    NAME,               \* an ASCII character in a name
    LEAD, CONT,         \* first and second byte of a two-byte character
    JUNK,               \* what a byte of the output holds before the call
    Inputs,             \* the objects holding the paths a client passes
    OutLengths,         \* out_len, the size of the output
    OutAboveInput       \* whether the output's address may be above the
                        \*   input's: a set of Booleans

Bytes == {SEP, DOT, NUL, NAME, LEAD, CONT}

ASSUME ConstantsAssumption ==
    /\ \A object \in Inputs : /\ object \in Seq(Bytes)
                              /\ \E i \in DOMAIN object : object[i] = NUL
    /\ OutLengths \subseteq Nat
    /\ OutAboveInput \subseteq BOOLEAN
    /\ JUNK \notin Bytes
    /\ SEP \notin {DOT, NUL, NAME, LEAD, CONT} /\ DOT \notin {NUL, NAME, LEAD, CONT}
    /\ NUL \notin {NAME, LEAD, CONT} /\ LEAD \notin {NAME, CONT} /\ NAME # CONT

VARIABLES
    input,              \* the object input_path points into, at its start
    above,              \* whether the output lies above the input in memory
    out_len,
    out,                \* the output, indexed from 0
    scan_pos,           \* index into input, from 0
    write_pos,          \* index into out
    result              \* "none" before the call, "running" during it

arguments == <<input, above, out_len>>
vars == <<arguments, out, scan_pos, write_pos, result>>

Running == result = "running"

\* The byte at an index of the input, and whether there is one.
Byte(i)    == input[i + 1]
InInput(i) == i < Len(input)

Init ==
    /\ input \in Inputs
    /\ above \in OutAboveInput
    /\ out_len \in OutLengths
    /\ out = [i \in 0 .. out_len - 1 |-> JUNK]
    /\ scan_pos = 0
    /\ write_pos = 0
    /\ result = "none"

BadParameters(null) == null \/ out_len = 0 \/ Byte(0) = NUL

Call(null) ==
    /\ result = "none"
    /\ result' = IF BadParameters(null) THEN "invalid_parameter" ELSE "running"
    /\ UNCHANGED <<arguments, out, scan_pos, write_pos>>

\* The call accesses memory outside its two objects.
LeaveObjects ==
    /\ result' = "undefined"
    /\ UNCHANGED <<arguments, out, scan_pos, write_pos>>
-----------------------------------------------------------------------------
\* Mutant: a dot at the end of the path is not followed by a separator.
AheadOnlySeparator(i) == Byte(i) = SEP

Behind(i) == i > 0 => Byte(i - 1) = SEP
Ahead(i)  == Byte(i) \in {SEP, NUL}

\* _found_relative_ref and _found_parent_ref, of the dot at i.
RelativeRef(i) == Behind(i) /\ Ahead(i + 1)
ParentRef(i)   == Byte(i + 1) # NUL /\ Behind(i) /\ Byte(i + 1) = DOT /\ Ahead(i + 2)

\* libd_utf8_char_len: 0 for a byte that starts no character.
CharLen(byte) ==
    CASE byte = LEAD -> 2
      [] byte = CONT -> 0
      [] OTHER -> 1

\* Mutant: the position that is one past the output is accepted.
FillsPastOut(position) == position > out_len

\* Mutant: a place is kept for a second terminator.
FillsEarly(position) == position + 1 >= out_len

\* There is no place left for the terminator.
FillsOut(position) == position >= out_len

\* Write the character at i and go on behind it; the length is compared once
\* it is written.
WriteChar(i) ==
    LET n == CharLen(Byte(i))
    IN  IF i + n <= Len(input) /\ write_pos + n <= out_len
        THEN /\ out' = [k \in DOMAIN out |->
                          IF k \in write_pos .. write_pos + n - 1
                          THEN Byte(i + k - write_pos) ELSE out[k]]
             /\ scan_pos' = i + n
             /\ write_pos' = write_pos + n
             /\ result' = IF FillsOut(write_pos') THEN "err" ELSE "running"
             /\ UNCHANGED arguments
        ELSE LeaveObjects
-----------------------------------------------------------------------------
\* The last of the separators that start at i.
LastSeparator(i) ==
    CHOOSE j \in i .. Len(input) - 1 :
        /\ \A k \in i .. j : Byte(k) = SEP
        /\ Byte(j + 1) # SEP

CopySeparator ==
    /\ Byte(scan_pos) = SEP
    /\ WriteChar(LastSeparator(scan_pos))

\* Mutant: the scan stays where it is.
SkipNothing ==
    /\ Byte(scan_pos) = DOT
    /\ RelativeRef(scan_pos)
    /\ UNCHANGED vars

SkipRelativeRef ==
    /\ Byte(scan_pos) = DOT
    /\ RelativeRef(scan_pos)
    /\ scan_pos' = scan_pos + 2
    /\ UNCHANGED <<arguments, out, write_pos, result>>

\* Mutant: an output that is only a separator is not the root.
NothingWritten(position) == position = 0

\* Mutant: a name of one character and its separator are taken for the root.
ShortNameAtRoot(position) == position \in {0, 1, 2}

\* Nothing but a separator has been written.
AtRoot(position) == position \in {0, 1}

\* Where the write position may stop on its way back from the separator it is
\* on: where a separator is right before it.  The loop compares it with
\* path_start, which points into the input: it goes on as long as it finds no
\* separator when the output lies above the input, and not at all otherwise.
Stops == IF above THEN {k \in 1 .. write_pos - 1 : out[k - 1] = SEP}
                  ELSE {write_pos - 1}

\* A way back that finds no separator reads what is before the output.
PopComponent ==
    IF Stops = {} THEN LeaveObjects
    ELSE /\ write_pos' = CHOOSE k \in Stops : \A l \in Stops : l <= k
         /\ scan_pos' = scan_pos + 3
         /\ UNCHANGED <<arguments, out, result>>

FollowParentRef ==
    /\ Byte(scan_pos) = DOT
    /\ ~RelativeRef(scan_pos)
    /\ ParentRef(scan_pos)
    /\ \/ /\ AtRoot(write_pos)
          /\ result' = "invalid_path"
          /\ UNCHANGED <<arguments, out, scan_pos, write_pos>>
       \/ /\ ~AtRoot(write_pos)
          /\ PopComponent

CopyChar ==
    /\ Byte(scan_pos) \notin {SEP, NUL}
    /\ Byte(scan_pos) = DOT => ~RelativeRef(scan_pos) /\ ~ParentRef(scan_pos)
    /\ WriteChar(scan_pos)

Finish ==
    /\ Byte(scan_pos) = NUL
    /\ out' = [out EXCEPT ![write_pos] = NUL]
    /\ result' = "ok"
    /\ UNCHANGED <<arguments, scan_pos, write_pos>>

\* What a round reads before it acts is in the object: the bytes up to one that
\* is no separator, and behind a dot the two that tell a reference, the second
\* only when _found_parent_ref comes to it.
LooksInside ==
    /\ InInput(scan_pos)
    /\ Byte(scan_pos) = SEP => \E k \in scan_pos .. Len(input) - 1 : Byte(k) # SEP
    /\ Byte(scan_pos) = DOT =>
           /\ InInput(scan_pos + 1)
           /\ \/ RelativeRef(scan_pos)
              \/ Byte(scan_pos + 1) = NUL
              \/ InInput(scan_pos + 2)

\* One round of the loop, or the return behind it.
Step ==
    /\ Running
    /\ \/ LooksInside /\ CopySeparator
       \/ LooksInside /\ SkipRelativeRef
       \/ LooksInside /\ FollowParentRef
       \/ LooksInside /\ CopyChar
       \/ LooksInside /\ Finish
       \/ ~LooksInside /\ LeaveObjects

Next == (\E null \in BOOLEAN : Call(null)) \/ Step

\* A call that has begun is executed: the loop blocks on nothing.
Spec == Init /\ [][Next]_vars /\ WF_vars(Step)
-----------------------------------------------------------------------------
TypeOK ==
    /\ input \in Seq(Bytes)
    /\ above \in OutAboveInput
    /\ out_len \in OutLengths
    /\ out \in [0 .. out_len - 1 -> Bytes \cup {JUNK}]
    /\ scan_pos \in Nat
    /\ write_pos \in Nat
    /\ Running => write_pos < out_len
    /\ result \in {"none", "running", "ok", "err", "invalid_parameter", "invalid_path",
                   "undefined"}

\* The path itself: what is before the first terminator.
Path == LET end == CHOOSE i \in DOMAIN input :
                       input[i] = NUL /\ \A j \in 1 .. i - 1 : input[j] # NUL
        IN  SubSeq(input, 1, end - 1)

\* What the output holds as a C string.
Output == [i \in 1 .. write_pos |-> out[i - 1]]

(****************************************************************************)
(* The call reads and writes nothing but its input and its output            *)
(* (filesystem.h:28-29, "Destination for the resulting path", "Source path   *)
(* to normalize").                                                           *)
(****************************************************************************)
InBounds == result # "undefined"

(****************************************************************************)
(* A call that succeeds has written the normal form of its input             *)
(* (filesystem.h:27, "Fills the out parameter with a normalized version of   *)
(* the input").                                                              *)
(****************************************************************************)
OkMeansNormal ==
    result = "ok" => Output = NormalForm(Path) /\ out[write_pos] = NUL

(****************************************************************************)
(* A path is refused as invalid only when it climbs above its root           *)
(* (filepath.c:55-60).                                                       *)
(****************************************************************************)
OnlyAboveRootInvalid == result = "invalid_path" => ClimbsAboveRoot(Path)

(****************************************************************************)
(* The output is too small only when it has no room for the input and its    *)
(* terminator (filepath.c:79).                                               *)
(****************************************************************************)
OnlySmallOutFails == result = "err" => out_len <= Len(Path)

(****************************************************************************)
(* Every call returns, the ones that leave their objects aside               *)
(* (filepath.c:43-82).                                                       *)
(****************************************************************************)
EveryCallReturns == Running ~> ~Running
-----------------------------------------------------------------------------
\* None of these holds of every call.  The calls the code is right for keep to
\* some of the following.

\* A second terminator, as every literal in the tests has.
TwoTerminators == Len(input) > Len(Path) + 1 /\ input[Len(Path) + 2] = NUL

\* The last component is "." or "..".
EndsInDots ==
    \E i \in DOMAIN Path :
        /\ Len(Path) <= i + 1
        /\ \A k \in i .. Len(Path) : Path[k] = DOT
        /\ i = 1 \/ Path[i - 1] = SEP

\* No character lacks its second byte.
CharactersWhole == \A k \in DOMAIN Path : Path[k] = LEAD => k < Len(Path) /\ Path[k + 1] = CONT

\* The scan skips no terminator to go on behind it: a dot component at the end
\* takes it one byte behind the terminator, and half a character two bytes from
\* where the character starts.
StaysInPath == CharactersWhole /\ (TwoTerminators \/ ~EndsInDots)

\* Every byte starts a character or ends one.
Recognized == \A k \in DOMAIN Path : Path[k] = CONT => k > 1 /\ Path[k - 1] = LEAD

\* No parent reference takes the first component of a relative path away.
KeepsFirst == Absolute(Path) \/ ~Resolve(Path).emptied

\* A character of two bytes fits wherever one does.
RoomForInput == out_len > Len(Path)

\* One separator at most behind "." and "..".
SingleSeparators ==
    ~ \E i, j \in DOMAIN Path :
        /\ i <= j /\ j + 2 <= Len(Path)
        /\ SubSeq(Path, i, j) \in {Self, Parent}
        /\ i = 1 \/ Path[i - 1] = SEP
        /\ Path[j + 1] = SEP /\ Path[j + 2] = SEP

(****************************************************************************)
(* The call stays inside its two objects, although the scan skips two or     *)
(* three characters at a time and the way back over a component has no bound *)
(* in the output: a path that ends in a dot component needs the second       *)
(* terminator, and one with longer characters room for the input             *)
(* (filepath.c:51-66, 79).                                                   *)
(****************************************************************************)
GoodCallsInBounds ==
    \/ InBounds
    \/ ~StaysInPath
    \/ above /\ ~KeepsFirst
    \/ ~RoomForInput /\ LEAD \in Range(Path)

(****************************************************************************)
(* A call that succeeds has written the normal form of its input, although   *)
(* it never sees a component as a whole and whatever is behind the path in   *)
(* its object, when the scan stays in the path, the output lies above the    *)
(* input and no separators follow a dot component                            *)
(* (filesystem.h:27, filepath.c:45-67).                                      *)
(****************************************************************************)
GoodCallsNormal == OkMeansNormal \/ ~StaysInPath \/ ~above \/ ~SingleSeparators

(****************************************************************************)
(* A scan that stays in the path refuses it as invalid only when it climbs   *)
(* above its root, and one that does never succeeds (filepath.c:55-60): what *)
(* the write position tells of the components written so far is enough to    *)
(* decide it.                                                                *)
(****************************************************************************)
InvalidMeansAboveRoot ==
    StaysInPath =>
        /\ OnlyAboveRootInvalid
        /\ (result = "ok" /\ above /\ SingleSeparators) => ~ClimbsAboveRoot(Path)

(****************************************************************************)
(* When the scan stays in the path, an output with room for it and its       *)
(* terminator is always large enough (filepath.c:79): nothing is ever longer *)
(* on its way to being normalized.                                           *)
(****************************************************************************)
InputSizedOutSuffices == StaysInPath => OnlySmallOutFails

(****************************************************************************)
(* A call whose scan stays in a path of recognized characters returns: each  *)
(* round of the loop moves the scan on, and to where a character starts      *)
(* (filepath.c:43-82, utf8.c).                                               *)
(****************************************************************************)
Returns == (Running /\ StaysInPath /\ Recognized) ~> ~Running
=============================================================================
