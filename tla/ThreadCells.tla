----------------------------- MODULE ThreadCells -----------------------------
(****************************************************************************)
(* What thread local storage promises, without keys or buffers: every       *)
(* handle is a cell of its own in each thread.  A thread reads what it last *)
(* stored there itself; no other thread and no other handle can change it.  *)
(* ThreadLocalStorage implements this specification.                        *)
(****************************************************************************)
CONSTANTS
    Threads, Handles, Values,
    Unset,      \* a cell nothing was stored in
    NoAnswer    \* the answer of a call that returns no data

VARIABLES
    open,       \* the handles that exist
    cell,       \* cell[h][t]: what thread t stored under h, or Unset
    answer      \* answer[t]: what t's last get returned or its last set
                \*   stored, or NoAnswer

vars == <<open, cell, answer>>

Init ==
    /\ open = {}
    /\ cell = [h \in Handles |-> [t \in Threads |-> Unset]]
    /\ answer = [t \in Threads |-> NoAnswer]

Answer(t, a) == answer' = [answer EXCEPT ![t] = a]

Create(t, h) ==
    /\ h \notin open
    /\ open' = open \cup {h}
    /\ Answer(t, NoAnswer)
    /\ UNCHANGED cell

Destroy(t, h) ==
    /\ h \in open
    /\ open' = open \ {h}
    /\ cell' = [cell EXCEPT ![h] = [u \in Threads |-> Unset]]
    /\ Answer(t, NoAnswer)

\* A cell nothing was stored in yet answers with whatever it holds.
Get(t, h) ==
    /\ h \in open
    /\ Answer(t, cell[h][t])
    /\ UNCHANGED <<open, cell>>

Set(t, h, v) ==
    /\ h \in open
    /\ cell' = [cell EXCEPT ![h][t] = v]
    /\ Answer(t, v)
    /\ UNCHANGED open

\* A thread that ends takes its cells with it.
Exit(t) ==
    /\ cell' = [h \in Handles |-> [cell[h] EXCEPT ![t] = Unset]]
    /\ Answer(t, NoAnswer)
    /\ UNCHANGED open

\* A call that fails, and one that has nothing to change.
Nothing(t) ==
    /\ Answer(t, NoAnswer)
    /\ UNCHANGED <<open, cell>>

Next ==
    \E t \in Threads :
        \/ \E h \in Handles :
              \/ Create(t, h)
              \/ Destroy(t, h)
              \/ Get(t, h)
              \/ \E v \in Values : Set(t, h, v)
        \/ Exit(t)
        \/ Nothing(t)

Spec == Init /\ [][Next]_vars
=============================================================================
