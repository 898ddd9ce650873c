----------------------------- MODULE ErrorContext -----------------------------
(****************************************************************************)
(* libd's error context (src/errors/errors.c, internal/platform_wrap.c):    *)
(* the last error of a thread, a code and a message, kept in the static     *)
(* slot of thread local storage.  err_get returns a pointer into the        *)
(* storage, which a thread may keep; err_set formats the message into a     *)
(* buffer of fixed size and copies code and message there.                  *)
(*                                                                          *)
(* Thread local storage is ThreadLocalStorage itself, used beside the error *)
(* context by a client with handles of its own; its variables are declared  *)
(* here to be shared with it.  static_init was called for the size of an    *)
(* error context: the sizes these functions pass on are ignored.            *)
(****************************************************************************)
EXTENDS Naturals, SequencesExt

CONSTANTS
    Threads, Handles, Keys, Buffers, InitThread,    \* see ThreadLocalStorage
    NULL, Garbage, NoAnswer,
    Errors,             \* the errors a thread may set, [code, msg], the message
                        \*   a sequence of characters
    MsgSize             \* sizeof(msg), with its terminator

VARIABLES
    view,               \* view[t]: what t's last err_get returned, NULL when t has
                        \*   no such pointer
    last,               \* history: last[t]: the error t set last, NULL if none
    handle_key, keys, specific, heap, g_static_handle, running, exited, cleaned,
    abandoned, out, result

storage == <<handle_key, keys, specific, heap, g_static_handle, running, exited, cleaned,
             abandoned, out, result>>
vars == <<view, last, storage>>

\* vsnprintf into msg.
Formatted(msg) == IF Len(msg) < MsgSize THEN msg ELSE SubSeq(msg, 1, MsgSize - 1)

Context(e) == [code |-> e.code, msg |-> Formatted(e.msg)]

ASSUME ConstantsAssumption ==
    /\ MsgSize \in Nat \ {0}
    /\ \A e \in Errors : e.msg \in Seq({e.msg[i] : i \in DOMAIN e.msg})
    /\ InitThread \in Threads
    /\ NULL \notin Handles \cup Keys \cup Buffers \cup Errors \cup {Garbage}
    /\ {Garbage, NoAnswer, NULL} \cap {Context(e) : e \in Errors} = {}

TLS == INSTANCE ThreadLocalStorage WITH
    Values <- {Context(e) : e \in Errors}

Init ==
    /\ TLS!Init
    /\ view = [t \in Threads |-> NULL]
    /\ last = [t \in Threads |-> NULL]
-----------------------------------------------------------------------------
\* libd_errors_err_set: no setter, so the context is copied.
ErrSet(t, e) ==
    /\ TLS!StaticSet(t, Context(e), "none")
    /\ last' = [last EXCEPT ![t] = IF result'[t] = "ok" THEN e ELSE @]
    /\ UNCHANGED view

\* libd_error_err_get: *pp_err is stored only when the call succeeds.
ErrGet(t) ==
    /\ TLS!StaticGet(t)
    /\ view' = [view EXCEPT ![t] = IF result'[t] = "ok"
                                    THEN specific'[handle_key[g_static_handle]][t] ELSE @]
    /\ UNCHANGED last

\* The static slot is set up and taken down by the program, and used for errors
\* in between.
StaticCall(t) ==
    \/ \E e \in Errors : ErrSet(t, e)
    \/ ErrGet(t)
    \/ t = InitThread /\ TLS!StaticInit(t) /\ UNCHANGED <<view, last>>
    \/ TLS!StaticCleanup(t) /\ UNCHANGED <<view, last>>

\* The pointers of a thread end with it.
ThreadExit(t) ==
    /\ TLS!ThreadExit(t)
    /\ view' = [view EXCEPT ![t] = NULL]
    /\ last' = [last EXCEPT ![t] = NULL]

\* Other users of thread local storage.
OtherCall(t) ==
    /\ \/ \E h \in Handles, k \in Keys : TLS!Create(t, h, k)
       \/ \E h \in TLS!OwnHandles :
             \/ TLS!Destroy(t, h)
             \/ TLS!Get(t, h)
             \/ \E v \in {Context(e) : e \in Errors} : TLS!Set(t, h, v, "none")
    /\ UNCHANGED <<view, last>>

Next ==
    /\ ~exited
    /\ \E t \in running :
          \/ ~cleaned /\ StaticCall(t)
          \/ ThreadExit(t)
          \/ OtherCall(t)

Spec == Init /\ [][Next]_vars
-----------------------------------------------------------------------------
\* A context holds a message that fits with its terminator.
Contexts == [code : {e.code : e \in Errors},
             msg  : {msg \in {Formatted(e.msg) : e \in Errors} : Len(msg) < MsgSize}]

TypeOK ==
    /\ TLS!TypeOK
    /\ \A b \in Buffers : heap[b] \in Contexts \cup {Garbage, NULL}
    /\ view \in [Threads -> Buffers \cup {NULL}]
    /\ last \in [Threads -> Errors \cup {NULL}]

(****************************************************************************)
(* A pointer err_get returned once shows, for as long as its thread lives,   *)
(* the error this thread set last, its message cut to fit the buffer: later  *)
(* calls of err_set store where it points, and no other thread, no other     *)
(* user of thread local storage and no cleanup changes it or frees it        *)
(* (errors.h:30, "Gets the error context and places it in pp_err").          *)
(****************************************************************************)
ViewShowsLastError ==
    \A t \in running :
        view[t] # NULL =>
            IF last[t] = NULL THEN heap[view[t]] = Garbage
            ELSE /\ heap[view[t]] \notin {Garbage, NULL}
                 /\ heap[view[t]].code = last[t].code
                 /\ IsPrefix(heap[view[t]].msg, last[t].msg)
                 /\ Len(heap[view[t]].msg) < MsgSize

(****************************************************************************)
(* An error is not lost because there is no memory to tell it: once a thread *)
(* has set or got one, err_set succeeds until the slot is cleaned up         *)
(* (errors.c:30, errors.h:42, "RESULT_OK on success").                       *)
(****************************************************************************)
SetsKeepWorking ==
    [][ \A t \in running, e \in Errors :
          (~cleaned /\ (view[t] # NULL \/ last[t] # NULL) /\ ErrSet(t, e)) =>
              result'[t] = "ok" ]_vars

(****************************************************************************)
(* An err_get that succeeds gives an error that was set                      *)
(* (errors.h:30, "Gets the error context and places it in pp_err").          *)
(****************************************************************************)
GetMeansSet == \A t \in running : view[t] # NULL => last[t] # NULL
=============================================================================
