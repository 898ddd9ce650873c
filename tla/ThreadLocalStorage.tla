-------------------------- MODULE ThreadLocalStorage --------------------------
(****************************************************************************)
(* libd's thread local storage                                              *)
(* (src/platform/posix/thread_local_storage.c): handles over POSIX keys, a  *)
(* buffer per thread and key that get allocates on first use, and one       *)
(* static slot the whole process shares.                                    *)
(*                                                                          *)
(* Handles and buffers are addresses malloc returns, reused once freed;     *)
(* keys are reused once deleted.  The part of pthreads the code depends on  *)
(* is modelled with it: a new key holds NULL in every thread, deleting a    *)
(* key calls no destructor, and a thread that ends has the destructor       *)
(* called on each value it holds.  Each call is one step: it reads and      *)
(* writes its own thread's value and a handle that does not change while it *)
(* exists.                                                                  *)
(****************************************************************************)
EXTENDS Naturals, FiniteSets

CONSTANTS
    Threads,
    Handles,            \* addresses of struct thread_local_storage_handle
    Keys,               \* pthread keys
    Buffers,            \* addresses of per-thread data
    Values,             \* what a client stores
    InitThread,         \* the thread that calls static_init
    NULL,
    Garbage,            \* the content of a buffer malloc returned and nobody wrote
    NoAnswer            \* what a call stores that returns no data

ASSUME ConstantsAssumption ==
    /\ InitThread \in Threads
    /\ NULL \notin Handles \cup Keys \cup Buffers \cup {Garbage}
    /\ {Garbage, NoAnswer, NULL} \cap Values = {}

VARIABLES
    handle_key,         \* key of each handle, NULL when the address is free
    keys,               \* keys in use
    specific,           \* specific[k][t]: the buffer thread t holds under k
    heap,               \* heap[b]: what the buffer holds, NULL when it is free
    g_static_handle,    \* the singleton, NULL before init
    running,            \* threads that have not ended
    exited,             \* whether the code called exit()
    cleaned,            \* history: static_cleanup has been called
    abandoned,          \* history: buffers threads held under a key when it was deleted
    out,                \* out[t]: what t's last get returned; what its last set, if it
                        \*   succeeded and its setter did, was given
    result              \* result[t]: the code t's last call returned

storage == <<handle_key, keys, specific, heap>>
process == <<g_static_handle, running, exited, cleaned>>
vars == <<storage, process, abandoned, out, result>>

AllocatedHandles == {h \in Handles : handle_key[h] # NULL}
FreeBuffers      == {b \in Buffers : heap[b] = NULL}

Init ==
    /\ handle_key = [h \in Handles |-> NULL]
    /\ keys = {}
    /\ specific = [k \in Keys |-> [t \in Threads |-> NULL]]
    /\ heap = [b \in Buffers |-> NULL]
    /\ g_static_handle = NULL
    /\ running = Threads
    /\ exited = FALSE
    /\ cleaned = FALSE
    /\ abandoned = {}
    /\ out = [t \in Threads |-> NoAnswer]
    /\ result = [t \in Threads |-> "none"]

Return(t, code, answer) ==
    /\ result' = [result EXCEPT ![t] = code]
    /\ out' = [out EXCEPT ![t] = answer]

\* A call that returns an error before it changed anything.
Refuse(t, error) ==
    /\ Return(t, error, NoAnswer)
    /\ UNCHANGED <<storage, process, abandoned>>
-----------------------------------------------------------------------------
\* Mutant: a key is taken although it is in use.
NewHandleOnAnyKey(h, k) ==
    /\ handle_key[h] = NULL
    /\ handle_key' = [handle_key EXCEPT ![h] = k]
    /\ keys' = keys \cup {k}
    /\ UNCHANGED <<specific, heap>>

\* malloc returned h and pthread_key_create k, whose value is NULL everywhere.
NewHandle(h, k) ==
    /\ handle_key[h] = NULL
    /\ k \notin keys
    /\ handle_key' = [handle_key EXCEPT ![h] = k]
    /\ keys' = keys \cup {k}
    /\ specific' = [specific EXCEPT ![k] = [t \in Threads |-> NULL]]
    /\ UNCHANGED heap

Create(t, h, k) ==
    /\ NewHandle(h, k)
    /\ Return(t, "ok", NoAnswer)
    /\ UNCHANGED <<process, abandoned>>

\* malloc or pthread_key_create failed; the handle is freed again.
CreateFails(t) == Refuse(t, "no_memory")

\* Mutant: the key is not deleted with its handle.
DeleteHandleKeepsKey(h) ==
    /\ handle_key' = [handle_key EXCEPT ![h] = NULL]
    /\ UNCHANGED <<keys, specific, heap, abandoned>>

\* pthread_key_delete, which leaves the threads' buffers alone, and free.
DeleteHandle(h) ==
    LET k == handle_key[h]
    IN  /\ handle_key' = [handle_key EXCEPT ![h] = NULL]
        /\ keys' = keys \ {k}
        /\ specific' = [specific EXCEPT ![k] = [t \in Threads |-> NULL]]
        /\ abandoned' = abandoned \cup ({specific[k][t] : t \in Threads} \ {NULL})
        /\ UNCHANGED heap

Destroy(t, h) ==
    \/ /\ h = NULL
       /\ Refuse(t, "invalid_parameter")
    \/ /\ h \in AllocatedHandles
       /\ DeleteHandle(h)
       /\ Return(t, "ok", NoAnswer)
       /\ UNCHANGED process
-----------------------------------------------------------------------------
\* Mutant: every get allocates.
FreshBuffer(t, k, b) == b \in FreeBuffers

\* Mutant: the buffer is kept per key and not per thread.
BufferOfAnyThread(t, k, b) ==
    LET held == {specific[k][u] : u \in Threads} \ {NULL}
    IN  IF held # {} THEN b \in held ELSE b \in FreeBuffers

\* The buffer thread t works on in a get or set that succeeds: the one it
\* holds, or a new one with undefined content.
BufferFor(t, k, b) ==
    IF specific[k][t] # NULL THEN b = specific[k][t] ELSE b \in FreeBuffers

GetData(t, h) ==
    \E b \in Buffers :
        /\ BufferFor(t, handle_key[h], b)
        /\ specific' = [specific EXCEPT ![handle_key[h]][t] = b]
        /\ heap' = [heap EXCEPT ![b] = IF @ = NULL THEN Garbage ELSE @]
        /\ Return(t, "ok", heap'[b])
        /\ UNCHANGED <<handle_key, keys, process, abandoned>>

\* Mutant: any use of a handle may fail.
AnyUseFails(t, h) == \E error \in {"no_memory", "err"} : Refuse(t, error)

\* malloc returned NULL, or pthread_setspecific failed and the new buffer was
\* freed again ("return 1", which is libd_err).
FirstUseFails(t, h) ==
    /\ specific[handle_key[h]][t] = NULL
    /\ \E error \in {"no_memory", "err"} : Refuse(t, error)

Get(t, h) ==
    \/ /\ h = NULL
       /\ Refuse(t, "invalid_parameter")
    \/ /\ h \in AllocatedHandles
       /\ GetData(t, h) \/ FirstUseFails(t, h)

\* Mutant: the content is stored only when the buffer is new.
SetDataOnce(t, h, v, setter) ==
    \E b \in Buffers :
        /\ BufferFor(t, handle_key[h], b)
        /\ specific' = [specific EXCEPT ![handle_key[h]][t] = b]
        /\ heap' = [heap EXCEPT ![b] = IF @ = NULL THEN v ELSE @]
        /\ Return(t, "ok", v)
        /\ UNCHANGED <<handle_key, keys, process, abandoned>>

\* The new content is copied into the buffer, or a setter stores it there.  The
\* code the setter returns is not looked at: a setter that fails leaves the
\* buffer as it was, and the call succeeds.
SetData(t, h, v, setter) ==
    \E b \in Buffers :
        /\ BufferFor(t, handle_key[h], b)
        /\ specific' = [specific EXCEPT ![handle_key[h]][t] = b]
        /\ heap' = [heap EXCEPT ![b] = IF setter # "fails" THEN v
                                       ELSE IF @ = NULL THEN Garbage ELSE @]
        /\ Return(t, "ok", IF setter # "fails" THEN v ELSE NoAnswer)
        /\ UNCHANGED <<handle_key, keys, process, abandoned>>

Setters == {"none", "stores", "fails"}

Set(t, h, v, setter) ==
    \/ /\ h = NULL \/ v = NULL
       /\ Refuse(t, "invalid_parameter")
    \/ /\ h \in AllocatedHandles /\ v # NULL
       /\ SetData(t, h, v, setter) \/ FirstUseFails(t, h)
-----------------------------------------------------------------------------
\* pthread_once runs _init_static_thread_local_storage, which ends the process
\* when the storage cannot be created; so the singleton is NULL only as long as
\* g_static_once has not run.
StaticInit(t) ==
    \/ /\ g_static_handle # NULL
       /\ Return(t, "ok", NoAnswer)
       /\ UNCHANGED <<storage, process, abandoned>>
    \/ /\ g_static_handle = NULL
       /\ \E h \in Handles, k \in Keys : NewHandle(h, k) /\ g_static_handle' = h
       /\ Return(t, "ok", NoAnswer)
       /\ UNCHANGED <<running, exited, cleaned, abandoned>>
    \/ /\ g_static_handle = NULL
       /\ exited' = TRUE
       /\ UNCHANGED <<storage, g_static_handle, running, cleaned, abandoned, out, result>>

StaticGet(t) ==
    \/ /\ g_static_handle = NULL
       /\ Refuse(t, "not_initialized")
    \/ /\ g_static_handle # NULL
       /\ Get(t, g_static_handle)

StaticSet(t, v, setter) ==
    \/ /\ g_static_handle = NULL
       /\ Refuse(t, "not_initialized")
    \/ /\ g_static_handle # NULL
       /\ Set(t, g_static_handle, v, setter)

\* g_static_handle keeps its value, and g_static_once has run for good.
StaticCleanup(t) ==
    \/ /\ g_static_handle = NULL
       /\ Refuse(t, "not_initialized")
    \/ /\ g_static_handle \in AllocatedHandles
       /\ DeleteHandle(g_static_handle)
       /\ cleaned' = TRUE
       /\ Return(t, "ok", NoAnswer)
       /\ UNCHANGED <<g_static_handle, running, exited>>

\* A thread ends: the registered destructor frees each buffer it holds.
ThreadExit(t) ==
    LET held == {specific[k][t] : k \in keys} \ {NULL}
    IN  /\ running' = running \ {t}
        /\ specific' = [k \in Keys |-> [specific[k] EXCEPT ![t] = NULL]]
        /\ heap' = [b \in Buffers |-> IF b \in held THEN NULL ELSE heap[b]]
        /\ Return(t, "none", NoAnswer)
        /\ UNCHANGED <<handle_key, keys, g_static_handle, exited, cleaned, abandoned>>
-----------------------------------------------------------------------------
\* What any thread may do with handles it created itself.  It does not destroy
\* the one behind the static slot.
OwnHandles == AllocatedHandles \ {g_static_handle}

HandleCall(t) ==
    \/ \E h \in Handles, k \in Keys : Create(t, h, k)
    \/ CreateFails(t)
    \/ \E h \in OwnHandles \cup {NULL} : Destroy(t, h)
    \/ \E h \in OwnHandles \cup {NULL} : Get(t, h)
    \/ \E h \in OwnHandles \cup {NULL}, v \in Values \cup {NULL}, s \in Setters :
          Set(t, h, v, s)

\* The static slot: init comes first and is called by one thread
\* (threads.h:91-92).
StaticCall(t) ==
    \/ t = InitThread /\ StaticInit(t)
    \/ StaticGet(t)
    \/ \E v \in Values \cup {NULL}, s \in Setters : StaticSet(t, v, s)
    \/ StaticCleanup(t)

\* A client that stops using the static slot once it has cleaned it up.
Next ==
    /\ ~exited
    /\ \E t \in running :
          \/ HandleCall(t)
          \/ ~cleaned /\ StaticCall(t)
          \/ ThreadExit(t)

Spec == Init /\ [][Next]_vars

\* A client that initialises the slot again after a cleanup, as the tests do.
ReinitNext ==
    /\ ~exited
    /\ \E t \in running : HandleCall(t) \/ StaticCall(t) \/ ThreadExit(t)

ReinitSpec == Init /\ [][ReinitNext]_vars
-----------------------------------------------------------------------------
TypeOK ==
    /\ handle_key \in [Handles -> Keys \cup {NULL}]
    /\ keys = {handle_key[h] : h \in AllocatedHandles}
    /\ specific \in [Keys -> [Threads -> Buffers \cup {NULL}]]
    /\ heap \in [Buffers -> Values \cup {Garbage, NULL}]
    /\ g_static_handle \in Handles \cup {NULL}
    /\ running \subseteq Threads
    /\ exited \in BOOLEAN /\ cleaned \in BOOLEAN
    /\ abandoned \subseteq Buffers
    /\ out \in [Threads -> Values \cup {Garbage, NoAnswer}]
    /\ result \in [Threads -> {"none", "ok", "invalid_parameter", "no_memory", "err",
                               "not_initialized"}]

Held == {specific[k][t] : k \in keys, t \in Threads} \ {NULL}

(****************************************************************************)
(* A buffer belongs to one thread under one key.  Whatever handles are       *)
(* created and destroyed on reused addresses and keys, no two threads and no *)
(* two handles come to share a buffer, none is used after it was freed, and  *)
(* a thread that has ended holds none (thread_local_storage.c, get).         *)
(****************************************************************************)
BuffersOwned ==
    /\ Held \cap FreeBuffers = {}
    /\ \A k, l \in keys, t, u \in Threads :
          (specific[k][t] # NULL /\ specific[k][t] = specific[l][u]) => k = l /\ t = u
    /\ \A k \in keys, t \in Threads \ running : specific[k][t] = NULL

(****************************************************************************)
(* Every buffer get allocated is one a thread still holds, or one a thread   *)
(* held when the key was deleted: a thread's end and the reuse of handles    *)
(* and keys leak nothing (thread_local_storage.c:46-86).                     *)
(****************************************************************************)
NothingElseLeaks ==
    /\ Buffers \ FreeBuffers = Held \cup abandoned
    /\ Held \cap abandoned = {}

(****************************************************************************)
(* The destructor is called on the data of a key that is destroyed           *)
(* (threads.h:30-31, "Is called automatically upon thread key destruction"). *)
(****************************************************************************)
DestructorOnKeyDestruction == abandoned = {}

(****************************************************************************)
(* A failing static_init returns an error code                               *)
(* (threads.h:96, "RESULT_OK on success, non-zero otherwise").               *)
(****************************************************************************)
InitReturns == ~exited

(****************************************************************************)
(* A set that returns ok has stored what it was given: a setter that reports *)
(* failure makes the set fail (threads.h:23, "0 on success, non-zero on      *)
(* failure"; threads.h:81, "RESULT_OK on success, error code otherwise").    *)
(****************************************************************************)
OkMeansStored ==
    [][ \A t \in running, h \in OwnHandles, v \in Values, s \in Setters :
          (Set(t, h, v, s) /\ result'[t] = "ok") =>
              heap'[specific'[handle_key[h]][t]] = v ]_vars

(****************************************************************************)
(* When static_init returns ok the static slot can be used                   *)
(* (thread_local_storage_test.c:92-103 initialises the slot, cleans it up,   *)
(* initialises it again and stores in it, all of it asserted to be ok).      *)
(****************************************************************************)
InitOkMeansUsable ==
    [][ (InitThread \in running /\ StaticInit(InitThread) /\ ~exited') =>
            handle_key'[g_static_handle'] # NULL ]_vars

\* What thread local storage promises, with each cell read from the buffer.
Cells == INSTANCE ThreadCells WITH
    Unset  <- Garbage,
    open   <- AllocatedHandles,
    cell   <- [h \in Handles |-> [t \in Threads |->
                 IF handle_key[h] = NULL THEN Garbage
                 ELSE IF specific[handle_key[h]][t] = NULL THEN Garbage
                 ELSE heap[specific[handle_key[h]][t]]]],
    answer <- out

\* Thread local storage implements ThreadCells: a set that succeeds, its setter
\* too, has stored what it was given; each thread reads under each handle what it
\* stored there itself, and nothing else changes it.
ImplementsCells == Cells!Spec
=============================================================================
