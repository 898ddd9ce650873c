--------------------------- MODULE ErrorContextProofs ---------------------------
(****************************************************************************)
(* Proofs about ErrorContext, over the proofs about ThreadLocalStorage: for *)
(* any number of threads, any errors and messages, and every other use of   *)
(* thread local storage beside the static slot.                             *)
(****************************************************************************)
EXTENDS ErrorContext, SequenceTheorems, TLAPS

TLSP == INSTANCE ThreadLocalStorageProofs WITH
    Values <- {Context(e) : e \in Errors}

\* The key of the static slot, while there is one.
slot_key == handle_key[g_static_handle]
slot_open == g_static_handle # NULL /\ ~cleaned

\* A buffer holds the error a thread set last.
Shows(t, b) == heap[b] = IF last[t] = NULL THEN Garbage ELSE Context(last[t])

Types ==
    /\ view \in [Threads -> Buffers \cup {NULL}]
    /\ last \in [Threads -> Errors \cup {NULL}]

\* While the slot is open a view is the buffer its thread holds there.  After the
\* cleanup it is one of the buffers nobody frees or uses any more.
SlotInv ==
    /\ cleaned => g_static_handle # NULL
    /\ g_static_handle = NULL => \A t \in running : view[t] = NULL /\ last[t] = NULL
    /\ slot_open => g_static_handle \in TLSP!AllocatedHandles
    /\ slot_open => \A t \in running :
          IF specific[slot_key][t] = NULL THEN view[t] = NULL /\ last[t] = NULL
          ELSE view[t] \in {NULL, specific[slot_key][t]} /\ Shows(t, specific[slot_key][t])
    /\ cleaned => \A t \in running :
          view[t] # NULL => view[t] \in abandoned /\ Shows(t, view[t])

(****************************************************************************)
(* The inductive invariant.  ViewShowsLastError is not inductive: a view    *)
(* must be the buffer the next err_set of its thread stores in, and a       *)
(* thread may set an error before it has a view of it.                      *)
(****************************************************************************)
IInv == TLSP!IInv /\ Types /\ SlotInv
-----------------------------------------------------------------------------
LEMMA StorageConstants ==
    /\ InitThread \in Threads
    /\ NULL \notin Handles \cup Keys \cup Buffers \cup {Garbage}
    /\ {Garbage, NoAnswer, NULL} \cap {Context(e) : e \in Errors} = {}
  BY ConstantsAssumption DEF ConstantsAssumption

\* The calls this code makes are calls of thread local storage.
LEMMA CallsOfStorage ==
    /\ TLS!Init => TLSP!Init
    /\ \A t : TLS!StaticInit(t) => TLSP!StaticInit(t)
    /\ \A t : TLS!StaticGet(t) => TLSP!StaticGet(t)
    /\ \A t, v, s : TLS!StaticSet(t, v, s) => TLSP!StaticSet(t, v, s)
    /\ \A t : TLS!StaticCleanup(t) => TLSP!StaticCleanup(t)
    /\ \A t : TLS!ThreadExit(t) => TLSP!ThreadExit(t)
    /\ \A t, h, k : TLS!Create(t, h, k) => TLSP!Create(t, h, k)
    /\ \A t, h : TLS!Destroy(t, h) => TLSP!Destroy(t, h)
    /\ \A t, h : TLS!Get(t, h) => TLSP!Get(t, h)
    /\ \A t, h, v, s : TLS!Set(t, h, v, s) => TLSP!Set(t, h, v, s)
    /\ TLS!OwnHandles = TLSP!OwnHandles
<1> USE DEF TLS!Return, TLSP!Return, TLS!Refuse, TLSP!Refuse, TLS!storage, TLSP!storage,
        TLS!process, TLSP!process, TLS!AllocatedHandles, TLSP!AllocatedHandles,
        TLS!FreeBuffers, TLSP!FreeBuffers, TLS!BufferFor, TLSP!BufferFor
<1>1. TLS!Init => TLSP!Init
  BY DEF TLS!Init, TLSP!Init
<1>2. \A h, k : TLS!NewHandle(h, k) => TLSP!NewHandle(h, k)
  BY DEF TLS!NewHandle, TLSP!NewHandle
<1>3. \A h : TLS!DeleteHandle(h) => TLSP!DeleteHandle(h)
  BY DEF TLS!DeleteHandle, TLSP!DeleteHandle
<1>4. \A t, h : TLS!Get(t, h) => TLSP!Get(t, h)
  BY DEF TLS!Get, TLSP!Get, TLS!GetData, TLSP!GetData, TLS!FirstUseFails, TLSP!FirstUseFails
<1>5. \A t, h, v, s : TLS!Set(t, h, v, s) => TLSP!Set(t, h, v, s)
  BY DEF TLS!Set, TLSP!Set, TLS!SetData, TLSP!SetData, TLS!FirstUseFails, TLSP!FirstUseFails
<1>6. \A t : TLS!StaticInit(t) => TLSP!StaticInit(t)
  BY <1>2 DEF TLS!StaticInit, TLSP!StaticInit
<1>7. \A t : TLS!StaticGet(t) => TLSP!StaticGet(t)
  BY <1>4 DEF TLS!StaticGet, TLSP!StaticGet
<1>8. \A t, v, s : TLS!StaticSet(t, v, s) => TLSP!StaticSet(t, v, s)
  BY <1>5 DEF TLS!StaticSet, TLSP!StaticSet
<1>9. \A t : TLS!StaticCleanup(t) => TLSP!StaticCleanup(t)
  BY <1>3 DEF TLS!StaticCleanup, TLSP!StaticCleanup
<1>10. \A t : TLS!ThreadExit(t) => TLSP!ThreadExit(t)
  BY DEF TLS!ThreadExit, TLSP!ThreadExit
<1>11. \A t, h, k : TLS!Create(t, h, k) => TLSP!Create(t, h, k)
  BY <1>2 DEF TLS!Create, TLSP!Create
<1>12. \A t, h : TLS!Destroy(t, h) => TLSP!Destroy(t, h)
  BY <1>3 DEF TLS!Destroy, TLSP!Destroy
<1>13. TLS!OwnHandles = TLSP!OwnHandles
  BY DEF TLS!OwnHandles, TLSP!OwnHandles
<1> QED
  BY <1>1, <1>4, <1>5, <1>6, <1>7, <1>8, <1>9, <1>10, <1>11, <1>12, <1>13

LEMMA StorageStep ==
    ASSUME IInv, [Next]_vars
    PROVE  TLSP!IInv'
<1>1. CASE UNCHANGED vars
  <2>1. UNCHANGED TLSP!vars
    BY <1>1 DEF vars, storage, TLSP!vars, TLSP!storage, TLSP!process
  <2> QED
    BY <2>1, TLSP!NextKeepsInv, StorageConstants DEF IInv
<1>2. CASE Next
  <2>1. PICK t \in running : (~cleaned /\ StaticCall(t)) \/ ThreadExit(t) \/ OtherCall(t)
    BY <1>2 DEF Next
  <2>2. CASE StaticCall(t)
    <3>1. TLSP!StaticCall(t)
      BY <2>2, CallsOfStorage DEF StaticCall, ErrSet, ErrGet, TLSP!StaticCall, TLSP!Setters
    <3> QED
      BY <1>2, <3>1, TLSP!NextKeepsInv, StorageConstants DEF IInv, Next, TLSP!ReinitNext
  <2>3. CASE ThreadExit(t)
    BY <1>2, <2>3, CallsOfStorage, TLSP!NextKeepsInv, StorageConstants
       DEF IInv, Next, ThreadExit, TLSP!ReinitNext
  <2>4. CASE OtherCall(t)
    <3>1. TLSP!HandleCall(t)
      BY <2>4, CallsOfStorage DEF OtherCall, TLSP!HandleCall, TLSP!Setters
    <3> QED
      BY <1>2, <3>1, TLSP!NextKeepsInv, StorageConstants DEF IInv, Next, TLSP!ReinitNext
  <2> QED
    BY <2>1, <2>2, <2>3, <2>4
<1> QED
  BY <1>1, <1>2
-----------------------------------------------------------------------------
\* What the storage's invariant says of the slot.

LEMMA SlotStorage ==
    ASSUME IInv
    PROVE  /\ running \subseteq Threads
           /\ slot_open => slot_key \in keys /\ slot_key \in Keys /\ g_static_handle \in Handles
           /\ slot_open => \A t \in Threads : specific[slot_key][t] \in Buffers \cup {NULL}
           /\ NULL \notin Handles /\ NULL \notin Keys /\ NULL \notin Buffers /\ NULL # Garbage
<1>1. /\ keys \subseteq Keys
      /\ \A h \in TLSP!AllocatedHandles : h \in Handles /\ handle_key[h] \in keys
      /\ \A k \in keys, t \in Threads : specific[k][t] \in Buffers \cup {NULL}
  BY TLSP!KeyOfHandle, StorageConstants DEF IInv, TLSP!IInv
<1>2. running \subseteq Threads
  BY DEF IInv, TLSP!IInv, TLSP!StorageInv, TLSP!StorageTypes
<1> QED
  BY <1>1, <1>2, StorageConstants DEF IInv, SlotInv, slot_key

\* The slot stays as it is when its handle, its buffers and those abandoned do.
SlotSame ==
    /\ UNCHANGED <<g_static_handle, running, cleaned, view, last>>
    /\ \A b \in abandoned : b \in abandoned' /\ heap'[b] = heap[b]
    /\ slot_open => /\ g_static_handle \in TLSP!AllocatedHandles'
                    /\ handle_key'[g_static_handle] = slot_key
                    /\ \A t \in running :
                          /\ specific'[slot_key][t] = specific[slot_key][t]
                          /\ specific[slot_key][t] # NULL =>
                                heap'[specific[slot_key][t]] = heap[specific[slot_key][t]]

LEMMA SlotStays ==
    ASSUME IInv, SlotSame
    PROVE  SlotInv'
<1>1. SlotInv
  BY DEF IInv
<1>2. slot_open' = slot_open /\ (slot_open => slot_key' = slot_key)
  BY DEF SlotSame, slot_open, slot_key
<1>3. ASSUME slot_open, NEW t \in running
      PROVE  IF specific'[slot_key][t] = NULL THEN view[t] = NULL /\ last[t] = NULL
             ELSE /\ view[t] \in {NULL, specific'[slot_key][t]}
                  /\ heap'[specific'[slot_key][t]] =
                        IF last[t] = NULL THEN Garbage ELSE Context(last[t])
  BY <1>1, <1>3 DEF SlotSame, SlotInv, Shows
<1>4. ASSUME cleaned, NEW t \in running, view[t] # NULL
      PROVE  /\ view[t] \in abandoned'
             /\ heap'[view[t]] = IF last[t] = NULL THEN Garbage ELSE Context(last[t])
  BY <1>1, <1>4 DEF SlotSame, SlotInv, Shows
<1>5. running' = running /\ view' = view /\ last' = last /\ cleaned' = cleaned
  BY DEF SlotSame
<1> QED
  BY <1>1, <1>2, <1>3, <1>4, <1>5 DEF SlotInv, Shows, SlotSame

LEMMA NothingUsed ==
    ASSUME IInv, UNCHANGED <<g_static_handle, running, cleaned, view, last, handle_key,
                             specific, heap, abandoned>>
    PROVE  SlotInv'
  BY SlotStays DEF SlotSame, IInv, SlotInv, TLSP!AllocatedHandles, slot_key

\* The calls of other users.

LEMMA CreateKeepsSlot ==
    ASSUME IInv, NEW t \in running, NEW h \in Handles, NEW k \in Keys,
           TLSP!Create(t, h, k), UNCHANGED <<view, last>>
    PROVE  SlotInv'
<1> USE DEF TLSP!Create, TLSP!NewHandle, TLSP!process
<1>1. /\ handle_key \in [Handles -> Keys \cup {NULL}]
      /\ specific \in [Keys -> [Threads -> Buffers \cup {NULL}]]
  BY DEF IInv, TLSP!IInv, TLSP!StorageInv, TLSP!StorageTypes
<1>2. slot_open => /\ g_static_handle \in Handles /\ handle_key[g_static_handle] # NULL
                   /\ slot_key \in keys /\ slot_key \in Keys
  BY SlotStorage DEF IInv, SlotInv, TLSP!AllocatedHandles
<1>3. slot_open => g_static_handle # h /\ slot_key # k
  BY <1>2
<1>4. slot_open => /\ handle_key'[g_static_handle] = slot_key
                   /\ specific'[slot_key] = specific[slot_key]
  BY <1>1, <1>2, <1>3 DEF slot_key
<1> QED
  BY <1>2, <1>4, SlotStays DEF SlotSame, TLSP!AllocatedHandles, slot_key

LEMMA DestroyKeepsSlot ==
    ASSUME IInv, NEW t \in running, NEW h \in TLSP!OwnHandles,
           TLSP!Destroy(t, h), UNCHANGED <<view, last>>
    PROVE  SlotInv'
<1>1. /\ TLSP!DeleteHandle(h) /\ UNCHANGED <<g_static_handle, running, cleaned>>
      /\ h \in TLSP!AllocatedHandles /\ h \in Handles
  BY SlotStorage DEF TLSP!Destroy, TLSP!OwnHandles, TLSP!AllocatedHandles, TLSP!process
<1>2. /\ handle_key \in [Handles -> Keys \cup {NULL}]
      /\ specific \in [Keys -> [Threads -> Buffers \cup {NULL}]]
  BY DEF IInv, TLSP!IInv, TLSP!StorageInv, TLSP!StorageTypes
<1>3. slot_open => /\ g_static_handle \in TLSP!AllocatedHandles
                   /\ slot_key \in Keys /\ g_static_handle \in Handles /\ g_static_handle # h
  BY SlotStorage DEF IInv, SlotInv, TLSP!OwnHandles
<1>4. slot_open => slot_key # handle_key[h]
  BY <1>1, <1>3 DEF IInv, TLSP!IInv, TLSP!StorageInv, TLSP!KeysDistinct, slot_key
<1>5. slot_open => /\ handle_key'[g_static_handle] = slot_key
                   /\ specific'[slot_key] = specific[slot_key]
  BY <1>1, <1>2, <1>3, <1>4 DEF TLSP!DeleteHandle, slot_key
<1> QED
  BY <1>1, <1>3, <1>5, SlotStays DEF SlotSame, TLSP!DeleteHandle, TLSP!AllocatedHandles, slot_key

\* The buffer a thread uses under another handle is nobody's view.
LEMMA UseKeepsSlot ==
    ASSUME IInv, NEW t \in running, NEW h \in TLSP!OwnHandles, NEW b \in Buffers, NEW content,
           NEW k, k = handle_key[h], TLSP!UsesBuffer(t, k, b, content),
           UNCHANGED <<g_static_handle, running, cleaned, abandoned, view, last>>
    PROVE  SlotInv'
<1> USE DEF TLSP!UsesBuffer
<1>1. /\ specific \in [Keys -> [Threads -> Buffers \cup {NULL}]]
      /\ heap \in [Buffers -> {Context(e) : e \in Errors} \cup {Garbage, NULL}]
      /\ abandoned \subseteq Buffers /\ t \in Threads
  BY SlotStorage DEF IInv, TLSP!IInv, TLSP!StorageInv, TLSP!StorageTypes
<1>2. k \in keys /\ k \in Keys /\ h \in TLSP!AllocatedHandles
  BY TLSP!KeyOfHandle, StorageConstants DEF IInv, TLSP!IInv, TLSP!OwnHandles
<1>3. b \notin abandoned
  BY <1>1, <1>2, StorageConstants
     DEF IInv, TLSP!IInv, TLSP!StorageInv, TLSP!Owned, TLSP!BufferFor, TLSP!FreeBuffers
<1>4. slot_open => /\ slot_key \in keys /\ slot_key \in Keys /\ slot_key # k
                   /\ g_static_handle \in TLSP!AllocatedHandles
  BY <1>2, SlotStorage
     DEF IInv, SlotInv, TLSP!IInv, TLSP!StorageInv, TLSP!KeysDistinct, TLSP!OwnHandles, slot_key
<1>5. ASSUME slot_open, NEW u \in running
      PROVE  /\ specific'[slot_key][u] = specific[slot_key][u]
             /\ specific[slot_key][u] # b
  <2>1. u \in Threads
    BY SlotStorage
  <2>2. specific[slot_key][u] # b
    BY <1>1, <1>2, <1>4, <1>5, <2>1, TLSP!NobodyElseHolds, StorageConstants
       DEF IInv, TLSP!IInv
  <2> QED
    BY <1>1, <1>2, <1>4, <1>5, <2>1, <2>2
<1>6. \A c \in Buffers \ {b} : heap'[c] = heap[c]
  BY <1>1
<1>7. slot_open => \A u \in running : specific[slot_key][u] \in Buffers \cup {NULL}
  BY SlotStorage
<1> QED
  BY <1>1, <1>3, <1>4, <1>5, <1>6, <1>7, SlotStays DEF SlotSame, TLSP!AllocatedHandles, slot_key

LEMMA OtherCallKeepsSlot ==
    ASSUME IInv, NEW t \in running, OtherCall(t)
    PROVE  SlotInv'
<1> USE DEF TLSP!process
<1>1. UNCHANGED <<view, last>>
  BY DEF OtherCall
<1>2. ASSUME NEW error, TLSP!Refuse(t, error)
      PROVE  SlotInv'
  BY <1>1, <1>2, NothingUsed DEF TLSP!Refuse, TLSP!storage
<1>3. ASSUME NEW h \in TLSP!OwnHandles, TLSP!Get(t, h)
      PROVE  SlotInv'
  <2>1. CASE TLSP!GetData(t, h)
    <3>1. PICK b, content :
             /\ b \in Buffers
             /\ TLSP!BufferFor(t, handle_key[h], b)
             /\ specific' = [specific EXCEPT ![handle_key[h]][t] = b]
             /\ heap' = [heap EXCEPT ![b] = content]
             /\ UNCHANGED <<handle_key, keys, TLSP!process, abandoned>>
      BY <2>1 DEF TLSP!GetData
    <3>2. PICK k : k = handle_key[h]
      OBVIOUS
    <3>3. TLSP!UsesBuffer(t, k, b, content)
      BY <3>1, <3>2 DEF TLSP!UsesBuffer
    <3> QED
      BY <1>1, <3>1, <3>2, <3>3, UseKeepsSlot
  <2> QED
    BY <1>2, <1>3, <2>1, SlotStorage
       DEF TLSP!Get, TLSP!FirstUseFails, TLSP!OwnHandles, TLSP!AllocatedHandles
<1>4. ASSUME NEW h \in TLSP!OwnHandles, NEW v, TLSP!Set(t, h, v, "none")
      PROVE  SlotInv'
  <2>1. CASE TLSP!SetData(t, h, v, "none")
    <3>1. PICK b, content :
             /\ b \in Buffers
             /\ TLSP!BufferFor(t, handle_key[h], b)
             /\ specific' = [specific EXCEPT ![handle_key[h]][t] = b]
             /\ heap' = [heap EXCEPT ![b] = content]
             /\ UNCHANGED <<handle_key, keys, TLSP!process, abandoned>>
      BY <2>1 DEF TLSP!SetData
    <3>2. PICK k : k = handle_key[h]
      OBVIOUS
    <3>3. TLSP!UsesBuffer(t, k, b, content)
      BY <3>1, <3>2 DEF TLSP!UsesBuffer
    <3> QED
      BY <1>1, <3>1, <3>2, <3>3, UseKeepsSlot
  <2> QED
    BY <1>2, <1>4, <2>1, SlotStorage
       DEF TLSP!Set, TLSP!FirstUseFails, TLSP!OwnHandles, TLSP!AllocatedHandles
<1> QED
  BY <1>1, <1>3, <1>4, CallsOfStorage, CreateKeepsSlot, DestroyKeepsSlot DEF OtherCall
-----------------------------------------------------------------------------
\* The calls of the slot's own users.

\* A thread that uses the slot works on its own buffer there.
LEMMA UseSlotKeepsSlot ==
    ASSUME IInv, slot_open, NEW t \in running, NEW b \in Buffers, NEW content,
           NEW k, k = slot_key, TLSP!UsesBuffer(t, k, b, content),
           UNCHANGED <<g_static_handle, running, cleaned, abandoned>>,
           view' = view \/ view' = [view EXCEPT ![t] = b],
           \/ last' = last /\ content = IF heap[b] = NULL THEN Garbage ELSE heap[b]
           \/ \E e \in Errors : last' = [last EXCEPT ![t] = e] /\ content = Context(e)
    PROVE  SlotInv' /\ Types'
<1> USE DEF TLSP!UsesBuffer
<1>1. /\ specific \in [Keys -> [Threads -> Buffers \cup {NULL}]]
      /\ heap \in [Buffers -> {Context(e) : e \in Errors} \cup {Garbage, NULL}]
      /\ running \subseteq Threads /\ Types
  BY DEF IInv, TLSP!IInv, TLSP!StorageInv, TLSP!StorageTypes
<1>2. /\ k \in keys /\ k \in Keys /\ g_static_handle \in TLSP!AllocatedHandles
      /\ NULL \notin Buffers /\ t \in Threads /\ NULL \notin Errors
  BY <1>1, SlotStorage, ConstantsAssumption DEF IInv, SlotInv, ConstantsAssumption
<1>3. /\ slot_open' /\ slot_key' = k /\ g_static_handle \in TLSP!AllocatedHandles'
  BY <1>2 DEF slot_open, slot_key, TLSP!AllocatedHandles
<1>4. /\ specific'[k][t] = b /\ heap'[b] = content
      /\ \A u \in Threads \ {t} : specific'[k][u] = specific[k][u]
      /\ \A c \in Buffers \ {b} : heap'[c] = heap[c]
  BY <1>1, <1>2
<1>5. ASSUME NEW u \in running \ {t}
      PROVE  specific[k][u] # b /\ u \in Threads /\ specific[k][u] \in Buffers \cup {NULL}
  <2>1. u \in Threads
    BY <1>1
  <2>2. specific[k][u] # b
    BY <1>2, <2>1, TLSP!NobodyElseHolds, StorageConstants DEF IInv, TLSP!IInv
  <2> QED
    BY <1>1, <1>2, <2>1, <2>2
<1>6. Types'
  BY <1>1, <1>2 DEF Types
<1>7. ASSUME NEW u \in running \ {t}
      PROVE  view'[u] = view[u] /\ last'[u] = last[u]
  BY <1>1, <1>2, <1>5 DEF Types
<1>8. ASSUME NEW u \in running
      PROVE  IF specific[k][u] = NULL THEN view[u] = NULL /\ last[u] = NULL
             ELSE view[u] \in {NULL, specific[k][u]} /\ Shows(u, specific[k][u])
  BY DEF IInv, SlotInv
<1>9. ASSUME NEW u \in running \ {t}
      PROVE  IF specific'[k][u] = NULL THEN view'[u] = NULL /\ last'[u] = NULL
             ELSE view'[u] \in {NULL, specific'[k][u]} /\ Shows(u, specific[k][u])'
  <2>1. specific'[k][u] = specific[k][u]
    BY <1>4, <1>5
  <2>2. specific[k][u] # NULL => heap'[specific[k][u]] = heap[specific[k][u]]
    BY <1>4, <1>5
  <2> QED
    BY <1>7, <1>8, <2>1, <2>2 DEF Shows
<1>10. view'[t] \in {NULL, b}
  <2>1. view[t] \in {NULL, b}
    BY <1>8 DEF TLSP!BufferFor
  <2> QED
    BY <1>1, <1>2, <2>1 DEF Types
<1>11. content = IF last'[t] = NULL THEN Garbage ELSE Context(last'[t])
  <2>1. CASE last' = last /\ content = IF heap[b] = NULL THEN Garbage ELSE heap[b]
    <3>1. CASE specific[k][t] = NULL
      <4>1. last'[t] = NULL /\ heap[b] = NULL
        BY <1>8, <2>1, <3>1 DEF TLSP!BufferFor, TLSP!FreeBuffers
      <4> QED
        BY <2>1, <4>1
    <3>2. CASE specific[k][t] # NULL
      <4>1. b = specific[k][t] /\ heap[b] # NULL
        BY <1>2, <3>2 DEF TLSP!BufferFor, IInv, TLSP!IInv, TLSP!StorageInv, TLSP!Owned
      <4> QED
        BY <1>8, <2>1, <3>2, <4>1 DEF Shows
    <3> QED
      BY <3>1, <3>2
  <2>2. ASSUME NEW e \in Errors, last' = [last EXCEPT ![t] = e], content = Context(e)
        PROVE  content = IF last'[t] = NULL THEN Garbage ELSE Context(last'[t])
    <3>1. last'[t] = e /\ e # NULL
      BY <1>1, <1>2, <2>2 DEF Types
    <3> QED
      BY <2>2, <3>1
  <2> QED
    BY <2>1, <2>2
<1>12. b # NULL /\ ~cleaned' /\ running' = running /\ g_static_handle' # NULL
  BY <1>2 DEF slot_open
<1>13. ASSUME NEW u \in running
       PROVE  IF specific'[k][u] = NULL THEN view'[u] = NULL /\ last'[u] = NULL
              ELSE /\ view'[u] \in {NULL, specific'[k][u]}
                   /\ heap'[specific'[k][u]] = IF last'[u] = NULL THEN Garbage
                                               ELSE Context(last'[u])
  <2>1. CASE u = t
    BY <1>4, <1>10, <1>11, <1>12, <2>1
  <2>2. CASE u # t
    BY <1>4, <1>5, <1>9, <2>2 DEF Shows
  <2> QED
    BY <2>1, <2>2
<1>14. g_static_handle' \in TLSP!AllocatedHandles'
  BY <1>3
<1>15. SlotInv'
  BY <1>3, <1>12, <1>13, <1>14 DEF SlotInv, Shows
<1> QED
  BY <1>6, <1>15

\* A refused call changes neither views nor errors.
LEMMA RefusedStays ==
    ASSUME IInv, NEW t \in running, NEW error, TLSP!Refuse(t, error), error # "ok"
    PROVE  /\ result'[t] # "ok"
           /\ UNCHANGED <<view, last>> => SlotInv' /\ Types'
<1>1. result'[t] = error
  BY SlotStorage DEF TLSP!Refuse, TLSP!Return, IInv, TLSP!IInv, TLSP!CallTypes
<1>2. UNCHANGED <<view, last>> => SlotInv' /\ Types'
  BY NothingUsed DEF TLSP!Refuse, TLSP!storage, TLSP!process, IInv, Types
<1> QED
  BY <1>1, <1>2

LEMMA ErrSetKeepsSlot ==
    ASSUME IInv, ~cleaned, NEW t \in running, NEW e \in Errors, ErrSet(t, e)
    PROVE  SlotInv' /\ Types'
<1> DEFINE v == Context(e)
<1>1. /\ TLSP!StaticSet(t, v, "none") /\ view' = view
      /\ last' = [last EXCEPT ![t] = IF result'[t] = "ok" THEN e ELSE @]
  BY CallsOfStorage DEF ErrSet
<1>2. t \in Threads /\ Types
  BY SlotStorage DEF IInv
<1>3. CASE \E error \in {"not_initialized", "invalid_parameter", "no_memory", "err"} :
              TLSP!Refuse(t, error)
  <2>1. PICK error \in {"not_initialized", "invalid_parameter", "no_memory", "err"} :
           TLSP!Refuse(t, error)
    BY <1>3
  <2>2. result'[t] # "ok"
    BY <2>1, RefusedStays
  <2>3. last' = last
    BY <1>1, <1>2, <2>2 DEF Types
  <2> QED
    BY <1>1, <2>1, <2>3, RefusedStays
<1>4. CASE g_static_handle # NULL /\ TLSP!SetData(t, g_static_handle, v, "none")
  <2>1. PICK b \in Buffers :
           /\ TLSP!BufferFor(t, slot_key, b)
           /\ specific' = [specific EXCEPT ![slot_key][t] = b]
           /\ heap' = [heap EXCEPT ![b] = v]
           /\ UNCHANGED <<handle_key, keys, TLSP!process, abandoned>>
           /\ TLSP!Return(t, "ok", v)
    BY <1>4 DEF TLSP!SetData, slot_key
  <2>2. result'[t] = "ok"
    BY <1>2, <2>1 DEF TLSP!Return, IInv, TLSP!IInv, TLSP!CallTypes
  <2>3. last' = [last EXCEPT ![t] = e]
    BY <1>1, <2>2
  <2>4. PICK k : k = slot_key
    OBVIOUS
  <2>5. TLSP!UsesBuffer(t, k, b, v)
    BY <2>1, <2>4 DEF TLSP!UsesBuffer
  <2> HIDE DEF v
  <2>6. v = Context(e)
    BY DEF v
  <2> QED
    BY <1>1, <1>4, <2>1, <2>3, <2>4, <2>5, <2>6, UseSlotKeepsSlot DEF slot_open, TLSP!process
<1> QED
  BY <1>1, <1>3, <1>4 DEF TLSP!StaticSet, TLSP!Set, TLSP!FirstUseFails

LEMMA ErrGetKeepsSlot ==
    ASSUME IInv, ~cleaned, NEW t \in running, ErrGet(t)
    PROVE  SlotInv' /\ Types'
<1>1. /\ TLSP!StaticGet(t) /\ last' = last
      /\ view' = [view EXCEPT ![t] = IF result'[t] = "ok"
                                       THEN specific'[slot_key][t] ELSE @]
  BY CallsOfStorage DEF ErrGet, slot_key
<1>2. t \in Threads /\ Types
  BY SlotStorage DEF IInv
<1>3. CASE \E error \in {"not_initialized", "invalid_parameter", "no_memory", "err"} :
              TLSP!Refuse(t, error)
  <2>1. PICK error \in {"not_initialized", "invalid_parameter", "no_memory", "err"} :
           TLSP!Refuse(t, error)
    BY <1>3
  <2>2. result'[t] # "ok"
    BY <2>1, RefusedStays
  <2>3. view' = view
    BY <1>1, <1>2, <2>2 DEF Types
  <2> QED
    BY <1>1, <2>1, <2>3, RefusedStays
<1>4. CASE g_static_handle # NULL /\ TLSP!GetData(t, g_static_handle)
  <2>1. PICK b, content :
           /\ b \in Buffers
           /\ TLSP!BufferFor(t, slot_key, b)
           /\ specific' = [specific EXCEPT ![slot_key][t] = b]
           /\ content = IF heap[b] = NULL THEN Garbage ELSE heap[b]
           /\ heap' = [heap EXCEPT ![b] = content]
           /\ UNCHANGED <<handle_key, keys, TLSP!process, abandoned>>
           /\ \E answer : TLSP!Return(t, "ok", answer)
    BY <1>4 DEF TLSP!GetData, slot_key
  <2>2. result'[t] = "ok"
    BY <1>2, <2>1 DEF TLSP!Return, IInv, TLSP!IInv, TLSP!CallTypes
  <2>3. specific'[slot_key][t] = b
    BY <1>2, <1>4, <2>1, SlotStorage
       DEF slot_open, IInv, TLSP!IInv, TLSP!StorageInv, TLSP!StorageTypes
  <2>4. view' = [view EXCEPT ![t] = b]
    BY <1>1, <2>2, <2>3
  <2>5. PICK k : k = slot_key
    OBVIOUS
  <2>6. TLSP!UsesBuffer(t, k, b, content)
    BY <2>1, <2>5 DEF TLSP!UsesBuffer
  <2> QED
    BY <1>1, <1>4, <2>1, <2>4, <2>5, <2>6, UseSlotKeepsSlot DEF slot_open, TLSP!process
<1> QED
  BY <1>1, <1>3, <1>4 DEF TLSP!StaticGet, TLSP!Get, TLSP!FirstUseFails

\* A new slot holds nothing, and nobody had a view.
LEMMA InitKeepsSlot ==
    ASSUME IInv, ~cleaned, NEW t \in running, TLSP!StaticInit(t), UNCHANGED <<view, last>>
    PROVE  SlotInv' /\ Types'
<1>1. Types'
  BY DEF IInv, Types
<1>2. CASE UNCHANGED <<TLSP!storage, g_static_handle, running, cleaned, abandoned>>
  BY <1>1, <1>2, NothingUsed DEF TLSP!storage
<1>3. ASSUME NEW h \in Handles, NEW k \in Keys, g_static_handle = NULL,
             TLSP!NewHandle(h, k), g_static_handle' = h,
             UNCHANGED <<running, cleaned, abandoned>>
      PROVE  SlotInv'
  <2>1. h # NULL /\ k # NULL
    BY SlotStorage
  <2>2. /\ handle_key'[h] = k /\ \A u \in Threads : specific'[k][u] = NULL
    BY <1>3 DEF TLSP!NewHandle, IInv, TLSP!IInv, TLSP!StorageInv, TLSP!StorageTypes
  <2>3. \A u \in running : u \in Threads /\ view[u] = NULL /\ last[u] = NULL
    BY <1>3, SlotStorage DEF IInv, SlotInv
  <2>4. h \in TLSP!AllocatedHandles'
    BY <2>1, <2>2 DEF TLSP!AllocatedHandles
  <2>5. slot_key' = k
    BY <1>3, <2>2 DEF slot_key
  <2> QED
    BY <1>3, <2>1, <2>2, <2>3, <2>4, <2>5 DEF SlotInv
<1> QED
  BY <1>1, <1>2, <1>3 DEF TLSP!StaticInit, TLSP!process

\* Views outlive the slot: the cleanup abandons their buffers.
LEMMA CleanupKeepsSlot ==
    ASSUME IInv, ~cleaned, NEW t \in running, TLSP!StaticCleanup(t), UNCHANGED <<view, last>>
    PROVE  SlotInv' /\ Types'
<1>1. Types'
  BY DEF IInv, Types
<1>2. CASE TLSP!Refuse(t, "not_initialized")
  BY <1>2, RefusedStays
<1>3. CASE /\ g_static_handle \in TLSP!AllocatedHandles /\ TLSP!DeleteHandle(g_static_handle)
           /\ cleaned' = TRUE /\ UNCHANGED <<g_static_handle, running>>
  <2>1. slot_open
    BY <1>3, SlotStorage DEF slot_open, TLSP!AllocatedHandles
  <2>2. /\ heap' = heap
        /\ \A u \in running : specific[slot_key][u] # NULL => specific[slot_key][u] \in abandoned'
    BY <1>3, SlotStorage DEF TLSP!DeleteHandle, slot_key
  <2>3. ASSUME NEW u \in running, view[u] # NULL
        PROVE  /\ view[u] \in abandoned'
               /\ heap'[view[u]] = IF last[u] = NULL THEN Garbage ELSE Context(last[u])
    BY <2>1, <2>2, <2>3 DEF IInv, SlotInv, Shows
  <2>4. ~slot_open' /\ g_static_handle' # NULL
    BY <1>3, <2>1 DEF slot_open
  <2> QED
    BY <1>1, <1>3, <2>3, <2>4 DEF SlotInv, Shows
<1> QED
  BY <1>2, <1>3 DEF TLSP!StaticCleanup

\* A thread that ends frees its own buffers, and its views end with it.
LEMMA ExitKeepsSlot ==
    ASSUME IInv, NEW t \in running, ThreadExit(t)
    PROVE  SlotInv' /\ Types'
<1> DEFINE held == {specific[k][t] : k \in keys} \ {NULL}
<1>1. /\ TLSP!ThreadExit(t)
      /\ view' = [view EXCEPT ![t] = NULL] /\ last' = [last EXCEPT ![t] = NULL]
  BY CallsOfStorage DEF ThreadExit
<1>2. /\ specific \in [Keys -> [Threads -> Buffers \cup {NULL}]]
      /\ heap \in [Buffers -> {Context(e) : e \in Errors} \cup {Garbage, NULL}]
      /\ running \subseteq Threads /\ abandoned \subseteq Buffers /\ Types
      /\ keys \subseteq Keys
  BY TLSP!KeyOfHandle, StorageConstants DEF IInv, TLSP!IInv, TLSP!StorageInv, TLSP!StorageTypes
<1>3. /\ running' = running \ {t} /\ t \in Threads
      /\ UNCHANGED <<handle_key, g_static_handle, cleaned, abandoned>>
  BY <1>1, <1>2 DEF TLSP!ThreadExit
<1>4. \A k \in Keys, u \in Threads \ {t} : specific'[k][u] = specific[k][u]
  BY <1>1, <1>2 DEF TLSP!ThreadExit
<1>5. \A b \in Buffers \ held : heap'[b] = heap[b]
  BY <1>1, <1>2 DEF TLSP!ThreadExit
<1>6. \A u \in running \ {t} : view'[u] = view[u] /\ last'[u] = last[u]
  BY <1>1, <1>2 DEF Types
<1>7. Types'
  BY <1>1, <1>2 DEF Types
<1>8. slot_open' = slot_open /\ slot_key' = slot_key
  BY <1>3 DEF slot_open, slot_key
<1>9. ASSUME slot_open, NEW u \in running \ {t}
      PROVE  /\ specific'[slot_key][u] = specific[slot_key][u]
             /\ specific[slot_key][u] # NULL =>
                   heap'[specific[slot_key][u]] = heap[specific[slot_key][u]]
  <2>1. slot_key \in keys /\ slot_key \in Keys /\ u \in Threads
    BY <1>2, <1>9, SlotStorage
  <2>2. specific[slot_key][u] \in Buffers \cup {NULL}
    BY <1>2, <2>1
  <2>3. specific[slot_key][u] # NULL => specific[slot_key][u] \notin held
    BY <1>3, <2>1 DEF IInv, TLSP!IInv, TLSP!StorageInv, TLSP!Owned
  <2> QED
    BY <1>4, <1>5, <2>1, <2>2, <2>3
<1>10. \A b \in abandoned : heap'[b] = heap[b]
  BY <1>2, <1>3, <1>5 DEF IInv, TLSP!IInv, TLSP!StorageInv, TLSP!Owned
<1>11. ASSUME slot_open, NEW u \in running \ {t}
       PROVE  IF specific'[slot_key][u] = NULL THEN view'[u] = NULL /\ last'[u] = NULL
              ELSE /\ view'[u] \in {NULL, specific'[slot_key][u]}
                   /\ heap'[specific'[slot_key][u]] =
                         IF last'[u] = NULL THEN Garbage ELSE Context(last'[u])
  BY <1>6, <1>9, <1>11 DEF IInv, SlotInv, Shows
<1>12. ASSUME cleaned, NEW u \in running \ {t}, view'[u] # NULL
       PROVE  /\ view'[u] \in abandoned
              /\ heap'[view'[u]] = IF last'[u] = NULL THEN Garbage ELSE Context(last'[u])
  BY <1>6, <1>10, <1>12 DEF IInv, SlotInv, Shows
<1>13. /\ cleaned' => g_static_handle' # NULL
       /\ g_static_handle' = NULL => \A u \in running' : view'[u] = NULL /\ last'[u] = NULL
       /\ slot_open => g_static_handle' \in TLSP!AllocatedHandles'
  BY <1>3, <1>6 DEF IInv, SlotInv, TLSP!AllocatedHandles
<1>14. SlotInv'
  BY <1>3, <1>8, <1>11, <1>12, <1>13 DEF SlotInv, Shows
<1> QED
  BY <1>7, <1>14

LEMMA InvariantHolds == Spec => []IInv
<1>1. Init => IInv
  <2> SUFFICES ASSUME Init PROVE IInv
    OBVIOUS
  <2>1. TLSP!IInv
    BY CallsOfStorage, TLSP!InitInv, StorageConstants DEF Init
  <2>2. g_static_handle = NULL /\ cleaned = FALSE
    BY DEF Init, TLS!Init
  <2>3. running \subseteq Threads
    BY <2>1 DEF TLSP!IInv, TLSP!StorageInv, TLSP!StorageTypes
  <2>4. Types
    BY DEF Init, Types
  <2>5. \A t \in running : view[t] = NULL /\ last[t] = NULL
    BY <2>3 DEF Init
  <2>6. SlotInv
    BY <2>2, <2>5 DEF SlotInv, slot_open
  <2> QED
    BY <2>1, <2>4, <2>6 DEF IInv
<1>2. IInv /\ [Next]_vars => IInv'
  <2> SUFFICES ASSUME IInv, [Next]_vars PROVE IInv'
    OBVIOUS
  <2>1. TLSP!IInv'
    BY StorageStep
  <2>2. SlotInv' /\ Types'
    <3>1. CASE UNCHANGED vars
      BY <3>1, NothingUsed DEF vars, storage, Types, IInv
    <3>2. ASSUME NEW t \in running, ~cleaned, StaticCall(t)
          PROVE  SlotInv' /\ Types'
      BY <3>2, CallsOfStorage, ErrSetKeepsSlot, ErrGetKeepsSlot, InitKeepsSlot,
         CleanupKeepsSlot DEF StaticCall
    <3>3. ASSUME NEW t \in running, OtherCall(t)
          PROVE  SlotInv' /\ Types'
      BY <3>3, OtherCallKeepsSlot DEF OtherCall, IInv, Types
    <3> QED
      BY <3>1, <3>2, <3>3, ExitKeepsSlot DEF Next
  <2> QED
    BY <2>1, <2>2 DEF IInv
<1> QED
  BY <1>1, <1>2, PTL DEF Spec
-----------------------------------------------------------------------------
\* A message is stored whole, or cut behind as many characters as fit.
LEMMA FormattedIsPrefix ==
    ASSUME NEW e \in Errors
    PROVE  IsPrefix(Formatted(e.msg), e.msg) /\ Len(Formatted(e.msg)) < MsgSize
<1> DEFINE S == {e.msg[i] : i \in DOMAIN e.msg}
<1>1. PICK msg : msg = e.msg /\ msg \in Seq(S)
  BY ConstantsAssumption DEF ConstantsAssumption
<1> HIDE DEF S
<1>2. PICK n \in Nat : n = Len(msg) /\ MsgSize \in Nat \ {0}
  BY <1>1, ConstantsAssumption DEF ConstantsAssumption
<1>3. CASE n < MsgSize
  <2>1. Formatted(msg) = msg
    BY <1>2, <1>3 DEF Formatted
  <2> QED
    BY <1>1, <1>2, <1>3, <2>1 DEF IsPrefix
<1>4. CASE ~(n < MsgSize)
  <2>1. PICK m \in Nat : m = MsgSize - 1 /\ m <= n /\ m < MsgSize
    BY <1>2, <1>4
  <2>2. PICK cut : cut = SubSeq(msg, 1, m) /\ cut = Formatted(msg)
    BY <1>2, <1>4, <2>1 DEF Formatted
  <2>3. /\ cut \in Seq(S) /\ Len(cut) = m
    BY <1>1, <1>2, <2>1, <2>2, SubSeqProperties
  <2>4. SubSeq(cut, 1, m) = cut
    <3>1. /\ SubSeq(cut, 1, m) \in Seq(S) /\ Len(SubSeq(cut, 1, m)) = m
          /\ \A i \in 1 .. m : SubSeq(cut, 1, m)[i] = cut[1 + i - 1]
      BY <2>1, <2>3, SubSeqProperties
    <3>2. \A i \in 1 .. m : SubSeq(cut, 1, m)[i] = cut[i]
      BY <2>1, <3>1
    <3> QED
      BY <2>3, <3>1, <3>2, SeqEqual
  <2>5. IsPrefix(cut, msg)
    BY <1>2, <2>1, <2>2, <2>3, <2>4 DEF IsPrefix
  <2> QED
    BY <1>1, <2>1, <2>2, <2>3, <2>5
<1> QED
  BY <1>3, <1>4

\* A pointer err_get returned shows the error its thread set last, as long as the
\* thread lives, whatever other threads, other handles and a cleanup do (errors.h:30).
THEOREM ViewAlwaysShowsLastError == Spec => []ViewShowsLastError
<1>1. ASSUME IInv, NEW t \in running, view[t] # NULL
      PROVE  Shows(t, view[t])
  BY <1>1 DEF IInv, SlotInv, slot_open
<1>2. ASSUME IInv, NEW t \in running, view[t] # NULL, last[t] # NULL
      PROVE  /\ heap[view[t]] \notin {Garbage, NULL}
             /\ heap[view[t]].code = last[t].code
             /\ IsPrefix(heap[view[t]].msg, last[t].msg)
             /\ Len(heap[view[t]].msg) < MsgSize
  <2>1. PICK e \in Errors : e = last[t]
    BY <1>2, SlotStorage DEF IInv, Types
  <2>2. heap[view[t]] = Context(e)
    BY <1>1, <1>2, <2>1 DEF Shows
  <2>3. Context(e) \notin {Garbage, NULL}
    BY ConstantsAssumption DEF ConstantsAssumption
  <2>4. Context(e).code = e.code /\ Context(e).msg = Formatted(e.msg)
    BY DEF Context
  <2> QED
    BY <2>1, <2>2, <2>3, <2>4, FormattedIsPrefix
<1>3. IInv => ViewShowsLastError
  BY <1>1, <1>2 DEF ViewShowsLastError, Shows
<1> QED
  BY <1>3, InvariantHolds, PTL

\* Once a thread has set or got an error, setting one cannot fail for want of memory
\* until the slot is cleaned up (errors.c:30).
THEOREM SetsAlwaysWork == Spec => SetsKeepWorking
<1> DEFINE Works ==
      \A t \in running, e \in Errors :
          (~cleaned /\ (view[t] # NULL \/ last[t] # NULL) /\ ErrSet(t, e)) =>
              result'[t] = "ok"
<1>1. ASSUME IInv, NEW t \in running, NEW e \in Errors, ~cleaned,
             view[t] # NULL \/ last[t] # NULL, ErrSet(t, e)
      PROVE  result'[t] = "ok"
  <2>1. g_static_handle # NULL /\ slot_open
    BY <1>1 DEF IInv, SlotInv, slot_open
  <2>2. specific[slot_key][t] # NULL
    BY <1>1, <2>1 DEF IInv, SlotInv
  <2>3. Context(e) # NULL
    BY ConstantsAssumption DEF ConstantsAssumption
  <2>4. TLSP!SetData(t, g_static_handle, Context(e), "none")
    BY <1>1, <2>1, <2>2, <2>3, CallsOfStorage
       DEF ErrSet, TLSP!StaticSet, TLSP!Set, TLSP!FirstUseFails, slot_key
  <2>5. \E answer : TLSP!Return(t, "ok", answer)
    BY <2>4 DEF TLSP!SetData
  <2> QED
    BY <1>1, <2>5, SlotStorage DEF TLSP!Return, IInv, TLSP!IInv, TLSP!CallTypes
<1>2. IInv => Works
  BY <1>1
<1> QED
  BY <1>2, InvariantHolds, PTL DEF SetsKeepWorking
=============================================================================
