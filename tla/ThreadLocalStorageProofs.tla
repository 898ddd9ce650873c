----------------------- MODULE ThreadLocalStorageProofs -----------------------
(****************************************************************************)
(* Proofs about ThreadLocalStorage, for any number of threads, handles,     *)
(* keys and buffers, and every order in which threads create, use and       *)
(* destroy handles, use the static slot and end.                            *)
(****************************************************************************)
EXTENDS ThreadLocalStorage, TLAPS

\* TypeOK in two parts: the storage, and the calls.
StorageTypes ==
    /\ handle_key \in [Handles -> Keys \cup {NULL}]
    /\ keys = {handle_key[h] : h \in AllocatedHandles}
    /\ specific \in [Keys -> [Threads -> Buffers \cup {NULL}]]
    /\ heap \in [Buffers -> Values \cup {Garbage, NULL}]
    /\ running \subseteq Threads
    /\ abandoned \subseteq Buffers

CallTypes ==
    /\ g_static_handle \in Handles \cup {NULL}
    /\ exited \in BOOLEAN /\ cleaned \in BOOLEAN
    /\ out \in [Threads -> Values \cup {Garbage, NoAnswer}]
    /\ result \in [Threads -> {"none", "ok", "invalid_parameter", "no_memory", "err",
                               "not_initialized"}]

\* No two handles share a key, so that deleting one leaves the others theirs.
KeysDistinct ==
    \A g, h \in AllocatedHandles : handle_key[g] = handle_key[h] => g = h

\* BuffersOwned and NothingElseLeaks, said of each buffer.
Owned ==
    /\ \A k \in keys, t \in Threads :
          specific[k][t] # NULL => /\ heap[specific[k][t]] # NULL
                                   /\ specific[k][t] \notin abandoned
    /\ \A k, l \in keys, t, u \in Threads :
          (specific[k][t] # NULL /\ specific[k][t] = specific[l][u]) => k = l /\ t = u
    /\ \A k \in keys, t \in Threads \ running : specific[k][t] = NULL
    /\ \A b \in abandoned : heap[b] # NULL
    /\ \A b \in Buffers :
          heap[b] # NULL => b \in abandoned \/ \E k \in keys, t \in Threads : specific[k][t] = b

\* The inductive invariant: a handle may be destroyed, and its key reused, only
\* because no other handle has that key.
StorageInv == StorageTypes /\ KeysDistinct /\ Owned
IInv == StorageInv /\ CallTypes
-----------------------------------------------------------------------------
LEMMA Constants ==
    /\ NULL \notin Handles /\ NULL \notin Keys /\ NULL \notin Buffers
    /\ NULL # Garbage /\ NULL \notin Values /\ InitThread \in Threads
  BY ConstantsAssumption DEF ConstantsAssumption

\* The keys in use are the handles' keys.
LEMMA KeyOfHandle ==
    ASSUME StorageInv
    PROVE  /\ keys \subseteq Keys
           /\ \A h \in AllocatedHandles : h \in Handles /\ handle_key[h] \in keys
           /\ \A k \in keys : \E h \in AllocatedHandles : handle_key[h] = k
           /\ \A k \in keys, t \in Threads : specific[k][t] \in Buffers \cup {NULL}
  BY Constants DEF StorageInv, StorageTypes, AllocatedHandles

\* A call's answer and code.
LEMMA ReturnTypes ==
    ASSUME CallTypes, NEW t \in Threads, NEW answer \in Values \cup {Garbage, NoAnswer},
           NEW code \in {"none", "ok", "invalid_parameter", "no_memory", "err",
                         "not_initialized"},
           Return(t, code, answer),
           g_static_handle' \in Handles \cup {NULL},
           exited' \in BOOLEAN, cleaned' \in BOOLEAN
    PROVE  CallTypes'
  BY DEF CallTypes, Return

LEMMA SameStorage ==
    ASSUME StorageInv, UNCHANGED <<storage, running, abandoned>>
    PROVE  StorageInv'
<1> USE DEF storage, AllocatedHandles
<1>1. StorageTypes' /\ KeysDistinct'
  BY DEF StorageInv, StorageTypes, KeysDistinct
<1>2. Owned'
  BY DEF StorageInv, Owned
<1> QED
  BY <1>1, <1>2 DEF StorageInv

LEMMA RefuseKeepsInv ==
    ASSUME IInv, NEW t \in Threads,
           NEW error \in {"invalid_parameter", "no_memory", "err", "not_initialized"},
           Refuse(t, error)
    PROVE  IInv'
<1>1. StorageInv'
  BY SameStorage DEF IInv, Refuse, process
<1>2. CallTypes'
  BY ReturnTypes DEF IInv, CallTypes, Refuse, process
<1> QED
  BY <1>1, <1>2 DEF IInv
-----------------------------------------------------------------------------
\* What each operation does to the storage.

\* A new handle on an unused key.
LEMMA NewHandleKeepsInv ==
    ASSUME StorageInv, NEW h \in Handles, NEW k \in Keys, NewHandle(h, k),
           UNCHANGED <<running, abandoned>>
    PROVE  StorageInv'
<1>1. /\ handle_key' \in [Handles -> Keys \cup {NULL}]
      /\ handle_key'[h] = k /\ \A g \in Handles \ {h} : handle_key'[g] = handle_key[g]
  BY DEF StorageInv, StorageTypes, NewHandle
<1>2. AllocatedHandles' = AllocatedHandles \cup {h} /\ h \notin AllocatedHandles
  BY <1>1, Constants DEF AllocatedHandles, NewHandle
<1>3. keys' = keys \cup {k} /\ k \notin keys /\ keys \subseteq Keys
  BY KeyOfHandle DEF NewHandle
<1>4. keys' = {handle_key'[g] : g \in AllocatedHandles'}
  BY <1>1, <1>2, <1>3 DEF StorageInv, StorageTypes, AllocatedHandles
<1>5. /\ specific' \in [Keys -> [Threads -> Buffers \cup {NULL}]]
      /\ \A t \in Threads : specific'[k][t] = NULL
      /\ \A l \in keys : specific'[l] = specific[l]
  BY <1>3 DEF StorageInv, StorageTypes, NewHandle
<1>6. StorageTypes'
  BY <1>1, <1>4, <1>5 DEF StorageInv, StorageTypes, NewHandle
<1>7. KeysDistinct'
  BY <1>1, <1>2, <1>3, KeyOfHandle DEF StorageInv, KeysDistinct
<1>8. Owned'
  BY <1>3, <1>5 DEF StorageInv, Owned, NewHandle
<1> QED
  BY <1>6, <1>7, <1>8 DEF StorageInv

\* The buffers of a deleted key are abandoned.
LEMMA DeleteHandleKeepsInv ==
    ASSUME StorageInv, NEW h \in AllocatedHandles, DeleteHandle(h), UNCHANGED running
    PROVE  StorageInv'
<1>1. PICK k \in keys : k = handle_key[h] /\ k \in Keys
  BY KeyOfHandle
<1>2. /\ h \in Handles /\ handle_key' \in [Handles -> Keys \cup {NULL}]
      /\ handle_key'[h] = NULL /\ \A g \in Handles \ {h} : handle_key'[g] = handle_key[g]
  BY DEF StorageInv, StorageTypes, DeleteHandle, AllocatedHandles
<1>3. AllocatedHandles' = AllocatedHandles \ {h}
  BY <1>2 DEF AllocatedHandles
<1>4. keys' = keys \ {k} /\ heap' = heap
  BY <1>1 DEF DeleteHandle
<1>5. keys' = {handle_key'[g] : g \in AllocatedHandles'}
  <2>1. \A g \in AllocatedHandles : g # h <=> handle_key[g] # k
    BY <1>1 DEF StorageInv, KeysDistinct
  <2>2. keys = {handle_key[g] : g \in AllocatedHandles}
    BY DEF StorageInv, StorageTypes
  <2>3. \A g \in AllocatedHandles \ {h} : handle_key'[g] = handle_key[g]
    BY <1>2 DEF AllocatedHandles
  <2> QED
    BY <1>3, <1>4, <2>1, <2>2, <2>3
<1>6. /\ specific' \in [Keys -> [Threads -> Buffers \cup {NULL}]]
      /\ \A l \in keys' : specific'[l] = specific[l]
  BY <1>1, <1>4, KeyOfHandle DEF StorageInv, StorageTypes, DeleteHandle
<1>7. /\ abandoned' = abandoned \cup ({specific[k][t] : t \in Threads} \ {NULL})
      /\ abandoned' \subseteq Buffers
  BY <1>1, KeyOfHandle DEF StorageInv, StorageTypes, DeleteHandle
<1>8. StorageTypes'
  BY <1>2, <1>4, <1>5, <1>6, <1>7 DEF StorageInv, StorageTypes
<1>9. KeysDistinct'
  BY <1>2, <1>3, KeyOfHandle DEF StorageInv, KeysDistinct
<1>10. Owned'
  <2>1. ASSUME NEW l \in keys', NEW t \in Threads, specific[l][t] # NULL
        PROVE  heap[specific[l][t]] # NULL /\ specific[l][t] \notin abandoned'
    BY <1>1, <1>4, <1>7, <2>1 DEF StorageInv, Owned
  <2>2. \A b \in abandoned' : heap[b] # NULL
    BY <1>1, <1>7 DEF StorageInv, Owned
  <2>3. \A b \in Buffers : heap[b] # NULL =>
           b \in abandoned' \/ \E l \in keys', t \in Threads : specific[l][t] = b
    BY <1>1, <1>4, <1>7, Constants DEF StorageInv, Owned
  <2> QED
    BY <1>4, <1>6, <2>1, <2>2, <2>3 DEF StorageInv, Owned
<1> QED
  BY <1>8, <1>9, <1>10 DEF StorageInv

\* What get and set do to a buffer of the thread's.
UsesBuffer(t, k, b, content) ==
    /\ BufferFor(t, k, b)
    /\ specific' = [specific EXCEPT ![k][t] = b]
    /\ heap' = [heap EXCEPT ![b] = content]
    /\ UNCHANGED handle_key

\* The buffer a thread works on is held by no other thread and under no other key.
LEMMA NobodyElseHolds ==
    ASSUME StorageInv, NEW t \in Threads, NEW k \in keys, NEW b \in Buffers,
           BufferFor(t, k, b), NEW l \in keys, NEW u \in Threads, l # k \/ u # t
    PROVE  specific[l][u] # b
<1>1. CASE specific[k][t] # NULL
  BY <1>1, Constants DEF StorageInv, Owned, BufferFor
<1>2. CASE specific[k][t] = NULL
  <2>1. heap[b] = NULL
    BY <1>2 DEF BufferFor, FreeBuffers
  <2> QED
    BY <2>1, Constants DEF StorageInv, Owned
<1> QED
  BY <1>1, <1>2

\* A thread works on its buffer, or on a free one that it then holds.
LEMMA UseBufferKeepsInv ==
    ASSUME StorageInv, NEW t \in running, NEW k \in keys, NEW b \in Buffers,
           NEW content \in Values \cup {Garbage}, UsesBuffer(t, k, b, content),
           UNCHANGED <<keys, running, abandoned>>
    PROVE  StorageInv'
<1> USE DEF UsesBuffer
<1>1. k \in Keys /\ t \in Threads /\ b # NULL /\ content # NULL
  BY KeyOfHandle, Constants DEF StorageInv, StorageTypes
<1>2. /\ specific' \in [Keys -> [Threads -> Buffers \cup {NULL}]]
      /\ specific'[k][t] = b
      /\ \A l \in Keys, u \in Threads : l # k \/ u # t => specific'[l][u] = specific[l][u]
  BY <1>1 DEF StorageInv, StorageTypes
<1>3. /\ heap' \in [Buffers -> Values \cup {Garbage, NULL}]
      /\ heap'[b] # NULL /\ \A c \in Buffers \ {b} : heap'[c] = heap[c]
  BY <1>1 DEF StorageInv, StorageTypes
<1>4. StorageTypes' /\ KeysDistinct'
  BY <1>2, <1>3 DEF StorageInv, StorageTypes, KeysDistinct, AllocatedHandles
<1>5. ASSUME NEW l \in keys, NEW u \in Threads, l # k \/ u # t
      PROVE  specific[l][u] # b /\ l \in Keys
  BY <1>1, <1>5, KeyOfHandle, NobodyElseHolds
<1>6. b \notin abandoned
  <2>1. CASE specific[k][t] # NULL
    BY <1>1, <2>1 DEF StorageInv, Owned, BufferFor
  <2>2. CASE specific[k][t] = NULL
    BY <2>2 DEF StorageInv, Owned, BufferFor, FreeBuffers
  <2> QED
    BY <2>1, <2>2
<1>7. ASSUME NEW l \in keys, NEW u \in Threads, specific'[l][u] # NULL
      PROVE  heap'[specific'[l][u]] # NULL /\ specific'[l][u] \notin abandoned
  <2>1. CASE l = k /\ u = t
    BY <1>2, <1>3, <1>6, <2>1
  <2>2. CASE l # k \/ u # t
    <3>1. specific'[l][u] = specific[l][u] /\ specific[l][u] # b
      BY <1>2, <1>5, <2>2
    <3>2. specific[l][u] \in Buffers \ {b}
      BY <1>7, <3>1, KeyOfHandle
    <3> QED
      BY <1>3, <1>7, <3>1, <3>2 DEF StorageInv, Owned
  <2> QED
    BY <2>1, <2>2
<1>8. ASSUME NEW l \in keys, NEW m \in keys, NEW u \in Threads, NEW w \in Threads,
             specific'[l][u] # NULL, specific'[l][u] = specific'[m][w]
      PROVE  l = m /\ u = w
  <2>1. CASE (l = k /\ u = t) \/ (m = k /\ w = t)
    BY <1>2, <1>5, <1>8, <2>1
  <2>2. CASE (l # k \/ u # t) /\ (m # k \/ w # t)
    <3>1. specific'[l][u] = specific[l][u] /\ specific'[m][w] = specific[m][w]
      BY <1>2, <1>5, <2>2
    <3> QED
      BY <1>8, <3>1 DEF StorageInv, Owned
  <2> QED
    BY <2>1, <2>2
<1>9. ASSUME NEW l \in keys, NEW u \in Threads \ running
      PROVE  specific'[l][u] = NULL
  BY <1>2, <1>5, <1>9 DEF StorageInv, Owned
<1>10. \A c \in abandoned : heap'[c] # NULL
  BY <1>3, <1>6 DEF StorageInv, StorageTypes, Owned
<1>11. ASSUME NEW c \in Buffers, heap'[c] # NULL, c \notin abandoned
       PROVE  \E l \in keys, u \in Threads : specific'[l][u] = c
  <2>1. CASE c = b
    BY <1>1, <1>2, <2>1
  <2>2. CASE c # b
    <3>1. PICK l \in keys, u \in Threads : specific[l][u] = c
      BY <1>3, <1>11, <2>2 DEF StorageInv, Owned
    <3>2. l # k \/ u # t
      <4>1. specific[k][t] \in {b, NULL}
        BY <1>1 DEF BufferFor
      <4> QED
        BY <2>2, <3>1, <4>1, Constants
    <3> QED
      BY <1>2, <1>5, <3>1, <3>2
  <2> QED
    BY <2>1, <2>2
<1>12. Owned'
  BY <1>7, <1>8, <1>9, <1>10, <1>11 DEF Owned
<1> QED
  BY <1>4, <1>12 DEF StorageInv

\* The destructor frees the buffers of the thread that ends, and no others.
LEMMA ThreadExitKeepsInv ==
    ASSUME StorageInv, NEW t \in running, ThreadExit(t)
    PROVE  StorageInv'
<1> DEFINE held == {specific[k][t] : k \in keys} \ {NULL}
<1>1. /\ t \in Threads /\ running' = running \ {t}
      /\ UNCHANGED <<handle_key, keys, abandoned>>
  BY DEF StorageInv, StorageTypes, ThreadExit
<1>2. /\ specific' \in [Keys -> [Threads -> Buffers \cup {NULL}]]
      /\ \A k \in Keys : specific'[k][t] = NULL
      /\ \A k \in Keys, u \in Threads \ {t} : specific'[k][u] = specific[k][u]
  BY DEF StorageInv, StorageTypes, ThreadExit
<1>3. /\ heap' \in [Buffers -> Values \cup {Garbage, NULL}]
      /\ \A b \in Buffers : heap'[b] = IF b \in held THEN NULL ELSE heap[b]
  BY DEF StorageInv, StorageTypes, ThreadExit
<1>4. StorageTypes' /\ KeysDistinct'
  BY <1>1, <1>2, <1>3 DEF StorageInv, StorageTypes, KeysDistinct, AllocatedHandles
<1>5. keys \subseteq Keys
  BY KeyOfHandle
<1>6. ASSUME NEW k \in keys, NEW u \in Threads, specific'[k][u] # NULL
      PROVE  heap'[specific'[k][u]] # NULL /\ specific'[k][u] \notin abandoned
  <2>1. u # t /\ specific'[k][u] = specific[k][u]
    BY <1>2, <1>5, <1>6
  <2>2. specific[k][u] \notin held /\ specific[k][u] \in Buffers
    BY <1>1, <1>6, <2>1, KeyOfHandle DEF StorageInv, Owned
  <2> QED
    BY <1>3, <1>6, <2>1, <2>2 DEF StorageInv, Owned
<1>7. \A b \in abandoned : heap'[b] # NULL
  BY <1>1, <1>3 DEF StorageInv, StorageTypes, Owned
<1>8. ASSUME NEW b \in Buffers, heap'[b] # NULL, b \notin abandoned
      PROVE  \E k \in keys, u \in Threads : specific'[k][u] = b
  <2>1. b \notin held /\ heap[b] # NULL
    BY <1>3, <1>8
  <2>2. PICK k \in keys, u \in Threads : specific[k][u] = b
    BY <1>8, <2>1 DEF StorageInv, Owned
  <2>3. u # t
    BY <2>1, <2>2, Constants
  <2> QED
    BY <1>2, <1>5, <2>2, <2>3
<1>9. ASSUME NEW k \in keys, NEW l \in keys, NEW u \in Threads, NEW w \in Threads,
             specific'[k][u] # NULL, specific'[k][u] = specific'[l][w]
      PROVE  k = l /\ u = w
  BY <1>2, <1>5, <1>9 DEF StorageInv, Owned
<1>10. \A k \in keys, u \in Threads \ running' : specific'[k][u] = NULL
  BY <1>1, <1>2, <1>5 DEF StorageInv, Owned
<1>11. Owned'
  BY <1>1, <1>6, <1>7, <1>8, <1>9, <1>10 DEF Owned
<1> QED
  BY <1>4, <1>11 DEF StorageInv

\* A get stores nothing but undefined content in a new buffer.
LEMMA GetDataKeepsInv ==
    ASSUME IInv, NEW t \in running, NEW h \in AllocatedHandles, GetData(t, h)
    PROVE  IInv'
<1>1. PICK b \in Buffers :
         /\ BufferFor(t, handle_key[h], b)
         /\ specific' = [specific EXCEPT ![handle_key[h]][t] = b]
         /\ heap' = [heap EXCEPT ![b] = IF @ = NULL THEN Garbage ELSE @]
         /\ Return(t, "ok", heap'[b])
         /\ UNCHANGED <<handle_key, keys, process, abandoned>>
  BY DEF GetData
<1>2. PICK content \in Values \cup {Garbage} :
         heap' = [heap EXCEPT ![b] = content] /\ heap'[b] = content
  <2>1. heap \in [Buffers -> Values \cup {Garbage, NULL}]
    BY DEF IInv, StorageInv, StorageTypes
  <2> QED
    BY <1>1, <2>1
<1>3. StorageInv'
  <2>1. PICK k \in keys : k = handle_key[h]
    BY KeyOfHandle DEF IInv
  <2>2. UsesBuffer(t, k, b, content) /\ UNCHANGED <<keys, running, abandoned>>
    BY <1>1, <1>2, <2>1 DEF process, UsesBuffer
  <2> QED
    BY <2>2, UseBufferKeepsInv DEF IInv
<1>4. CallTypes'
  BY <1>1, <1>2, ReturnTypes DEF IInv, StorageInv, StorageTypes, CallTypes, process
<1> QED
  BY <1>3, <1>4 DEF IInv

LEMMA SetDataKeepsInv ==
    ASSUME IInv, NEW t \in running, NEW h \in AllocatedHandles, NEW v \in Values,
           NEW setter, SetData(t, h, v, setter)
    PROVE  IInv'
<1>1. PICK b \in Buffers :
         /\ BufferFor(t, handle_key[h], b)
         /\ specific' = [specific EXCEPT ![handle_key[h]][t] = b]
         /\ heap' = [heap EXCEPT ![b] = IF setter # "fails" THEN v
                                        ELSE IF @ = NULL THEN Garbage ELSE @]
         /\ Return(t, "ok", IF setter # "fails" THEN v ELSE NoAnswer)
         /\ UNCHANGED <<handle_key, keys, process, abandoned>>
  BY DEF SetData
<1>2. PICK content \in Values \cup {Garbage} : heap' = [heap EXCEPT ![b] = content]
  <2>1. heap \in [Buffers -> Values \cup {Garbage, NULL}]
    BY DEF IInv, StorageInv, StorageTypes
  <2> QED
    BY <1>1, <2>1
<1>3. StorageInv'
  <2>1. PICK k \in keys : k = handle_key[h]
    BY KeyOfHandle DEF IInv
  <2>2. UsesBuffer(t, k, b, content) /\ UNCHANGED <<keys, running, abandoned>>
    BY <1>1, <1>2, <2>1 DEF process, UsesBuffer
  <2> QED
    BY <2>2, UseBufferKeepsInv DEF IInv
<1>4. CallTypes'
  BY <1>1, ReturnTypes DEF IInv, StorageInv, StorageTypes, CallTypes, process
<1> QED
  BY <1>3, <1>4 DEF IInv

LEMMA GetKeepsInv ==
    ASSUME IInv, NEW t \in running, NEW h \in AllocatedHandles \cup {NULL}, Get(t, h)
    PROVE  IInv'
  BY GetDataKeepsInv, RefuseKeepsInv DEF Get, FirstUseFails, IInv, StorageInv, StorageTypes

LEMMA SetKeepsInv ==
    ASSUME IInv, NEW t \in running, NEW h \in AllocatedHandles \cup {NULL},
           NEW v \in Values \cup {NULL}, NEW setter \in Setters, Set(t, h, v, setter)
    PROVE  IInv'
  BY SetDataKeepsInv, RefuseKeepsInv DEF Set, FirstUseFails, IInv, StorageInv, StorageTypes

\* A handle nothing is changed but the storage by: create, destroy and the static slot.
LEMMA CallOnStorage ==
    ASSUME IInv, StorageInv', NEW t \in Threads, Return(t, "ok", NoAnswer),
           g_static_handle' \in Handles \cup {NULL}, exited' \in BOOLEAN, cleaned' \in BOOLEAN
    PROVE  IInv'
  BY ReturnTypes DEF IInv

LEMMA HandleCallKeepsInv ==
    ASSUME IInv, NEW t \in running, HandleCall(t)
    PROVE  IInv'
<1>1. t \in Threads
  BY DEF IInv, StorageInv, StorageTypes
<1>2. OwnHandles \subseteq AllocatedHandles
  BY DEF OwnHandles
<1>3. ASSUME NEW h \in Handles, NEW k \in Keys, Create(t, h, k)
      PROVE  IInv'
  BY <1>1, <1>3, NewHandleKeepsInv, CallOnStorage DEF Create, process, IInv, CallTypes
<1>4. CASE CreateFails(t)
  BY <1>1, <1>4, RefuseKeepsInv DEF CreateFails
<1>5. ASSUME NEW h \in OwnHandles \cup {NULL}, Destroy(t, h)
      PROVE  IInv'
  <2>1. CASE Refuse(t, "invalid_parameter")
    BY <1>1, <2>1, RefuseKeepsInv
  <2>2. CASE h \in AllocatedHandles /\ DeleteHandle(h) /\ Return(t, "ok", NoAnswer)
             /\ UNCHANGED process
    BY <1>1, <2>2, DeleteHandleKeepsInv, CallOnStorage DEF process, IInv, CallTypes
  <2> QED
    BY <1>5, <2>1, <2>2 DEF Destroy
<1>6. ASSUME NEW h \in OwnHandles \cup {NULL}, Get(t, h)
      PROVE  IInv'
  BY <1>2, <1>6, GetKeepsInv
<1>7. ASSUME NEW h \in OwnHandles \cup {NULL}, NEW v \in Values \cup {NULL},
             NEW setter \in Setters, Set(t, h, v, setter)
      PROVE  IInv'
  BY <1>2, <1>7, SetKeepsInv
<1> QED
  BY <1>3, <1>4, <1>5, <1>6, <1>7 DEF HandleCall

LEMMA StaticCallKeepsInv ==
    ASSUME IInv, NEW t \in running, StaticCall(t)
    PROVE  IInv'
<1>1. t \in Threads
  BY DEF IInv, StorageInv, StorageTypes
<1>2. CASE StaticInit(t)
  <2>1. CASE Return(t, "ok", NoAnswer) /\ UNCHANGED <<storage, process, abandoned>>
    BY <1>1, <2>1, SameStorage, CallOnStorage DEF process, IInv, CallTypes
  <2>2. ASSUME NEW h \in Handles, NEW k \in Keys, NewHandle(h, k), g_static_handle' = h,
               Return(t, "ok", NoAnswer), UNCHANGED <<running, exited, cleaned, abandoned>>
        PROVE  IInv'
    BY <1>1, <2>2, NewHandleKeepsInv, CallOnStorage DEF IInv, CallTypes
  <2>3. CASE exited' = TRUE /\ UNCHANGED <<storage, g_static_handle, running, cleaned,
                                           abandoned, out, result>>
    BY <2>3, SameStorage DEF IInv, CallTypes
  <2> QED
    BY <1>2, <2>1, <2>2, <2>3 DEF StaticInit
<1>3. CASE StaticGet(t)
  BY <1>1, <1>3, RefuseKeepsInv, GetKeepsInv DEF StaticGet, Get
<1>4. ASSUME NEW v \in Values \cup {NULL}, NEW setter \in Setters, StaticSet(t, v, setter)
      PROVE  IInv'
  BY <1>1, <1>4, RefuseKeepsInv, SetKeepsInv DEF StaticSet, Set
<1>5. CASE StaticCleanup(t)
  <2>1. CASE Refuse(t, "not_initialized")
    BY <1>1, <2>1, RefuseKeepsInv
  <2>2. CASE g_static_handle \in AllocatedHandles /\ DeleteHandle(g_static_handle)
             /\ cleaned' = TRUE /\ Return(t, "ok", NoAnswer)
             /\ UNCHANGED <<g_static_handle, running, exited>>
    BY <1>1, <2>2, DeleteHandleKeepsInv, CallOnStorage DEF IInv, CallTypes
  <2> QED
    BY <1>5, <2>1, <2>2 DEF StaticCleanup
<1> QED
  BY <1>2, <1>3, <1>4, <1>5 DEF StaticCall

\* Whether the client still uses the slot after a cleanup or not.
LEMMA NextKeepsInv ==
    ASSUME IInv, [ReinitNext]_vars
    PROVE  IInv'
<1>1. ASSUME NEW t \in running, ThreadExit(t)
      PROVE  IInv'
  <2>1. t \in Threads
    BY DEF IInv, StorageInv, StorageTypes
  <2> QED
    BY <1>1, <2>1, ThreadExitKeepsInv, ReturnTypes DEF ThreadExit, IInv, CallTypes
<1>2. CASE UNCHANGED vars
  BY <1>2, SameStorage DEF vars, process, IInv, CallTypes
<1> QED
  BY <1>1, <1>2, HandleCallKeepsInv, StaticCallKeepsInv DEF ReinitNext

LEMMA InitInv ==
    ASSUME Init
    PROVE  IInv
<1>1. AllocatedHandles = {}
  BY DEF Init, AllocatedHandles
<1>2. StorageInv
  BY <1>1 DEF Init, StorageInv, StorageTypes, KeysDistinct, Owned
<1> QED
  BY <1>2 DEF Init, IInv, CallTypes

LEMMA InvariantHolds == Spec => []IInv
<1>1. Next => ReinitNext
  BY DEF Next, ReinitNext
<1>2. IInv /\ [Next]_vars => IInv'
  BY <1>1, NextKeepsInv
<1> QED
  BY <1>2, InitInv, PTL DEF Spec

\* Every handle, key, buffer, answer and code is of its kind, and the keys in use
\* are those of the handles that exist (struct thread_local_storage_handle).
THEOREM StorageTypeCorrect == Spec => []TypeOK
<1>1. IInv => TypeOK
  BY DEF IInv, StorageInv, StorageTypes, CallTypes, TypeOK
<1> QED
  BY <1>1, InvariantHolds, PTL

LEMMA OwnedMeansOwnedOnce ==
    IInv => BuffersOwned /\ NothingElseLeaks
<1> SUFFICES ASSUME IInv PROVE BuffersOwned /\ NothingElseLeaks
  OBVIOUS
<1>1. BuffersOwned
  BY KeyOfHandle DEF IInv, StorageInv, Owned, BuffersOwned, Held, FreeBuffers
<1>2. Buffers \ FreeBuffers = Held \cup abandoned
  <2>1. ASSUME NEW b \in Buffers, heap[b] # NULL
        PROVE  b \in Held \cup abandoned
    BY <2>1, Constants DEF IInv, StorageInv, Owned, Held
  <2>2. ASSUME NEW b \in Held \cup abandoned
        PROVE  b \in Buffers /\ heap[b] # NULL
    BY KeyOfHandle DEF IInv, StorageInv, StorageTypes, Owned, Held
  <2> QED
    BY <2>1, <2>2 DEF FreeBuffers
<1>3. Held \cap abandoned = {}
  BY DEF IInv, StorageInv, Owned, Held
<1> QED
  BY <1>1, <1>2, <1>3 DEF NothingElseLeaks

\* No two threads and no two handles share a buffer, none is used after it was
\* freed, and a thread that has ended holds none (thread_local_storage.c, get).
THEOREM StorageBuffersOwned == Spec => []BuffersOwned
  BY OwnedMeansOwnedOnce, InvariantHolds, PTL

\* Every allocated buffer is held by a thread, or was when its key was deleted.
THEOREM StorageNothingElseLeaks == Spec => []NothingElseLeaks
  BY OwnedMeansOwnedOnce, InvariantHolds, PTL
-----------------------------------------------------------------------------
\* Thread local storage implements ThreadCells.

\* What thread t reads under handle h.
Cell(h, t) ==
    IF handle_key[h] = NULL THEN Garbage
    ELSE IF specific[handle_key[h]][t] = NULL THEN Garbage
    ELSE heap[specific[handle_key[h]][t]]

cells == [h \in Handles |-> [t \in Threads |-> Cell(h, t)]]

\* The cells are read through Cell.
LEMMA CellsAre ==
    /\ Cells!vars = <<AllocatedHandles, cells, out>>
    /\ (Cells!vars)' = <<AllocatedHandles', cells', out'>>
  BY DEF Cells!vars, cells, Cell

LEMMA NothingRefines ==
    ASSUME NEW t \in Threads, NEW code, Return(t, code, NoAnswer),
           UNCHANGED <<handle_key, specific, heap>>
    PROVE  Cells!Next
<1>1. Cells!Nothing(t)
  BY DEF Return, Cells!Nothing, Cells!Answer, AllocatedHandles
<1> QED
  BY <1>1 DEF Cells!Next

\* A new handle's cells hold nothing anybody stored.
LEMMA NewHandleRefines ==
    ASSUME IInv, NEW t \in Threads, NEW h \in Handles, NEW k \in Keys,
           NewHandle(h, k), Return(t, "ok", NoAnswer)
    PROVE  Cells!Next
<1>1. /\ handle_key'[h] = k /\ \A g \in Handles \ {h} : handle_key'[g] = handle_key[g]
      /\ heap' = heap
  BY DEF IInv, StorageInv, StorageTypes, NewHandle
<1>2. AllocatedHandles' = AllocatedHandles \cup {h} /\ h \notin AllocatedHandles
  BY <1>1, Constants DEF AllocatedHandles, NewHandle
<1>3. /\ \A u \in Threads : specific'[k][u] = NULL
      /\ \A l \in keys : specific'[l] = specific[l]
  BY KeyOfHandle DEF IInv, StorageInv, StorageTypes, NewHandle
<1>4. ASSUME NEW g \in Handles, NEW u \in Threads
      PROVE  Cell(g, u)' = Cell(g, u)
  <2>1. CASE g = h
    BY <1>1, <1>3, <2>1, Constants DEF Cell, NewHandle
  <2>2. CASE g # h
    BY <1>1, <1>3, <2>2, KeyOfHandle DEF Cell, IInv, AllocatedHandles
  <2> QED
    BY <2>1, <2>2
<1>5. cells' = cells
  BY <1>4 DEF cells
<1>6. Cells!Create(t, h)
  BY <1>2, <1>5 DEF Cells!Create, Cells!Answer, Return, cells, Cell
<1> QED
  BY <1>6 DEF Cells!Next

LEMMA DeleteHandleRefines ==
    ASSUME IInv, NEW t \in Threads, NEW h \in AllocatedHandles,
           DeleteHandle(h), Return(t, "ok", NoAnswer)
    PROVE  Cells!Next
<1>1. PICK k \in keys : k = handle_key[h]
  BY KeyOfHandle DEF IInv
<1>2. /\ h \in Handles
      /\ handle_key'[h] = NULL /\ \A g \in Handles \ {h} : handle_key'[g] = handle_key[g]
      /\ heap' = heap
  BY DEF IInv, StorageInv, StorageTypes, DeleteHandle, AllocatedHandles
<1>3. AllocatedHandles' = AllocatedHandles \ {h}
  BY <1>2 DEF AllocatedHandles
<1>4. \A l \in keys \ {k} : specific'[l] = specific[l]
  BY <1>1, KeyOfHandle DEF IInv, StorageInv, StorageTypes, DeleteHandle
<1>5. \A u \in Threads : Cell(h, u)' = Garbage
  BY <1>2 DEF Cell
<1>6. ASSUME NEW g \in Handles \ {h}, NEW u \in Threads
      PROVE  Cell(g, u)' = Cell(g, u)
  <2>1. CASE g \notin AllocatedHandles
    BY <1>2, <2>1 DEF Cell, AllocatedHandles
  <2>2. CASE g \in AllocatedHandles
    <3>1. handle_key[g] \in keys \ {k}
      BY <1>1, <2>2, KeyOfHandle DEF IInv, StorageInv, KeysDistinct
    <3> QED
      BY <1>2, <1>4, <3>1 DEF Cell
  <2> QED
    BY <2>1, <2>2
<1>7. cells' = [cells EXCEPT ![h] = [u \in Threads |-> Garbage]]
  BY <1>5, <1>6 DEF cells
<1>8. Cells!Destroy(t, h)
  BY <1>2, <1>3, <1>7 DEF Cells!Destroy, Cells!Answer, Return, cells, Cell
<1> QED
  BY <1>2, <1>8 DEF Cells!Next

\* Using a buffer changes one cell.
LEMMA UseBufferChangesCell ==
    ASSUME IInv, NEW t \in running, NEW h \in AllocatedHandles, NEW k, k = handle_key[h],
           NEW b \in Buffers, NEW content \in Values \cup {Garbage}, UsesBuffer(t, k, b, content)
    PROVE  /\ AllocatedHandles' = AllocatedHandles /\ h \in Handles /\ t \in Threads
           /\ cells' = [cells EXCEPT ![h][t] = content]
           /\ content = (IF heap[b] = NULL THEN Garbage ELSE heap[b]) =>
                 cells' = cells /\ cells[h][t] = content
<1> USE DEF UsesBuffer
<1>1. /\ k \in keys /\ k \in Keys /\ t \in Threads /\ h \in Handles
      /\ b # NULL /\ handle_key[h] # NULL
  BY KeyOfHandle, Constants DEF IInv, StorageInv, StorageTypes, AllocatedHandles
<1>2. /\ specific'[k][t] = b
      /\ \A l \in Keys, u \in Threads : l # k \/ u # t => specific'[l][u] = specific[l][u]
      /\ heap'[b] = content /\ \A c \in Buffers \ {b} : heap'[c] = heap[c]
  BY <1>1 DEF IInv, StorageInv, StorageTypes
<1>3. ASSUME NEW l \in keys, NEW u \in Threads, l # k \/ u # t
      PROVE  specific[l][u] # b
  BY <1>1, <1>3, NobodyElseHolds DEF IInv
<1>4. Cell(h, t)' = content
  BY <1>1, <1>2 DEF Cell
<1>5. ASSUME NEW g \in Handles, NEW u \in Threads, g # h \/ u # t
      PROVE  Cell(g, u)' = Cell(g, u)
  <2>1. CASE g \notin AllocatedHandles
    BY <2>1 DEF Cell, AllocatedHandles
  <2>2. CASE g \in AllocatedHandles
    <3>1. PICK l \in keys : l = handle_key[g] /\ l \in Keys
      BY <2>2, KeyOfHandle DEF IInv
    <3>2. l # k \/ u # t
      BY <1>5, <2>2, <3>1 DEF IInv, StorageInv, KeysDistinct
    <3>3. specific'[l][u] = specific[l][u] /\ specific[l][u] # b
      BY <1>2, <1>3, <3>1, <3>2
    <3>4. specific[l][u] # NULL => heap'[specific[l][u]] = heap[specific[l][u]]
      BY <1>2, <3>3, KeyOfHandle DEF IInv
    <3> QED
      BY <3>1, <3>3, <3>4 DEF Cell
  <2> QED
    BY <2>1, <2>2
<1>6. cells' = [cells EXCEPT ![h][t] = content]
  BY <1>1, <1>4, <1>5 DEF cells
<1>7. cells[h][t] = IF heap[b] = NULL THEN Garbage ELSE heap[b]
  <2>1. cells[h][t] = Cell(h, t)
    BY <1>1 DEF cells
  <2>2. CASE specific[k][t] # NULL
    BY <1>1, <2>1, <2>2 DEF Cell, BufferFor, IInv, StorageInv, Owned
  <2>3. CASE specific[k][t] = NULL
    BY <1>1, <2>1, <2>3 DEF Cell, BufferFor, FreeBuffers
  <2> QED
    BY <2>2, <2>3
<1>8. Cell(h, t)' = Cell(h, t) => cells' = cells
  BY <1>5 DEF cells
<1>9. cells[h][t] = Cell(h, t)
  BY <1>1 DEF cells
<1> QED
  BY <1>1, <1>4, <1>6, <1>7, <1>8, <1>9 DEF AllocatedHandles

LEMMA GetDataRefines ==
    ASSUME IInv, NEW t \in running, NEW h \in AllocatedHandles, GetData(t, h)
    PROVE  Cells!Next
<1>1. PICK b \in Buffers :
         /\ BufferFor(t, handle_key[h], b)
         /\ specific' = [specific EXCEPT ![handle_key[h]][t] = b]
         /\ heap' = [heap EXCEPT ![b] = IF @ = NULL THEN Garbage ELSE @]
         /\ Return(t, "ok", heap'[b])
         /\ UNCHANGED handle_key
  BY DEF GetData
<1>2. PICK content \in Values \cup {Garbage} :
         /\ content = IF heap[b] = NULL THEN Garbage ELSE heap[b]
         /\ heap' = [heap EXCEPT ![b] = content] /\ heap'[b] = content
  <2>1. heap \in [Buffers -> Values \cup {Garbage, NULL}]
    BY DEF IInv, StorageInv, StorageTypes
  <2> QED
    BY <1>1, <2>1
<1>3. PICK k : k = handle_key[h]
  OBVIOUS
<1>4. UsesBuffer(t, k, b, content)
  BY <1>1, <1>2, <1>3 DEF UsesBuffer
<1>5. /\ AllocatedHandles' = AllocatedHandles /\ h \in Handles /\ t \in Threads
      /\ cells' = cells /\ cells[h][t] = content
  BY <1>2, <1>3, <1>4, UseBufferChangesCell
<1>6. Cells!Get(t, h)
  BY <1>1, <1>2, <1>5 DEF Cells!Get, Cells!Answer, Return, cells, Cell
<1> QED
  BY <1>5, <1>6 DEF Cells!Next

\* A setter that fails changes no cell; what was in a new buffer nobody stored.
LEMMA SetDataRefines ==
    ASSUME IInv, NEW t \in running, NEW h \in AllocatedHandles, NEW v \in Values,
           NEW setter, SetData(t, h, v, setter)
    PROVE  Cells!Next
<1>1. PICK b \in Buffers :
         /\ BufferFor(t, handle_key[h], b)
         /\ specific' = [specific EXCEPT ![handle_key[h]][t] = b]
         /\ heap' = [heap EXCEPT ![b] = IF setter # "fails" THEN v
                                        ELSE IF @ = NULL THEN Garbage ELSE @]
         /\ Return(t, "ok", IF setter # "fails" THEN v ELSE NoAnswer)
         /\ UNCHANGED handle_key
  BY DEF SetData
<1>2. PICK content \in Values \cup {Garbage} :
         /\ content = IF setter # "fails" THEN v
                      ELSE IF heap[b] = NULL THEN Garbage ELSE heap[b]
         /\ heap' = [heap EXCEPT ![b] = content]
  <2>1. heap \in [Buffers -> Values \cup {Garbage, NULL}]
    BY DEF IInv, StorageInv, StorageTypes
  <2> QED
    BY <1>1, <2>1
<1>3. PICK k : k = handle_key[h]
  OBVIOUS
<1>4. UsesBuffer(t, k, b, content)
  BY <1>1, <1>2, <1>3 DEF UsesBuffer
<1>5. /\ AllocatedHandles' = AllocatedHandles /\ h \in Handles /\ t \in Threads
      /\ cells' = [cells EXCEPT ![h][t] = content]
      /\ setter = "fails" => cells' = cells
  BY <1>2, <1>3, <1>4, UseBufferChangesCell
<1>6. CASE setter # "fails"
  <2>1. Cells!Set(t, h, v)
    BY <1>1, <1>2, <1>5, <1>6 DEF Cells!Set, Cells!Answer, Return, cells, Cell
  <2> QED
    BY <1>5, <2>1 DEF Cells!Next
<1>7. CASE setter = "fails"
  <2>1. Cells!Nothing(t)
    BY <1>1, <1>5, <1>7 DEF Cells!Nothing, Cells!Answer, Return, cells, Cell
  <2> QED
    BY <1>5, <2>1 DEF Cells!Next
<1> QED
  BY <1>6, <1>7

\* A thread that ends takes its cells with it, and no other thread's.
LEMMA ThreadExitRefines ==
    ASSUME IInv, NEW t \in running, ThreadExit(t)
    PROVE  Cells!Next
<1> DEFINE held == {specific[k][t] : k \in keys} \ {NULL}
<1>1. t \in Threads /\ handle_key' = handle_key
  BY DEF IInv, StorageInv, StorageTypes, ThreadExit
<1>2. /\ \A k \in Keys : specific'[k][t] = NULL
      /\ \A k \in Keys, u \in Threads \ {t} : specific'[k][u] = specific[k][u]
      /\ \A b \in Buffers : heap'[b] = IF b \in held THEN NULL ELSE heap[b]
  BY DEF IInv, StorageInv, StorageTypes, ThreadExit
<1>3. \A h \in Handles : h \in AllocatedHandles => handle_key[h] \in keys /\ handle_key[h] \in Keys
  BY KeyOfHandle DEF IInv
<1>4. \A h \in Handles : Cell(h, t)' = Garbage
  BY <1>1, <1>2, <1>3 DEF Cell, AllocatedHandles
<1>5. ASSUME NEW h \in Handles, NEW u \in Threads \ {t}
      PROVE  Cell(h, u)' = Cell(h, u)
  <2>1. CASE h \notin AllocatedHandles
    BY <1>1, <2>1 DEF Cell, AllocatedHandles
  <2>2. CASE h \in AllocatedHandles
    <3>1. PICK k \in keys : k = handle_key[h] /\ k \in Keys
      BY <1>3, <2>2
    <3>2. specific'[k][u] = specific[k][u]
      BY <1>2, <3>1
    <3>3. specific[k][u] # NULL => specific[k][u] \notin held /\ specific[k][u] \in Buffers
      BY <1>1, KeyOfHandle DEF IInv, StorageInv, Owned
    <3> QED
      BY <1>1, <1>2, <3>1, <3>2, <3>3 DEF Cell
  <2> QED
    BY <2>1, <2>2
<1>6. cells' = [h \in Handles |-> [cells[h] EXCEPT ![t] = Garbage]]
  BY <1>1, <1>4, <1>5 DEF cells
<1>7. Cells!Exit(t)
  BY <1>1, <1>6 DEF Cells!Exit, Cells!Answer, ThreadExit, Return, cells, Cell, AllocatedHandles
<1> QED
  BY <1>1, <1>7 DEF Cells!Next

LEMMA GetRefines ==
    ASSUME IInv, NEW t \in running, NEW h \in AllocatedHandles \cup {NULL}, Get(t, h)
    PROVE  Cells!Next
  BY GetDataRefines, NothingRefines
     DEF Get, FirstUseFails, Refuse, storage, IInv, StorageInv, StorageTypes

LEMMA SetRefines ==
    ASSUME IInv, NEW t \in running, NEW h \in AllocatedHandles \cup {NULL},
           NEW v \in Values \cup {NULL}, NEW setter \in Setters, Set(t, h, v, setter)
    PROVE  Cells!Next
  BY SetDataRefines, NothingRefines
     DEF Set, FirstUseFails, Refuse, storage, IInv, StorageInv, StorageTypes

LEMMA StepRefines ==
    ASSUME IInv, [Next]_vars
    PROVE  [Cells!Next]_(Cells!vars)
<1> USE DEF storage
<1>1. running \subseteq Threads /\ OwnHandles \subseteq AllocatedHandles
  BY DEF IInv, StorageInv, StorageTypes, OwnHandles
<1>2. ASSUME NEW t \in running, HandleCall(t)
      PROVE  Cells!Next
  <2>1. ASSUME NEW h \in Handles, NEW k \in Keys, Create(t, h, k)
        PROVE  Cells!Next
    BY <1>1, <2>1, NewHandleRefines DEF Create
  <2>2. CASE CreateFails(t)
    BY <1>1, <2>2, NothingRefines DEF CreateFails, Refuse
  <2>3. ASSUME NEW h \in OwnHandles \cup {NULL}, Destroy(t, h)
        PROVE  Cells!Next
    BY <1>1, <2>3, NothingRefines, DeleteHandleRefines DEF Destroy, Refuse
  <2>4. ASSUME NEW h \in OwnHandles \cup {NULL}, Get(t, h)
        PROVE  Cells!Next
    BY <1>1, <2>4, GetRefines
  <2>5. ASSUME NEW h \in OwnHandles \cup {NULL}, NEW v \in Values \cup {NULL},
               NEW setter \in Setters, Set(t, h, v, setter)
        PROVE  Cells!Next
    BY <1>1, <2>5, SetRefines
  <2> QED
    BY <1>2, <2>1, <2>2, <2>3, <2>4, <2>5 DEF HandleCall
<1>3. ASSUME NEW t \in running, StaticCall(t)
      PROVE  [Cells!Next]_(Cells!vars)
  <2>1. CASE StaticInit(t)
    <3>1. CASE Return(t, "ok", NoAnswer) /\ UNCHANGED <<storage, process, abandoned>>
      BY <1>1, <3>1, NothingRefines
    <3>2. ASSUME NEW h \in Handles, NEW k \in Keys, NewHandle(h, k), Return(t, "ok", NoAnswer)
          PROVE  Cells!Next
      BY <1>1, <3>2, NewHandleRefines
    <3>3. CASE UNCHANGED <<storage, out>>
      BY <3>3, CellsAre DEF cells, Cell, AllocatedHandles
    <3> QED
      BY <2>1, <3>1, <3>2, <3>3 DEF StaticInit
  <2>2. CASE StaticGet(t)
    BY <1>1, <2>2, NothingRefines, GetRefines DEF StaticGet, Get, Refuse
  <2>3. ASSUME NEW v \in Values \cup {NULL}, NEW setter \in Setters, StaticSet(t, v, setter)
        PROVE  Cells!Next
    BY <1>1, <2>3, NothingRefines, SetRefines DEF StaticSet, Set, Refuse
  <2>4. CASE StaticCleanup(t)
    BY <1>1, <2>4, NothingRefines, DeleteHandleRefines DEF StaticCleanup, Refuse
  <2> QED
    BY <1>3, <2>1, <2>2, <2>3, <2>4 DEF StaticCall
<1>4. CASE UNCHANGED vars
  BY <1>4, CellsAre DEF vars, cells, Cell, AllocatedHandles
<1> QED
  BY <1>2, <1>3, <1>4, ThreadExitRefines DEF Next

\* Thread local storage implements ThreadCells: what a thread reads under a handle
\* is what it stored there itself, whatever other threads do with handles, keys and
\* buffers (thread_local_storage.c).
THEOREM StorageImplementsCells == Spec => ImplementsCells
<1>1. Init => Cells!Init
  BY DEF Init, Cells!Init, AllocatedHandles
<1>2. IInv /\ [Next]_vars => [Cells!Next]_(Cells!vars)
  BY StepRefines
<1> QED
  BY <1>1, <1>2, InvariantHolds, PTL DEF Spec, ImplementsCells, Cells!Spec
=============================================================================
