# libd: a verification development

libd is a C library of utilities: two memory allocators, thread local storage,
path handling, and a few header-only helpers. This directory holds TLA+ models
of its components, TLC configurations that check them on small instances, and
proofs checked by TLAPS. Paths below are relative to the repository; `src/...`
is the library's own source directory.

## Inventory

| Component | Code | State | Operations | Hard behaviour |
|---|---|---|---|---|
| Memory helpers | `src/memory/internal/helpers.c`, `include/libd/utils/align_compat.h` | none | power-of-two test, alignment test, `align_up` | bit masks used with numbers that are no power of two |
| Pool allocator | `src/memory/pool_allocator.c` | capacity, slot size, head, tail, list links inside the free slots | create, destroy, alloc, free, reset | a list threaded through memory the client writes; two ways to free; u32 sizes |
| Linear allocator | `src/memory/linear_allocator.c` | data size, head, alignment, reservation; the mapping | create, destroy, alloc with growth, savepoint, restore, reset, bytes_free | growth cut to the reservation; sizes computed in two widths; failing `mprotect` |
| Thread local storage | `src/platform/posix/thread_local_storage.c` | handles over pthread keys, a buffer per thread and key, one static slot | create, destroy, get, set, static init/get/set/cleanup | threads, reuse of keys and addresses, destructors, failing calls, init after cleanup |
| Path normalization | `src/filesystem/filepath.c`, `src/platform/posix/paths.c`, `include/libd/utils/encodings.h` | a scan and a write position over two objects | `normalize` | skips and back-tracking with few bounds, multi-byte characters |
| File path allocator | `src/filesystem/filepath_allocator.c`, `internal/allocator_wrap.c` | a handle to a linear allocator, two function pointers | create, alloc, reset, destroy | every failure becomes out of memory, a null pointer or nothing at all |
| Dynamic array | `include/libd/utils/darray.h` | capacity, size, data | create, append, append_n, insert_at, at, destroy | a block that moves under a write; a loop and size arithmetic in `size_t` |
| Error context | `src/errors/` | the static slot | set, get | pointers into storage that threads keep; not part of the build |
| Path expansion, ancestors, joins | `include/libd/filesystem.h` | — | declared, without a body | — |
| Test harness | `include/libd/testing.h` | a list of tests | register, run, assert | a list consumed while it is run; signed operands compared as words |

How they interact: both allocators call the memory helpers; the file path
allocator forwards to a linear allocator; path normalization calls the platform
for the prefix of a path and for copying a character, which uses the encoding
helpers; the error context is meant to live in the static slot. Nothing else is
shared. The allocators have no locks and belong to one thread; thread local
storage, with the error context on it, is the only component several threads use
at once, and its only shared state is the handles and the static slot. Path
normalization does not use the file path allocator yet.

What makes each correct:

- *Helpers*: exactly the powers of two up to `alignof(max_align_t)` are
  accepted; rounding gives the least multiple.
- *Pool*: the free list holds exactly the slots not handed out; alloc fails only
  when all are; the block holds all slots; links are written only into free
  slots; a pointer that is no slot is refused.
- *Linear*: live blocks are aligned, disjoint, accessible and inside the mapping;
  the head never passes the data; restore frees exactly the later blocks; the
  mapping that is unmapped is the one that was mapped.
- *Thread local storage*: a buffer belongs to one thread under one key; a thread
  reads what it stored; nothing leaks.
- *Normalization*: the call returns, stays inside its objects, and writes the
  normal form of its input.
- *File path allocator*: the handle never dangles; a pointer is to usable memory;
  all of the 8 KiB can be had.
- *Dynamic array*: the block has room for the capacity and the elements are the
  ones written; a failing call changes nothing; growth ends and is tight.
- *Error context*: a thread sees its own last error and no other's.
- *Test harness*: each registered test runs once; status 0 means that every
  assertion held.

## The modules

| Module | What it is |
|---|---|
| `Alignment` | the helpers in ordinary arithmetic; every allocator model uses it |
| `AlignmentBits`, `MCAlignmentBits` | the helpers bit by bit, over a recursive function for `&`, and the calls that compare them with `Alignment` |
| `FixedPool` | what a pool promises: a set of held blocks, a grant, a failure only when full |
| `PoolAllocator`, `MCPoolAllocator`, `PoolAllocatorProofs` | the pool allocator, its instances, its theorems |
| `Arena` | what a linear allocator promises: a stack of aligned blocks and savepoints into it |
| `LinearAllocator`, `MCLinearAllocator`, `LinearAllocatorProofs` | the linear allocator over `mmap` |
| `ThreadCells` | what thread local storage promises: a cell per handle and thread |
| `ThreadLocalStorage`, `MCThreadLocalStorage`, `ThreadLocalStorageProofs` | handles, keys, buffers and the static slot |
| `FilepathAllocator`, `MCFilepathAllocator`, `FilepathAllocatorProofs` | the file path allocator, composed with `LinearAllocator`; its theorems and those of the helpers |
| `Vector` | what a dynamic array promises: a sequence that is overwritten and extended |
| `DArray`, `MCDArray`, `DArrayProofs` | the dynamic array over `malloc`, `realloc` and `free` |
| `ErrorContext`, `MCErrorContext`, `ErrorContextProofs` | the error context, composed with `ThreadLocalStorage` |
| `TestHarness`, `MCTestHarness`, `TestHarnessProofs` | the main function of a test program and its assertions |
| `PathNormalForm` | what normalizing a path means, by components |
| `FilepathNormalize`, `MCFilepathNormalize`, `FilepathNormalizeProofs` | one call of `normalize`, character by character |

State and actions:

- **PoolAllocator**. `max_allocations`, `bytes_per_alloc`, `head_index` and
  `tail_index` are the fields of the struct. `data[i]` is the first word of slot
  `i`, the spare slot behind the last one included; a client that holds the slot
  may store any word there (`ClientWrite`). `live`, `request` and `block_size`
  are history: what the client holds, what it asked for, what `malloc` was asked
  for. One action per function; `Free` is `PushFront` or `PushBack`, including
  the tail repair that ends the function. `% U32` marks what the code computes
  in u32. A pool whose block is too short has been written outside its block by
  `create` itself, so no action is enabled in it (`Ready`).
- **LinearAllocator**. The fields of the struct, with `mapped` and `committed`
  for what `mmap` reserved and `mprotect` made accessible, both from the start
  of the mapping. Blocks are history. `align_up` is the constant operator `RoundUp`, assumed
  to round up by less than the alignment for any alignment and exactly for
  powers of two; the instance gives it the bitwise definition, of which `alignment`
  checks, and `FilepathAllocatorProofs` proves, that it does. An allocation of no bytes is no block.
- **ThreadLocalStorage**. One step per call: a call reads and writes the calling
  thread's own value and a handle that does not change while it exists. Handles,
  keys and buffers are addresses and numbers that are reused. `abandoned` and
  `cleaned` are history. The registered destructor frees the buffer.
  `pthread_key_delete` runs no destructor, and a thread that ends has them run.
- **FilepathNormalize**. A step is one round of the loop. `input` is the whole
  object the path is stored in, terminators included; `out` is the output.
  An access outside either is undefined behaviour and ends the call with the
  result `"undefined"`; what a program does afterwards is not modelled. Behind the
  terminator the object may go on with bytes of any kind, which the scan reads where
  it skips the terminator. `LooksInside` says that what a round reads before it acts
  lies in the object. `above`
  tells how the two objects lie in memory, because the code compares a pointer
  into one with a pointer into the other.
- **FilepathAllocator**. `LA` is an instance of `LinearAllocator` that shares its
  variables: each action is an action of the linear allocator joined with what the
  wrapper makes of its result. `a` is the handle, `methods` tells whether the
  function pointers are set; they stay set after a destroy, so alloc and reset may
  be called on a null handle. A destroy whose `munmap` fails drops the handle all the
  same, and with it everything the model knew of the arena.
- **DArray**. A call is one step up to the tests that begin it (`MemcpyAt`), a step
  for each round of the doubling loop, and a last one for `realloc` and `memcpy`
  together. `heap` gives each block the elements it has room for, in whole
  elements of the bytes `malloc` was asked for, which is where `size_t` wraps. A
  source is either a sequence of the client's or a place in a block, read when
  `memcpy` reads it: a client may copy any of the array's own elements to any place
  in it. A copy outside what is allocated, from a block `realloc` has freed, or between
  ranges that overlap ends the model as `"undefined"`. `append`, `append_n` and `insert_at` are the same write, and
  `insert_at` overwrites. (In the header the macro pastes the words `type_darray`
  literally, so a program has one element type per translation unit; the model has
  one array of one type.)
- **ErrorContext**. `TLS` is an instance of `ThreadLocalStorage` that shares its
  variables. `view[t]` is the pointer a thread keeps from `err_get`, `last[t]` history.
  Other handles are created, used and destroyed beside it.
- **TestHarness**. `pc` is where main stands. A test makes any assertions of integers
  and returns. An operand is converted to a word and, in the signed predicates, back;
  `Means` says what the client asserted, `Passes` what the predicate returns.

## What the runs check

| Run | Bounds | Shows |
|---|---|---|
| `alignment` | values to 70, alignments to 140 | the bit operations compute what the models use, past the largest alignment and for numbers that are no power of two |
| `pool` | up to 4 slots, slot sizes 4 to 8, a 6-bit u32 | free list, writes, stray pointers, refinement of `FixedPool` |
| `linear` | 64-byte pages, a 32-byte header, reservations of 100 and 200, two savepoints | head, commitment, mapping, refinement of `Arena` |
| `tls` | 2 threads, 2 handles, 2 keys, 3 buffers, 2 values | ownership, leaks, refinement of `ThreadCells` |
| `normalize` | all valid UTF-8 paths of up to 7 bytes in literals and up to 6 in plain strings; every object of up to 5 bytes; paths of up to 2 bytes with 4 leftover bytes behind the terminator; outputs of 0 to 8 bytes, both layouts | room for the terminator for all of them; memory bounds, normal form, refusal, room and termination for the calls described below |
| `darray` | up to 5 elements, capacities 1 and 3, 2 blocks, a 5-bit `size_t` | block and elements, which copies are undefined, leaks, tight growth, termination, refinement of `Vector` |
| `filepath_allocator` | the code's own sizes, 4 KiB pages, seven sizes of allocation | handle, own memory, the whole reservation, refinement of `Arena` |
| `errors` | 2 threads, 2 handles, 2 keys, 3 buffers, 2 errors, one too long for its buffer | a thread's own last error, sets that keep working |
| `harness` | 3 tests of up to 2 assertions, 3-bit words | reports and status 0 mean what they say, termination |

Why the bounds are enough. Four slots give lists of every shape between empty
and full, with a freed slot below, between and above the others; the sizes cover
a slot rounded up to its alignment and one raised to a list node. The larger
reservation takes two growths, the second from a size that is no power of two,
and is cut to the reservation. Two threads, two handles and keys and three buffers
give one buffer per use plus one that has been freed, and let `malloc` run out.
Seven bytes hold two names with a parent reference behind them and a separator
after that. Two-byte characters stand for the longer ones. Capacities 1 and 3
double to 2, 4 and 8 and to 6, so that a write of up to five elements needs no
round of the loop, one or more; two blocks let `realloc` move. In 4 KiB pages
the 8 KiB take one growth, and seven sizes meet its edges. All pairs of 3-bit words hold
every combination of signs and orders.

The code skips two characters at "." and three at "..", and the last of them may be
the terminator. The scan then goes on one byte behind it, in a second terminator or in
whatever the object holds there. The properties of `normalize` speak of calls where
that does no harm, and say so in `StaysInPath`: no character lacks its second byte, and a
path whose last component is "." or ".." has a second terminator, as every literal in
the tests has. Behind any other path there may be anything.

| Property | Holds of a call when |
|---|---|
| `TypeOK` | always |
| `InputSizedOutSuffices`, first half of `InvalidMeansAboveRoot` | `StaysInPath` |
| `GoodCallsInBounds` | `StaysInPath`; if the output is above the input no parent reference takes away the first component of a relative path (`KeepsFirst`); and an output without room for the input has no longer characters to hold (`RoomForInput`) |
| `GoodCallsNormal`, second half of `InvalidMeansAboveRoot` | `StaysInPath`, the output is above the input, no second separator follows a dot component (`SingleSeparators`) |
| `Returns` | `StaysInPath`, and every byte starts a character or ends one (`Recognized`) |

Each condition has a configuration below in which a call without it goes wrong; for the
second byte of a character the objects of up to 5 bytes in the run do, in which half a
character takes the scan behind the terminator. The conditions are sufficient and not
necessary: leftover bytes may happen to do no harm.

The runs that end in a violation each check one sentence of a comment, a test or
a header against what the code does:

| Run | What the code does |
|---|---|
| `filepath_large_pages` | on pages of 16 KiB the file path allocator makes two pages accessible and has reserved one |
| `tls_reinit` | static_init after static_cleanup reports ok on a freed handle |
| `normalize_trailing_dot` | a trailing dot is scanned past the terminator |

The other configurations are kept to be checked by hand (`tlc -config X.cfg M`, M
being the MC module of the component; where one would differ from a run's
configuration in one place only, that place is named instead). TLC finds the property
violated (`FilepathLeftover.cfg` has three, all of which it shows with `-continue`). Each
shows where a condition of a property, or a hypothesis of the proofs, comes from, or a
smaller disagreement between the code and what is said of it:

| Configuration | Property | What the code does |
|---|---|---|
| `PoolSizeWrap.cfg` | `SlotsFitBlock` | the block size wraps in u32 |
| `PoolFarPointer.cfg` | `StrayPointersRefused` | the slot index wraps in u32 before its bound is tested |
| `PoolFreeOfNothing.cfg` | `FreeOfNothingRefused` | a free on a pool with nothing allocated succeeds |
| `LinearGrowthFails.cfg` | `LiveCommitted` | a failing `mprotect` is ignored |
| `LinearReservationWraps.cfg` | `ReservationHonoured` | the mapping's length wraps in u32 |
| `LinearAllocator.cfg` checking | `BytesFreeCountsReservation` | bytes_free counts committed bytes only |
| `ThreadLocalStorage.cfg` checking | `DestructorOnKeyDestruction` | destroying a handle runs no destructor |
| `ThreadLocalStorage.cfg` checking | `InitReturns` | a failing static_init ends the process |
| `ThreadLocalStorage.cfg` checking | `OkMeansStored` | a failing setter is ignored |
| `FilepathOutBelow.cfg` | `OkMeansNormal` | the result depends on the addresses of the objects |
| `FilepathFirstComponent.cfg` | `InBounds` | removing the first relative component reads before the output |
| `FilepathSeparators.cfg` | `OkMeansNormal` | `a/.//b` keeps two separators |
| `FilepathLeftover.cfg` | `OkMeansNormal` | `a/.` with `b` behind its terminator gives `a/b` |
| `FilepathLeftover.cfg` | `OnlyAboveRootInvalid` | `/.` with `/../..` behind its terminator is refused as climbing above its root |
| `FilepathLeftover.cfg` | `OnlySmallOutFails` | `a/.` with `bbb` behind its terminator does not fit in 4 bytes |
| `FilepathUnrecognized.cfg` | `EveryCallReturns` | a byte that starts no character loops for ever |
| `FilepathWideChar.cfg` | `InBounds` | a longer character is written past the output |
| `DArray.cfg` checking | `CopiesDefined` | elements of the array copied into it are read from the block `realloc` freed, or overlap where they go |
| `DArrayWraps.cfg` | `BlockHoldsElements` | `new_cap * sizeof(type)` wraps, and the block is shorter than the capacity |
| `DArrayEndless.cfg` | `Returns` | the capacity doubles to 0 and the loop does not end |
| `ErrorBeforeSet.cfg` | `GetMeansSet` | `err_get` before any `err_set` gives memory nobody wrote |
| `TestHarness.cfg` with `RegisterTwice = TRUE` | `Finishes` | a test registered twice closes the list to a cycle |
| `TestHarness.cfg` with `AbortOnFail = FALSE` | `ZeroMeansAllPassed` | without `LIBD_TESTING_ABORT_ON_FAIL` the status is 0 whatever failed |
| `TestHarness.cfg` with `TestsRegister = TRUE` | `ZeroMeansAllPassed` | a test that registers another is run again |

`align_up` is called with numbers that are no power of two when the arena grows
(`linear_allocator.c:118`), against `helpers.h:28-29`; `AlignUpBounded` and
`ImplementsArena` show that this does no harm.

`TypeOK` is an invariant of the `pool`, `linear`, `tls` and `normalize` runs. The other
modules define theirs too; their proofs establish the types as part of the inductive
invariant, and their runs are spent on the rest.

Deadlock is checked where the system can always go on. `tls`, `errors`,
`normalize`, `harness` and `darray` turn it off: all threads may have ended or the
process exited, a call or program that has returned does nothing more, and after a copy
that is undefined nothing is said of the array.

## Fairness

Three modules assume weak fairness, each of steps that a running program executes
because they wait for nothing: `FilepathNormalize` of `Step`, the loop of a call that
has begun; `DArray` of `Step`, the rest of a write that has begun; `TestHarness` of
`Run`, main after the registrations, where it is assumed besides that a test makes
finitely many assertions and returns. Whether a client calls at all, or main gets
to its loop, is left open. Every other property is safety: the allocators, thread
local storage and the error context do nothing unless they are called.

## What is proved

The eight `*Proofs` modules state the properties of the runs for every value of the
constants: any number of slots, blocks, threads, handles, tests or bytes, any order
and number of calls. Each has an inductive invariant `IInv` (`CallInv` in
normalization, of the calls whose scan stays in the path), tried with TLC on small
instances before it was proved, and one lemma per action. The hypotheses are operators
named in the module or conditions on its constants; the table names what shows that they
are needed.

| Module | Hypotheses | Without them |
|---|---|---|
| `PoolAllocatorProofs` | `SizesFit`: no size wraps in u32; `PointersNear` (stray pointers only): a stray pointer lies less than 2^32 bytes above the pool | `PoolSizeWrap.cfg`, `PoolFarPointer.cfg` |
| `LinearAllocatorProofs` | `ArgumentsFit`: reservation, header and a page do not wrap in u32; the pages of the first capacity lie in the reservation's; `MaxAddress` bounds every address. `LiveCommitted` only: growing does not fail | `LinearReservationWraps.cfg`, `FilepathLargePages.cfg`, `LinearGrowthFails.cfg` |
| `FilepathAllocatorProofs` | `PagesFit`: a page is no longer than the 8 KiB; `RoundsUp`: `RoundUp` rounds up, what `LinearAllocator` assumes; `BitsRoundUp` proves it of the code's `align_up` for pages of any power of two. The helpers' own theorems have none | `FilepathLargePages.cfg` |
| `ThreadLocalStorageProofs` | none | |
| `ErrorContextProofs` | none | |
| `DArrayProofs` | `SizesFit`: no size in bytes wraps in `size_t` | `DArrayWraps.cfg` |
| `TestHarnessProofs` | for status 0: failures abort, no test is registered twice or by a test; `RunsFit`: the bound `MaxRuns` of the model is not reached | `TestHarness.cfg` with one constant changed |
| `FilepathNormalizeProofs` | none; the conditions are in the properties | |

| Theorem | Establishes |
|---|---|
| `PoolTypeCorrect` | `TypeOK` |
| `PoolFreeListExact` | `FreeListExact` |
| `PoolSlotsFitBlock` | `SlotsFitBlock` |
| `PoolStrayPointersRefused` | `StrayPointersRefused` |
| `PoolWritesOnlyFreeSlots` | `WritesOnlyFreeSlots` |
| `PoolImplementsFixedPool` | every step of the pool is a step of `FixedPool` or a stutter |
| `LinearTypeCorrect` | `TypeOK` |
| `LinearHeadWithinData` | `HeadWithinData` |
| `LinearLiveCommitted` | `LiveCommitted` |
| `LinearCommittedWithinMapping` | `CommittedWithinMapping` |
| `LinearReservationHonoured` | `ReservationHonoured` |
| `LinearImplementsArena` | every step is a step of `Arena` or a stutter |
| `HandleAlwaysValid` | `HandleValid` |
| `UsesOwnMemoryOnly` | `OwnMemoryOnly` |
| `ReservationServed` | `ServesReservation` |
| `FilepathImplementsArena` | every step is a step of `Arena` without savepoints or a stutter |
| `BitsRoundUp` | the hypothesis `RoundsUp` of the arenas, of the code's `align_up` |
| `ValidityAlwaysAgrees` | `ValidityAgrees` |
| `AlignUpAlwaysAgrees` | `AlignUpAgrees` |
| `AlignUpAlwaysBounded` | `AlignUpBounded` |
| `StorageTypeCorrect` | `TypeOK` |
| `StorageBuffersOwned` | `BuffersOwned` |
| `StorageNothingElseLeaks` | `NothingElseLeaks` |
| `StorageImplementsCells` | every step is a step of `ThreadCells` or a stutter |
| `ViewAlwaysShowsLastError` | `ViewShowsLastError` |
| `SetsAlwaysWork` | `SetsKeepWorking` |
| `ElementsAlwaysHeld` | `BlockHoldsElements` |
| `OnlyAliasedUndefined` | `UndefinedOnlyAliased` |
| `NothingEverLeaks` | `NothingLeaks` |
| `GrowthAlwaysTight` | `GrowthTight` |
| `RoundsDouble` | each round of the growth loop ends it or doubles the capacity, below a fixed bound |
| `ArrayImplementsVector` | every step is a step of `Vector` or a stutter |
| `ReportsAlwaysMeanIntegers` | `ReportsMeanIntegers` |
| `ZeroAlwaysMeansAllPassed` | `ZeroMeansAllPassed` |
| `RunsShorten` | each step of main shortens what is left to run |
| `NormalizeTypeCorrect` | `TypeOK` |
| `InputSizedOutAlwaysSuffices` | `InputSizedOutSuffices` |
| `NormalizedWhenGood` | `GoodCallsNormal` |
| `InvalidOnlyAboveRoot` | `InvalidMeansAboveRoot` |
| `GoodCallsStayInBounds` | `GoodCallsInBounds` |
| `RoundsAdvance`, `ScanBetweenCharacters` | where `Returns` speaks, each round moves the scan on by whole characters, to at most one byte behind the terminator |
| `OutputAlwaysNormal` | what a call writes, where `GoodCallsNormal` speaks, is normal already, climbs above no root and is no longer than the path |

The arguments, and why each invariant is needed:

- **Helpers.** `&` is computed from the lowest bit up, so a fact about it is proved by going
  from a number to its half. The powers of two are the numbers that come down to 1 by
  halving; `x & (x - 1)` is 0 of those and 0 only, and clearing the bits of `a - 1`
  subtracts the remainder when `a` is one of them and less than `a` for any other. The
  tests of the code are then the arithmetic of `Alignment`.
- **Pool.** `IInv` joins `TypeOK`, `FreeListExact`, `SlotsFitBlock` and `NoWrap` (the
  block length is the true one). `FreeListExact` alone is not inductive: that
  `head_index` and `tail_index` are indices of the list needs the types, and that a
  pointer names one slot needs `NoWrap`. Each action that changes the list gets a
  lemma that builds the new list from the old one: an allocation drops the first
  element, `PushFront` puts the slot before it, `PushBack` behind it, create and reset
  give the identity list.
- **Linear.** An allocation is tested with its size and moves the head by the size
  rounded up, so `HeadWithinData` needs that the data ends at a multiple of every
  alignment, which growth keeps, also where it is cut to the reservation
  (`DataWithinMapping`). That a restore frees whole blocks, and exactly the later ones,
  needs that each savepoint lies between two blocks (`SavepointsMark`) and that the
  blocks lie behind each other with the head behind the last (`BlocksStacked`). The
  refinement takes the sizes of `Arena` from these.
- **File path.** The linear allocator's theorems are instantiated: `ArgumentsFit` is
  proved of the code's own sizes for every page size up to 8 KiB. `IInv` adds that the handle
  is set exactly while there is an arena, in spite of the codes the wrapper drops.
- **Thread local storage.** A handle may be destroyed, and its key reused, only because
  no two handles share one (`KeysDistinct`); ownership is stated of the keys that exist.
  Nothing in it depends on when the static slot is initialised.
- **Error context.** Over the invariant of thread local storage, while the slot is open a
  view is the buffer its thread will store the next error in, and after the cleanup one
  of the buffers nobody frees (`SlotInv`); a view outlives the handle for that reason only.
- **Dynamic array.** Between the rounds of the growth loop, `CallInv` keeps that the
  capacity reached is less than twice what the write needs, hence does not wrap, and
  that a source in the array lies within its elements until `realloc` is called: if it is
  neither moved nor overwritten then, the copy is defined.
- **Test harness.** `ListInv`: the entries form the list of the registrations backwards,
  and those that ran are its front. That words mean the integers they came from is
  arithmetic over division.
- **Normalization.** The types need no condition (`TypesHold`): every access is tested
  against the object or the output before it is made. When the scan stays in the path,
  while the call runs the write position is not beyond the scan
  position, and the scan position not beyond the byte behind the terminator, which is
  a second terminator if it comes there (`ScanInv`, with `DotsAtEnd` for the path that ends
  in a reference and `StaysInside` for what a round reads). The last separator of a run and the place a way
  back stops at are chosen values, whose existence is proved from the well-foundedness
  of `<`. That the result is right is proved by reading the path by components
  alongside the scan: `read` is what `PathNormalForm` has read of the path up to the scan
  position (`At`). `ReadInv` relates it to the output: a reference is never copied, so
  the scan is never inside one (`NoReferenceCopied`); each component kept has a separator
  of its own in the output (`KeptInOutput`), so that only a path with nothing left to
  take away is refused; before the first component there are separators only, and an
  absolute path keeps its own (`FirstInOutput`), so that the way back finds a separator;
  and in the calls of `GoodCallsNormal` the output is the root, the components kept, each
  with its separator, and the name being read (`OutputIsReading`). One lemma per kind of
  round says what it reads and writes (`Copies`, `CopiesSeparator`, `SkipsSelf`,
  `TakesAway`), and each part of `ReadInv` is shown from those. `Answers` says of the end of the call
  what the properties say; for it `EndsInReference` adds that a scan beyond the
  terminator has skipped a trailing reference. The recursion of `Reading` is a function,
  unfolded once per character; that its result has a type, and that a path that has
  climbed above its root stays so, is an induction over the natural numbers, proved as a
  fact about sets.

- **Normal forms.** What has been read of a path is never longer than the path, root and
  separators included, and keeps no reference (`ReadsLess`, by induction over the
  characters). What is kept is read back from the names it is written as, one name at a
  time (`ReadsBack`, `ReadsName`), so a normal form is read as itself (the lemma
  `NormalFormStable`). With `NormalizedWhenGood` this becomes a statement about the code,
  `OutputAlwaysNormal`.
- **Progress.** For each loop whose end a run checks, a theorem gives the measure: the
  rest of the path (`RoundsAdvance`; it needs that the scan is never inside a character,
  which is an invariant of its own), the distance of the doubled capacity from the bound
  (`RoundsDouble`), and the tests left before the assertions left (`RunsShorten`). Every
  step from a state of the invariant that does not end the loop makes it smaller.

What stays with TLC is liveness under fairness: `Returns` of normalization and of the
growing array and `Finishes` of a test program. Their measures are proved; that a measure
and weak fairness give termination needs `ENABLED`, which the prover does not handle.
Every safety property of the runs that pass is a theorem.

## What is not modelled

Bytes of a slot behind its first word; the content of blocks in an arena; wrapping
of `size_t` in the allocators; static_init from several threads (`threads.h` rules it
out); destructors that do anything but free; a second init with another size, or a
static slot whose size is not that of an error context (the functions ignore the
size they are given); the Windows separator; a file path allocator whose struct
is not zeroed before a create that fails; arrays of several element types; the
comparison of strings and the text of a report in the test harness, and that
`ASSERT_TRUE` compares with 1, so that another true value fails; a mapping left
behind when `mprotect` fails in create or `munmap` in destroy. The
components without a module are listed in the inventory: path expansion and
ancestors have no body in the sources, the remaining functions of `filesystem.h` no
definition, and `platform/filesystem.h` and `common.h` hold constants and names.

## Plan

Done: all components that have a body in the sources, their runs and the proofs above,
the measures behind termination and the facts about `PathNormalForm` among them.

Left, for when the code grows: path expansion and ancestors, once they are written, as
callers of the normalization and of the file path allocator; the Windows separator, with
its platform; and a check of `ErrorContext` against the build once `src/errors/` is part of it.
