# A verification development for the DRTM plug-in

The plug-in in `src/` (µOS++ DRTM, *debugger real time kernel* plug-in) is loaded
by a GDB server. It looks into the memory of a halted target, finds the threads
of an RTOS scheduler there, and answers the debugger's questions about them: how
many there are, their IDs, names, states, and the registers of those that wait.
This directory models it in TLA+, checks the models with TLC, and proves with
TLAPS what matters most about the thread walk, the collection, the front end,
the memory of a session, the description and register strings, and the sample
back end.

Contents: [1 inventory](#1-inventory), [2 modules](#2-modules),
[3 abstractions](#3-abstractions), [4 runs](#4-runs),
[5 fairness and stopping](#5-fairness-and-stopping), [6 proofs](#6-proofs),
[7 what does not hold](#7-what-does-not-hold), [8 not modelled](#8-not-modelled),
[9 plan](#9-plan).

## 1. Inventory

| component | source | state | operations | status |
|---|---|---|---|---|
| target thread lists | read by `include/drtm/run-time-data.h`; written by the RTOS (external) | intrusive circular lists: a top list, and a list of children in each thread control block | follow a link, node ↔ control block arithmetic | `TargetTree`, `Words` |
| threads collection | `include/drtm/threads.h` | `threads_` (vector of objects, which only grows), `count_`, `current_`; per object: address, ID, name, priorities, state, saved SP and layout, cached register context | `clear`, `new_thread`, lookup by ID and by address, `read_stack`, `prepare_description`, `output_register`, the destructor | `Threads`; its memory in `Session`, its text in `Description`, its registers in `StackContext` |
| run-time data | `include/drtm/run-time-data.h` | the call stack of `iterate_threads()` | `update_threads`, `iterate_threads`, `update_current_thread`, `is_scheduler_started` | `RunTimeData`, `UpdateSnapshot`, `WalkSnapshot` |
| metadata | `include/drtm/metadata.h` | `was_parsed_`, `is_available_`, eleven addresses and offsets | `parse` | `Metadata`, in `Session` and `Frontend` |
| front end | `include/drtm/frontend.h` | `is_scheduler_started_`, the collection, the metadata | update, count, ID by index, current ID, description, get and set registers | `Frontend`, `DebugView`, `FrontendView`, `Description` |
| register layouts and output | the tables of `run-time-data.h`, `threads.h`, the loop of `frontend.h` | stack layout of a thread, the output string | choose a layout, read a stack, write hex digits | `StackContext` |
| sample back end | `samples/drtm-backend.h` | endianness of the target, the target's memory | read and write values of 1, 2, 4, 8 bytes | `SampleBackend` |
| C API | `include/drtm/c-api.h`, `samples/drtm.cpp` | pointers to the allocator, the back end and the front end | `drtm_init`, forwarding, `drtm_shutdown` | `Session` |
| allocators | `samples/drtm-memory.h`, `include/drtm/memory.h` | none of their own; the host's heap | `allocate`, `deallocate` | partly, in `Session` |
| types, version, sample test, build files | `include/drtm/types.h`, `src/version.c`, `tests/sample/`, `templates/` | none | | not modelled |

How they interact. The GDB server initialises the plug-in, calls the front end
through the C API, and shuts the plug-in down, as often as sessions come; there is one thread of
control and no callback into the plug-in. `update_thread_list()` asks the
metadata (`parse()`), then the run-time data whether the scheduler has started,
then has it rebuild the collection. All queries that follow are served from the
collection; only the first register query of a thread after an update reads the
target again. Every read goes through the back end and may fail on its own. The
target runs between two commands of the user, so the memory behind everything
cached may change between any two updates.

What is hard here:

* **Reuse.** `threads::clear()` only sets `count_` to 0; the objects stay in the
  vector with all they hold, and `new_thread()` clears one when it takes it up
  again. Two lookups (by ID, by address) scan the whole vector, not only the
  listed part. What they find depends on the history of growing and shrinking
  lists.
* **A recursive walk over linked lists.** Each level keeps its own iterator
  while the levels below move theirs; the ends of lists are their heads, nodes
  and control blocks are translated into each other by offsets.
* **Partial failure.** Most reads have their result logged and ignored; what
  the variable held before is then stored as if it had been read.
* **Latches.** `parse()` sets `was_parsed_` before it has read anything;
  `is_scheduler_started_` outlives updates that fail; contexts are read once.
* **Limits.** A context of 51 words in a buffer of 50, an output buffer counted
  in pairs of digits, a description whose length is counted without its NUL and
  subtracted from a size, recursion as deep as the target's lists say.
* **Ownership.** The objects of a session are allocated by hand, the threads by
  `new_thread()` and never before the destructor freed, the array that holds
  them by a vector that moves it when it grows; any allocation may return null.

`PROJECT.json` lists each of these hazards with the line where it bites and the
properties that speak about it.

What makes each component correct:

* *target lists / run-time data*: an update that can read the links lists every
  thread of the target exactly once and no other (`SnapshotComplete`,
  `ListedOnce`), parents first, with its own members (`ImplementsSnapshot`,
  `NoForeignData`), and terminates with room for as many frames as the tree is
  deep (`Bounded`, `UpdateReturns`);
* *threads*: lookups find the listed object whatever is stale behind it
  (`LookupFindsListed`, `CurrentCorrect`); however often lists grow and
  shrink, there are never more objects than the target may have threads
  (`PoolBounded`);
  each object and each array is owned by one pointer until it is freed
  (`HeapOwned`); a description is one unbroken text, whole when
  there is room for it (`NoGaps`, `WholeWhenRoom`, `CutOffLastOnly`);
* *metadata*: examined once in a session, never believed when unsupported, not
  even on the word of an earlier session, available in the end to a debugger that
  keeps asking (`ExaminedOnce`, `AvailableIsSupported`, `EventuallyAvailable`);
* *C API*: a shutdown returns all the memory of the session (`ShutdownFrees`);
* *front end*: registers are those on the stack now (`RegistersFresh`), those of
  the running thread are never served from memory (`RunningFromCpu`), the
  debugger can enumerate threads and ask about each (`EnumerationFaithful`),
  nothing is shown without a scheduler (`NothingBeforeStart`);
  in all, a fixed view of the target from one update to the next
  (`ImplementsDebugView`);
* *registers*: the hex string is the register the debugger expects from the word
  where the target saved it (`TrueRegisters`) and stays in the buffer
  (`WithinBuffer`);
* *back end*: what is written is read back (`WrittenIsRead`), what a wide
  write stored is found by narrow reads of its halves, in the order of the target
  (`HalvesAgree`).

## 2. Modules

```
Words ─┬─ TargetTree ─┬─ RunTimeData ─┬─ WalkSnapshot ─── MCRunTimeData
       └─ Threads ────┘               │       └─ INSTANCE ─> UpdateSnapshot
                                      └─ Frontend ─── FrontendView ─── MCFrontend
                        Metadata ─┬───────┘                └─ INSTANCE ─> DebugView
                                  └─ Session ─── MCSession
StackContext ── MCStackContext    Description ── MCDescription    SampleBackend

RunTimeData_proofs ─┬─ WalkSnapshot_proofs
                    └─ Frontend_proofs ── FrontendView_proofs
Session_proofs   StackContext_proofs   Description_proofs   SampleBackend_proofs
```

A module extends those to its left; each `X_proofs` extends `X` as well.

* `Words`: addresses modulo `AddrSpace` (2^32 in the code) and bytes.
* `TargetTree`: a *forest* gives each owner (0 for the top list, else a thread)
  the sequence of threads in its list. `LinkWords` derives from it the words at
  the link addresses of memory. `ListOf`, `ThreadOf`, `NodeOf`, `LinkOf` are the
  four helpers that follow `top_threads_list_addr`, `threads_node_offset`,
  `children_node_offset`, `next_offset`. `LayoutAssumption` says that the control
  blocks are aligned and do not overlap as far as these fields go.
* `Threads`: `vector`, `count`, `current`. Objects are records; an object without
  a context that was read has `NoContext`. `current` and the results of lookups
  are indices into `vector`, 0 standing for the null pointer.
* `RunTimeData`: one action per turn of the recursion.
  * `UpdateThreads`: `clear()` and the entry of `iterate_threads()` for the top list;
  * `Visit`: one turn of the loop, that is `new_thread()`, the reads of all the
    members of the control block, and the `begin` of the recursive call;
  * `NextSibling`: the return of a recursive call and the iterator's `next`;
  * `WalkDone`, `UpdateCurrentThread`: the end of the outermost loop; the scan for
    the current thread;
  * `Exhausted`: a turn for which the host has no stack or heap;
  * `TargetRuns`: what happens in the target between two updates.
* `UpdateSnapshot`: the abstract specification. An update begins, and returns with
  all threads of the forest in preorder and the members of each. What preorder is
  comes without recursion (`InPreorder` of `TargetTree`): each thread once, between a
  thread and one below it only threads below it, and siblings as they are linked.
* `WalkSnapshot`: the refinement mapping, with `busy <- pc # "idle"` and `shown`
  computed from the collection.
* `Metadata`: `Parse(result)` has a disjunct for each way through `parse()`: it was
  parsed before; there is no symbol yet; the structure is examined.
* `Frontend`: composes `RunTimeData` and `Metadata`. The update has an action for
  each early return (`UpdateUnavailable`, `UpdateNotStarted`) and one that enters
  the walk (`UpdateStarted`); then `UpdateContinues` runs it. A register query is
  `GetRegistersFromCpu`, `GetRegisters` (which may fail to read the stack, and
  then answers and keeps zeros) or, when an assertion of the path fails,
  `GetRegistersAborts`. `HaltedNext` is all that happens while the target is halted,
  `FrontendNext` this and the runs of the target.
* `DebugView`: the abstract specification of the front end. A debugger looks at a
  view of the target that is made at once and stays until the next update: its
  threads, the running one, and for each other the registers it was first shown.
* `FrontendView`: the refinement mapping. It computes the view from the answers
  that the calls of the front end give, not from its state.
* `Session`: the life of the plug-in with the heap of the host. `drtm_init()` and
  `drtm_shutdown()` are sequences of steps, one for each allocation or release.
  An update is `Parse` of `Metadata` and as many `ReuseThread`, `AllocateThread` and
  `Grow` (the vector's move to a larger array) as there are threads. The heap is
  the function from the blocks in use to what they are used for.
* `Description`: one step per `snprintf()` of `prepare_description()`, or the `strcpy()`
  of the default. The buffer holds characters named by part and place, so that
  a part that overwrites or leaves a gap is seen; positions past the end of
  the buffer are kept as well.
* `StackContext`: the words pushed by the processor and the context switch
  (external), the choice of layout from `EXC_RETURN`, the two tables, the copy of
  the words, and the output of digits, one action per byte. It is the build
  without assertions, so that the layout whose context does not fit can be
  followed to its output.
* `SampleBackend`: memory as digits in base `Radix`, writes that split a value and
  reads that shift it together, as the code does it for each endianness.
* `MC*`: instances for TLC. `MCRunTimeData` and `MCFrontend` also have specifications
  of fewer runs of the target than the modules they check (`MCSpec`, section 4).
* `*_proofs`: section 6.

`PROJECT.json` "map" gives the lines of the source each definition translates.

## 3. Abstractions

* **Names and contexts are opaque.** A name is a value of its own control block
  (a model value or an address), a context a model value, or in `StackContext` a
  sequence of register names. A name that breaks off because its read failed
  counts as the name of its thread: it is a part of it.
* **Addresses are small numbers**, with wrap-around sums. 64 addresses hold
  three control blocks, 12 apart, with the list node at offset 4, the children
  head at 8 and the link at 1 inside a node. The offsets differ so that one
  taken for another finds no node.
* **The ID of a thread is its address shifted right by two**, as in the code; 0 is
  no thread.
* **The target is halted during one update**, and anything it may do between two
  updates is one step (`TargetRuns`), any forest, members and current thread to
  any others. The front end offers updates without regard for a running target;
  the sample back end halts the CPU for single reads only. A list that changes
  under the walk is outside of what is modelled.
* **The debugger asks anything at any time** when no call is active. `QueryIds`
  holds an ID that means no thread and IDs that may be listed, stale or unknown.
* **Failing reads.** A read of a link, of each member, of the current thread, of
  the metadata, of `is_started` and of a context may fail, by itself, as the
  constants of a run say. What a failure leaves is what the code has in the
  variable: 0 for an iterator, the byte of the previous read for a priority or a
  state, the cleared member for a name and SP, anything for uninitialised arrays
  of the metadata. After a failed link the walk follows words that are no links
  (`JunkWords`) and control blocks that are none (`JunkBody`).
* **History variables.** `faults` (kinds of failed reads since the last
  `clear()`), `fresh` (the target has not run since), `examined`, `written`,
  `reply` and `updateRet` exist for the properties; no action of the
  code or of the target depends on them.
* **The walk is modelled for complete metadata.** That incomplete metadata can be
  taken for complete is a result of `Metadata`; `Frontend` assumes it is not.
* **Memory.** A block is what one call of `yapp_malloc()` returned. It may return
  null at any time. The code looks nowhere: the host crashes where something is
  written through the null pointer, and goes on where nothing is (the allocator
  has no members; the reserved array is not written by `reserve()`).
* **The server obeys the protocol**: nothing is called before `drtm_init()` returned
  or after `drtm_shutdown()`.
* **Descriptions are lengths of parts.** What the characters of a name or a number
  are is left out. `size_t` counts modulo `SizeSpace`; a library may return -1 when
  it is offered more room than `INT_MAX`, as POSIX has it, or not.
* **The back end is taken at its word** in all modules but `SampleBackend`, so that
  the flaw of the sample (section 7) does not hide everything else.

## 4. Runs

| run | question | size |
|---|---|---|
| `walk` | does the walk of any forest, after any history, give the snapshot? | 3 threads, frames ≤ 4, objects ≤ 4, about 307,000 states |
| `faults` | what survives when any read may fail? | 2 threads, frames ≤ 4, objects ≤ 3, about 1.7 million states |
| `frontend` | are queries right across updates, before the start, with headers, flags and stacks that may not be readable? is it a `DebugView`? | 2 threads, 3 contexts, about 317,000 states |
| `session` | who owns the memory over repeated sessions; the latch of `parse()`; liveness | 2 threads, 1 reserved pointer, 7 blocks, 3 headers, about 624,000 states |
| `stack` | both layouts, all buffers around the two boundaries | sizes 0–18 and 130–140, about 8,000 states |
| `backend` | every value at every address, both orders, with writes that fail | 6 bytes in base 2, 1,920 states |
| `description` | all combinations of parts in all sizes of buffers | sizes 0–36, sizes modulo 256, about 59,000 states |
| `context_fits`, `description_fits`, `available_parsed`, `exact_buffer`, `loads_all` | statements of the code that TLC refutes, section 7 | |

Why the bounds are enough.

* *Three threads* give every shape that the recursion distinguishes: depth
  three, siblings before and after a branch, an empty list, a thread that is
  unlinked, a parent and child that swap. The lists of two consecutive updates are
  independent, so growing, shrinking and reordering all happen. The vector that
  remains after an update is itself a result of a history, so repeated updates
  reach all the mixtures of listed and stale objects for the threads there are.
  The theorems of section 6 lift the bound for all the safety properties of
  `walk` and `faults`, the refinement included, and of all the other runs.
* *Runs of the target* may follow each other in the modules as they like, between
  any two calls. In `walk`, `faults` and `frontend` the specification is `MCSpec`,
  which leaves out some of these: a run goes from any memory to any other, so two
  are as one unless something looks at the target between them. In `MCRunTimeData`
  only updates do, so it runs once between two of them. In `MCFrontend` queries of
  registers do as well, and see only the stacks: after each answer the stacks may change
  again, everything else changes once before the next update. `context_fits`
  has `FrontendSpec` itself, and so have all the theorems, with `Spec`.
* *`MaxDepth`* is at least one more than the number of threads (each recursion into
  a list of a thread, and the top list), so `Exhausted` is reachable only when the walk
  leaves the tree, which is what `Bounded` says. *`MaxObjects`* has one object to
  spare in `walk` and `faults` for the same reason. In `frontend` links can be
  read, so the exact numbers suffice.
* *Two threads under faults*: a failure needs a listed thread, the next one on
  the same object, and a stale object; two threads and two updates have them. The
  set of failing members has each member alone and the three bytes together.
* *Buffer sizes*: the loop distinguishes sizes by the number of digits that fit;
  the intervals contain the end of the first and of the last register.
* *Two threads in a session* and one reserved pointer: the second thread outgrows
  the array, the first does not, and a later, shorter list leaves a stale
  object. The seven blocks are those of the C API (3), two arrays during the move
  and two threads: with any of them taken away by a failing `yapp_malloc()` every
  allocation meets the end of memory.
* *Descriptions*: names of 0, 1 and 5 characters, states of three lengths, priorities of
  one, two and three digits give all the parts there are and totals up to 35;
  the sizes go from none to one more than the longest. 256 for `SizeSpace` is
  more than twice all of them, as 2^64 is, so that a difference that wrapped
  around exceeds `IntMax`.
* *Base 2*: shifting, masking and order do not depend on the base.

Properties, by module:

* `RunTimeData`: `TypeOK`; `IteratorsOnList`; `ListedOnce`; `SnapshotComplete`;
  `NoForeignData` (also with failing reads, an object never shows what it held
  for another thread, and the layout with FP registers is not shown of a thread that
  has none, unless with the stack pointer 0); `CurrentCorrect` (no other thread
  is taken for the running one, which is found at its listed object when it is
  listed); `NoOldCurrent`; `LookupFindsListed`;
  `Bounded`; `PoolBounded`; `ImplementsSnapshot` (refinement); `UpdateReturns`
  (liveness).
* `Frontend`: `RegistersFresh`; `RunningFromCpu`; `EnumerationFaithful`;
  `NothingBeforeStart`; `AvailabilityStays`; `ImplementsDebugView`
  (refinement).
* `Session`, with `Metadata`: `HeapOwned`; `ShutdownFrees` and
  `EventuallyAvailable` (liveness); `ExaminedOnce`; `AvailableIsSupported`.
* `Description`: `NoGaps`; `WholeWhenRoom`; `CutOffLastOnly`.
* `StackContext`: `TrueRegisters`; `WithinBuffer`; `AmpleBufferFilled`.
* `SampleBackend`: `WrittenIsRead`; `HalvesAgree`.

TLC evaluates two statements about the instances as assumptions. `PreorderIsUnique`
says of all forests of three threads that `InPreorder` determines the list, and that it
is the one that the recursion over the forest gives: this is what ties the predicate
of `UpdateSnapshot` to the recursive function of the code. `ReadableHere` says that
the hypothesis of the theorem about `DebugView` (section 6) is met in `frontend`.

Each property has a mutant in `PROJECT.json`: a plausible bug, put into the model, that
makes the property fail in its run. The operators that serve only as mutants are
marked with a comment.

## 5. Fairness and stopping

* `Spec` of `RunTimeData` has `WF(WalkStep)`: the plug-in has the only thread of
  control, and a call of `update_threads()` runs to its end. `UpdateReturns` is what
  then follows from the walk itself: it does not go round in the target's circular
  lists for ever. Nothing is assumed
  of the debugger (it may never ask) or the target (it may never run).
* `SessionSpec` has `WF(CallStep)` for the same reason: a call that has begun ends,
  or crashes. `WF(AskForUpdate)` and `WF(SymbolsLoaded)` say that during a session the
  debugger keeps asking for updates and has its symbols at last, which is what
  a GDB server does; without the second a target never becomes available.
  Nothing is assumed of when a session begins or ends, of memory, or of what reads
  return.
* `StackSpec` has `WF(StackNext)`, the loop.
* `FrontendSpec`, `BackendSpec` and `DescriptionSpec` have none: only safety is checked
  there. `UpdateSnapshot` and `DebugView` promise no liveness either.

Deadlock is checked in `walk` and `backend`. It is switched off where the
program stops: in `faults` a host without stack or heap is `crashed`, and in
`session` one that wrote through a null pointer; in the `frontend` runs a failed
assertion aborts; in the `stack` and `description` runs the function has returned.

## 6. Proofs

All proofs hold for any number of threads, any forest of them, any layout
that meets the assumption, any history of updates, queries and sessions, any size
of buffers, and any failing reads or allocations unless said otherwise.

| module | theorems |
|---|---|
| `RunTimeData_proofs` | `TypeCorrect`: `Spec => []TypeOK`. `Inductive`: `Spec => []IInv`, and from it `NeverListedTwice`, `UpdateIsComplete`, `IteratorsStayOnList`. `CollectionInvariant`: `Spec => [](IInv /\ CollectionInv)`, and from it `LookupIsRight`, `CurrentIsRight`, `NoCurrentIsRight`, `DataIsOwn`, `PoolStaysBounded`, `RoomIsEnough`, `UpdatesAreShort` |
| `WalkSnapshot_proofs` | `UpdateKeepsPromise`: `Spec => ImplementsSnapshot`, the refinement of `UpdateSnapshot` |
| `Frontend_proofs` | `FrontendInvariant`: `FrontendSpec => []FrontendInv`, and from it `FrontendTypeCorrect`, `AnswersAreFresh`, `EnumerationIsFaithful`, `NothingShownBeforeStart`, `RunningIsFromCpu`, and of steps `UpdatesKeepSucceeding` |
| `FrontendView_proofs` | `FrontendKeepsPromise`: `FrontendSpec => ImplementsDebugView`, the refinement of `DebugView` |
| `Session_proofs` | `SessionInvariant`: `SessionSpec => []SessionInv`, and from it `MemoryIsOwned`, `ShutdownReturnsAll`; `LatchInvariant`, and from it `NeverExaminedTwice`, `OnlySupportedBelieved`; `MetadataTypeCorrect` |
| `Description_proofs` | `DescriptionInvariant`: `DescriptionSpec => []DescriptionInv`, and from it `DescriptionTypeCorrect`, `OverrunsAreLate`, `TextHasNoGaps`, `RoomGetsWhole` |
| `StackContext_proofs` | `StackInvariant`: `StackSpec => []StackInv`, and from it `OutputTypeCorrect`, `RegistersAreTrue`, `StringFits`, `AmpleGetsAll` |
| `SampleBackend_proofs` | `BackendInvariant`: `BackendSpec => []BackendInv`, and from it `BackendTypeCorrect`, `WrittenValuesAreRead`, `HalvesAlwaysAgree` |

The lemmas before them: `RunTimeData_proofs` has the arithmetic of the lists (a node
gives back its thread, distinct positions have distinct links and nodes, the word at
a link is the next node and only that, the list of an owner is apart from all the
others), the facts about forests (each thread has one parent, is not its own
ancestor, is reached from the top), and what `clear`, `new_thread` and the two lookups
do to the collection. `Description_proofs` has the sums of lengths and subtraction
modulo `SizeSpace`, `SampleBackend_proofs` the splitting and joining of values.

Assumptions: `AddrSpaceAssumption`, `LayoutAssumption`, `ThreadsAssumption`,
`RunTimeDataAssumption`, and `MetadataAssumption`, `FrontendAssumption`,
`SessionAssumption`, `SizesAssumption`, `DescriptionAssumption`, `BackendAssumption`
for the modules they belong to. They concern constants only, each is as weak as
the models need it, and TLC evaluates them for the instances of the runs. Five
theorems assume more, and say so:

* `RoomIsEnough`, that the host has room for an object per thread and a frame more
  than there are threads;
* `UpdatesAreShort`, that links can be read;
* `RunningIsFromCpu`, that links can be read and that the word of `current_thread` is
  one of a thread, since a word that is not aligned could share an ID with a thread
  without being recognised as it;
* `UpdateKeepsPromise`, that links, members and `current_thread` can be read: what the
  code does after a failed read is no snapshot, and not meant to be one. It
  need not assume that the host has room, since it is about what is shown when
  an update returns;
* `FrontendKeepsPromise`, all of this (`Readable`) and that contexts fit their buffer,
  that is, no thread with FP registers (section 7): otherwise the walk or a query may
  crash, of which a view knows nothing. Whether the scheduler runs and what is on the
  stacks may be unreadable.

The argument. `ListedOnce` is not inductive: nothing in it says that the thread
that `Visit` is about to add is new. Nor is `SnapshotComplete`, which speaks only
about a finished update. `IInv` adds what is true in the middle of the walk:

* the frames are a path: each frame below the first iterates the list of the
  thread where the frame above stands, and no two iterate the same list;
* each iterator has a position in its list: the threads before it are listed,
  those after are not, and the one at it is listed exactly when its branch is
  being walked (`AtPosition`);
* a thread is not listed before its parent (`ParentsFirst`), so a thread about
  to be visited has no listed descendants, and its children list begins unlisted;
* a listed thread is being walked or all its children are listed
  (`BranchesDone`).

At the end one frame is left, the top list's, with its iterator at the end. All
threads of the top list are listed, and all children of listed threads are.
Every member of a forest hangs from the top list (`IsForest` has this in the
form of an induction principle that a set closed under children contains
the members), so all are listed. All of this is conditional on `LinksIntact`: after a
link that could not be read only type correctness is left.

`CollectionInv` is inductive relative to `IInv`, and adds what is true of objects:

* the ID of every object, listed or stale, is that of its address
  (`IdsOfAddresses`), and listed objects are threads (`ListedAreThreads`). Aligned
  addresses that differ have different IDs, and by `ListedOnce` no two listed
  objects have one address. So the first object with a listed ID is the listed one:
  a stale one with the same ID lies behind it (`LookupIsRight`). The same with
  addresses gives `CurrentIsRight`, and what the search finds has the address it
  looked for, listed or stale;
* no thread is current from the clear to the end of the walk (`NoneCurrentYet`),
  which is why a `current_thread` that cannot be read leaves none
  (`NoCurrentIsRight`);
* an object takes its members from reads of its own control block, from the
  cleared object, or from the byte of an earlier read (`DataIsOwn`, for whichever
  members cannot be read);
* a new object is allocated only when all objects are listed, as threads that
  differ, and the thread at hand is not one of them: `count` plus one is at most the
  cardinality of `Thread` (`PoolStaysBounded`).

`UpdateKeepsPromise` needs the order besides. That the threads listed so far are in
preorder does not say that the next one belongs at the end. `EnteredInOrder` does:
all that was listed since the walk entered the list of a thread on a frame is below
that thread, and the frames were entered one after the other. So the thread at the
last frame's iterator comes after its siblings, and everything between it and its
parent is below the parent (`BranchesTogether`, `SiblingsInOrder`). All steps but the
first and the last of an update are stutters; the last maps to `Return` by
`OrderInv`, `SnapshotComplete`, `DataIsOwn` and `CurrentCorrect`.

`RoomIsEnough` counts. A turn of the loop is about a thread that is not listed
yet, so there are fewer listed objects than threads, and when an object has to be
allocated all objects are listed. The frames below the first stand at threads
that are listed and differ, so there are at most as many frames as listed threads
and one more. Neither bound is reached before there is an unlisted thread too many.

`FrontendInv` carries these invariants over to the front end. An update that
enters the walk is a walk of `RunTimeData`; a query changes nothing but the
cached contexts, of which the invariants do not speak; the two early returns
empty the collection, for which `SnapshotComplete` does not hold and
`EmptyCollection` takes its place while `is_scheduler_started_` is false. It adds:

* a context cached in a listed object is that on the stack of its thread, or the
  zeros of one that could not be read, until the target runs (`CachesFresh`);
* the current thread is the first object with the address the target has for it
  (`CurrentRead`), and objects, stale ones too, are threads as long as links can be
  read (`ObjectsAreThreads`);
* there is no answer while an update is under way (`NoAnswerYet`);
* an update that succeeded has left the metadata available (`SucceedsWhenAvailable`),
  which `parse()` never takes back: hence `UpdatesKeepSucceeding`.

`UpdatesAreShort` and `ShutdownReturnsAll` have what the two liveness properties rest on,
for every value of the constants. `StepsLeft` is twice the number of threads that
are not listed, plus the number of frames, plus one: a turn of the loop lists a thread
and adds a frame, a return takes a frame away. `ShutdownLeft` counts the objects and
blocks still to be freed. Each step of the call lowers it; that a step is then taken
is the fairness of section 5, which TLC adds.

`FrontendKeepsPromise` goes through the actions of `Frontend` one by one. Its
`ViewInv` has what the promise needs besides: nothing has crashed or
failed to be read, no context is read while the lists are walked (`NoContextsYet`),
and none is too large (`ContextsFit`). The end of an update makes the view: by
`IInv` the listed IDs are those of the target's threads, and all their contexts are
unread. A query changes the context of the first object with its ID. If that is a
listed one it is the only listed one with this ID, and the step is the debugger's
first look at it; if not, it is in no thread of the view, whatever stale object was
found.

`SessionInv` has for each `pc` what exists at that moment (the pointers of the C API
set so far or not yet freed, the array, an object that is neither in the vector
nor counted, `OnePending`; the room reserved before an append, `RoomReserved`), and
that the blocks in use are exactly those these pointers hold, each once
(`HeapOwned`). Every step takes a block not in use or frees one that has one
owner. `LatchInv` relates `was_parsed_` to the number of examinations.

`StackInv` relates the length of the string to the position of the loop: all is
output up to here, or there was no room at the beginning of a register, and as
each register asks for the same room again none is ever added (this is why a
string that is cut short has no gap). `SourceIsRight` compares both tables with
the frames, register by register.

`DescriptionInv` says how far `count` can be trusted. As long as all was written in
the buffer, `count` is the length of the parts so far, or it has reached the size: a part
was cut off, and the characters that are there end with its NUL. The next part is then
offered a room that wrapped around, more than `INT_MAX`. Either the library refuses
(-1), which takes one from `count` and writes nothing, or it writes from `count` on,
behind the buffer. What is behind it was therefore written after the first cut, never
while all but the last part had room (`CutOffLastOnly`), and until then no
character is missing (`NoGaps`). `LengthOf` is a sum of four terms, as there are four
parts at most, so that this needs no induction.

`BackendInv` says that the bytes of the last write are still in memory, one by one. A
value of 1, 2, 4 or 8 bytes is split by division and joined by multiplication; both
are recursive functions over at most eight bytes, which `StepsExist` shows to exist,
and which are unrolled (`ShiftedSteps`, `BigEndianTrip`) instead of an induction.
`HalvesAgree` follows from it: the half with the higher digits is the quotient of the
value by the weight of the other, which is the remainder, and each is put together by
a read of its own, with weights that multiply (`WeightSum`).

Only checked by TLC:

* liveness itself (`UpdateReturns`, `ShutdownFrees`, `EventuallyAvailable`,
  `AmpleBufferFilled`), for which the provers have no fairness and no ENABLED. What is
  safety of the first two is proved as said above, and of the last as
  `AmpleGetsAll`: what the function returns with;
* that `InPreorder` determines the list (`PreorderIsUnique`), which takes an induction
  over forests;
* the five statements of section 7, which are refuted.

The inductive invariants were checked with TLC on the instances of the runs before
they were proved; they are not in a run since the theorems say more.

## 7. What does not hold

Five statements of the source are refuted by a run each:

| run | statement | what happens |
|---|---|---|
| `context_fits` | the assertion at `threads.h:317` that the context fits its buffer | a thread with FP registers has `in_registers` 51, the buffer 50 words: the assertion fails |
| `description_fits` | `frontend.h:243`, "The max size of the output buffer." | once a part is cut off, `out_size_bytes - count` wraps around and the next part is written behind the buffer |
| `available_parsed` | `metadata.h:270`, "tell if the structure was properly parsed" | a failed read of a field is logged and the metadata is available |
| `exact_buffer` | `frontend.h:366`–`368`, the size of the buffer and "Reading registers OK" | a buffer with exactly the room for digits and NUL is answered with 0 and lacks the last byte |
| `loads_all` | `drtm-backend.h:529`, load according to the endianness | the little-endian branches keep the lowest two bytes only |

Seen while modelling, and left in the models as the code has them:

* A thread that the last update dropped is still served: `thread()` scans the
  whole vector, not its first `count_` objects (`threads.h:587`), and an object behind
  them keeps its ID. `AskUnlisted` of `DebugView` has it: of such an ID nothing is
  promised.
* When `current_thread` cannot be read no thread is current
  (`run-time-data.h:297`), and the one that runs is served from its stack, where
  `frontend.h:281` has the registers of a running thread in the CPU.
* When the saved SP cannot be read, EXC_RETURN is read at an offset from 0, and
  the thread may be taken to have FP registers; when EXC_RETURN cannot be read
  it is taken to have none (`run-time-data.h:232`, `242`). `NoForeignData` says that
  the first goes with a stack pointer shown as 0. The second shows the
  registers of an FP thread from the wrong words, with nothing to tell by.
* `frontend.h:87` wants an update to "read all required information within this
  function at once, so later requests can be served without further communication
  to the target". The first request for registers of a thread reads its stack
  (`read_stack()`, called at `frontend.h:325` and `401`).
* The default description is copied by `strcpy()`, whatever the size of the buffer
  (`frontend.h:266`). A description has up to 286 characters for the longest name,
  where the commented-out sample offers 200 (`tests/sample/main.c`).
* Both priorities are shown when the inherited one is *higher* than the assigned
  one; the comment at `threads.h:200` says when they are different.
* The `write_*` functions of the sample back end return nothing, where their
  comments promise a result (`drtm-backend.h:383`): a write that fails is not noticed.
* `update_thread_list()` returns 0 although reads failed (`frontend.h:94`, `126`).
* A context that cannot be read is answered as zeros, with 0 (`threads.h:320`,
  `frontend.h:291`), and stays cached.
* The calls that set registers are not implemented and return 0
  (`frontend.h:441`, `472`).
* A link that cannot be read leaves an iterator 0, which is no end of any list
  (`run-time-data.h:386`, `473`): the walk goes on from there. `faults` explores
  it; it is why `Bounded` has its condition.
* Without assertions the 51st word goes into `stack.sp_addr`, and the SP shown for
  a thread with FP registers is the word above its frame, the padding where there is
  one (`run-time-data.h:793`, `threads.h:320`).
  `TrueRegisters` excludes just this register.
* The tables say that 18 and 51 words are read, where the comments have 17 and 50
  registers (`run-time-data.h:506`, `615`, `607`, `793`).

## 8. Not modelled

* What the characters of names, priorities and states are, and all messages to
  the server.
* The polymorphic allocator of `memory.h`, which nothing in the repository uses.
* Types, version, build files, templates: no behaviour. The sample test prints
  the version; its calls of the entry points are compiled out.
* A target that changes its lists during one update. The code has no defence, and
  a link of a thread that moved leads into another list, whose end is not
  the one the loop compares with: nothing but type correctness is left of the
  walk. `faults` explores walks that leave the tree already, and `TypeCorrect`
  holds for them.
* Concurrency: the plug-in has none.
* Use before `drtm_init()` or after `drtm_shutdown()`, and an `drtm_init()` without a
  `drtm_shutdown()` before: the server does not do so, and the code guards only
  by assertions that the pointers are not null.

## 9. Plan

Order of work: (1) lists, collection and walk, the core of the plug-in; (2) the
abstract snapshot and the refinement; (3) metadata and front end; (4) registers;
(5) sample back end; (6) type correctness and the walk's invariant as theorems;
(7) the abstract view of a debugger and the refinement; (8) sessions and memory;
(9) descriptions; (10) the invariants of the collection, the front end, the session
and the register string as theorems; (11) both refinements, the descriptions and
the back end as theorems. These are done. Left are proofs:

1. What both refinements become when reads fail: which part of a snapshot is still
   promised after a failed member or `current_thread`.
2. The safety behind `EventuallyAvailable`: of a supported target whose fields can be
   read, the first request after its symbols are there makes it available.
3. How much of `DebugView` remains for threads with FP registers.
