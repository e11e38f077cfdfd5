------------------------------- MODULE Session -------------------------------
(***************************************************************************)
(* samples/drtm.cpp: the life of the plug-in, from drtm_init() to          *)
(* drtm_shutdown(), as often as the server starts and ends a session, and  *)
(* the host memory it holds meanwhile: the three objects of the C API, the *)
(* array of the std::vector threads_ (include/drtm/threads.h) and the      *)
(* objects it points to, all allocated with yapp_malloc() and freed with   *)
(* yapp_free() (samples/drtm-memory.h).                                    *)
(*                                                                         *)
(* Of an update only what touches host memory is kept: parse(), the clear  *)
(* and the calls of new_thread(); RunTimeData has the rest.  The server    *)
(* obeys the protocol: it makes no call before drtm_init() has returned    *)
(* nor after drtm_shutdown().  yapp_malloc() may fail at any time, and      *)
(* nobody looks at its result: the host crashes where something is written *)
(* through the null pointer, and goes on where nothing is.                 *)
(***************************************************************************)
EXTENDS Metadata, Sequences

CONSTANTS
  Block,       \* what yapp_malloc() may return
  Null,
  Reserved,    \* THREADS_ALLOCATED_SIZE_POINTERS, 20 in the code
  MaxThreads   \* threads the target has at most

ASSUME SessionAssumption ==
  /\ Null \notin Block
  /\ Reserved \in Nat \ {0}
  /\ MaxThreads \in Nat

VARIABLES
  pc,        \* what the plug-in is about to do; "up" between two calls
  heap,      \* the blocks that are in use, and what for
  drtm_,     \* the pointers of the C API
  threads_, array, capacity,  \* the vector: its elements, its storage
  count_,
  pending,   \* the object that new_thread() has just constructed
  replaced   \* (history) the application changed after it was examined

pluginVars == <<heap, drtm_, threads_, array, capacity, count_, pending>>
sessionVars == <<metadataVars, pluginVars, pc, replaced>>

InInit == {"init allocator", "init backend", "init frontend", "construct"}
InShutdown == {"delete", "free frontend", "free backend", "free allocator"}

Allocate(b, kind) == heap' = [x \in DOMAIN heap \cup {b} |->
                                IF x = b THEN kind ELSE heap[x]]
Free(bs) == heap' = [x \in DOMAIN heap \ bs |-> heap[x]]
Available == Block \ DOMAIN heap

---------------------------------------------------------------------------
(* drtm_init().                                                            *)

BeginInit ==
  /\ pc = "down"
  /\ pc' = "init allocator"
  /\ UNCHANGED <<metadataVars, pluginVars, replaced>>

\* One of the three objects is allocated, and constructed in its place.
InitObject(step, object, next) ==
  /\ pc = step
  /\ \E b \in Available :
       /\ Allocate(b, object)
       /\ drtm_' = [drtm_ EXCEPT ![object] = b]
  /\ pc' = next
  /\ UNCHANGED <<metadataVars, threads_, array, capacity, count_, pending,
                 replaced>>

InitAllocator == InitObject("init allocator", "allocator", "init backend")

\* The allocator has no members: nothing is written where it should be.
InitWithoutAllocator ==
  /\ pc = "init allocator"
  /\ drtm_' = [drtm_ EXCEPT !.allocator = Null]
  /\ pc' = "init backend"
  /\ UNCHANGED <<metadataVars, heap, threads_, array, capacity, count_,
                 pending, replaced>>

InitBackend == InitObject("init backend", "backend", "init frontend")
InitFrontend == InitObject("init frontend", "frontend", "construct")

\* The members of the front end: the metadata, and the collection, which
\* reserves its array.  Nothing is written to the array yet.
ConstructFrontend ==
  /\ pc = "construct"
  /\ \/ \E b \in Available : Allocate(b, "array") /\ array' = b
     \/ array' = Null /\ UNCHANGED heap
  /\ capacity' = Reserved
  /\ threads_' = <<>>
  /\ count_' = 0
  /\ was_parsed' = FALSE
  /\ is_available' = FALSE
  /\ loaded' = 0
  /\ examined' = 0
  /\ replaced' = FALSE
  /\ pc' = "up"
  /\ UNCHANGED <<resolved, header, drtm_, pending>>

---------------------------------------------------------------------------
(* drtm_update_thread_list().                                              *)

\* The metadata is not available.
UpdateUnavailable ==
  /\ pc = "up"
  /\ Parse(FALSE)
  /\ UNCHANGED <<pluginVars, pc, replaced>>

\* The collection is cleared, and if the scheduler runs the lists are walked.
Update ==
  /\ pc = "up"
  /\ Parse(TRUE)
  /\ count_' = 0
  /\ pc' \in {"up", "walk"}
  /\ UNCHANGED <<heap, drtm_, threads_, array, capacity, pending, replaced>>

\* new_thread() with an object that is there.
ReuseThread ==
  /\ pc = "walk"
  /\ count_ < Len(threads_)
  /\ count_' = count_ + 1
  /\ UNCHANGED <<metadataVars, heap, drtm_, threads_, array, capacity, pending,
                 pc, replaced>>

Push(th) ==
  /\ threads_' = Append(threads_, th)
  /\ count_' = count_ + 1
  /\ pc' = "walk"

\* new_thread() with a new one; push_back() has room for its address, or not.
AllocateThread ==
  /\ pc = "walk"
  /\ count_ = Len(threads_)
  /\ count_ < MaxThreads
  /\ \E th \in Available :
       /\ Allocate(th, "thread")
       /\ \/ /\ Len(threads_) < capacity
             /\ array # Null
             /\ Push(th)
             /\ UNCHANGED pending
          \/ /\ Len(threads_) = capacity
             /\ pending' = th
             /\ pc' = "grow"
             /\ UNCHANGED <<threads_, count_>>
  /\ UNCHANGED <<metadataVars, drtm_, array, capacity, replaced>>

\* push_back() moves the elements to a larger array and frees the old one.
Grow ==
  /\ pc = "grow"
  /\ \E b \in Available :
       /\ array' = b
       /\ heap' = [x \in (DOMAIN heap \ {array}) \cup {b} |->
                     IF x = b THEN "array" ELSE heap[x]]
  /\ capacity' = 2 * capacity
  /\ Push(pending)
  /\ pending' = Null
  /\ UNCHANGED <<metadataVars, drtm_, replaced>>

WalkEnds ==
  /\ pc = "walk"
  /\ pc' = "up"
  /\ UNCHANGED <<metadataVars, pluginVars, replaced>>

---------------------------------------------------------------------------
(* drtm_shutdown().                                                        *)

\* Mutant: the loop over the objects is over the listed ones only.
BeginShutdownListed ==
  /\ pc = "up"
  /\ pc' = "delete"
  /\ threads_' = SubSeq(threads_, 1, count_)
  /\ UNCHANGED <<metadataVars, heap, drtm_, array, capacity, count_, pending,
                 replaced>>

BeginShutdown ==
  /\ pc = "up"
  /\ pc' = "delete"
  /\ UNCHANGED <<metadataVars, pluginVars, replaced>>

\* ~threads() deletes the objects one by one, stale ones included.
DeleteThread ==
  /\ pc = "delete"
  /\ threads_ # <<>>
  /\ Free({Head(threads_)})
  /\ threads_' = Tail(threads_)
  /\ UNCHANGED <<metadataVars, drtm_, array, capacity, count_, pending, pc,
                 replaced>>

\* The destructor of the vector.
FreeArray ==
  /\ pc = "delete"
  /\ threads_ = <<>>
  /\ Free({array})
  /\ array' = Null
  /\ pc' = "free frontend"
  /\ UNCHANGED <<metadataVars, drtm_, threads_, capacity, count_, pending,
                 replaced>>

\* Mutant: the object is destructed, and its memory kept.
DestructObject(step, object, next) ==
  /\ pc = step
  /\ pc' = next
  /\ UNCHANGED <<metadataVars, pluginVars, replaced>>

\* The memory of one of the three objects.  The pointer keeps its value.
FreeObject(step, object, next) ==
  /\ pc = step
  /\ Free({drtm_[object]})
  /\ pc' = next
  /\ UNCHANGED <<metadataVars, drtm_, threads_, array, capacity, count_,
                 pending, replaced>>

FreeFrontend == FreeObject("free frontend", "frontend", "free backend")
FreeBackend == FreeObject("free backend", "backend", "free allocator")
FreeAllocator == FreeObject("free allocator", "allocator", "down")

---------------------------------------------------------------------------
\* Something is written where yapp_malloc() returned no memory: a member of the
\* back end, the front end or a thread, or an element of the array.
Crash ==
  /\ \/ pc \in {"init backend", "init frontend", "grow"}
     \/ pc = "walk" /\ count_ = Len(threads_) /\ count_ < MaxThreads
  /\ pc' = "crashed"
  /\ UNCHANGED <<metadataVars, pluginVars, replaced>>

\* Another application is loaded into the target, at the same symbol.
ReplaceApplication ==
  /\ pc = "up"
  /\ header' \in Headers
  /\ replaced' = was_parsed
  /\ UNCHANGED <<resolved, was_parsed, is_available, loaded, examined,
                 pluginVars, pc>>

SymbolsLoaded ==
  /\ pc = "up"
  /\ ResolveSymbol
  /\ UNCHANGED <<pluginVars, pc, replaced>>

SessionInit ==
  /\ MetadataInit
  /\ pc = "down"
  /\ heap = [b \in {} |-> Null]
  /\ drtm_ = [object \in {"allocator", "backend", "frontend"} |-> Null]
  /\ threads_ = <<>>
  /\ array = Null
  /\ capacity = 0
  /\ count_ = 0
  /\ pending = Null
  /\ replaced = FALSE

InitStep ==
  \/ InitAllocator \/ InitWithoutAllocator
  \/ InitBackend \/ InitFrontend \/ ConstructFrontend
UpdateStep == ReuseThread \/ AllocateThread \/ Grow \/ WalkEnds
ShutdownStep ==
  DeleteThread \/ FreeArray \/ FreeFrontend \/ FreeBackend \/ FreeAllocator

\* The steps of a call that has begun.
CallStep == InitStep \/ UpdateStep \/ ShutdownStep \/ Crash

AskForUpdate == UpdateUnavailable \/ Update

SessionNext ==
  \/ CallStep
  \/ BeginInit
  \/ AskForUpdate
  \/ BeginShutdown
  \/ ReplaceApplication
  \/ SymbolsLoaded

\* A call returns.  While a session lasts the server asks for updates again and
\* again, and has its symbols at last; it need not begin or end one.
SessionSpec ==
  /\ SessionInit
  /\ [][SessionNext]_sessionVars
  /\ WF_sessionVars(CallStep)
  /\ WF_sessionVars(AskForUpdate)
  /\ WF_sessionVars(SymbolsLoaded)

---------------------------------------------------------------------------
(* Properties.                                                             *)

\* The objects of the C API that are constructed and not yet destructed.
LiveObjects ==
  CASE pc \in {"down", "init allocator"} -> {}
    [] pc \in {"init backend", "free allocator"} -> {"allocator"}
    [] pc \in {"init frontend", "free backend"} -> {"allocator", "backend"}
    [] OTHER -> {"allocator", "backend", "frontend"}

\* What the plug-in points to and will still use, with its kind.
Held ==
  {<<drtm_[object], object>> : object \in {x \in LiveObjects : drtm_[x] # Null}}
    \cup {<<threads_[i], "thread">> : i \in 1 .. Len(threads_)}
    \cup {<<array, "array">> : x \in {array} \ {Null}}
    \cup {<<pending, "thread">> : x \in {pending} \ {Null}}

\* Every block in use is held by one pointer, and every pointer the plug-in
\* will use leads to a block in use: nothing leaks from one session to the
\* next, nothing is freed twice or used after it was freed, in whatever order
\* lists grew and shrank before drtm_shutdown().
HeapOwned ==
  pc # "crashed" =>
    /\ {<<b, heap[b]>> : b \in DOMAIN heap} = Held
    /\ \A i, j \in 1 .. Len(threads_) : threads_[i] = threads_[j] => i = j
    /\ \A i \in 1 .. Len(threads_) : threads_[i] # pending

\* A shutdown returns all the memory that the session had.
ShutdownFrees == pc = "delete" ~> DOMAIN heap = {}

\* A structure that is not there, or has another version, is not believed: not
\* in this session, and not because of an earlier one, with another
\* application.
AvailableIsSupported ==
  HeaderFaults \cap {"magic", "version"} = {} /\ is_available /\ ~replaced =>
    Supported

\* Asking before the symbols are there costs nothing: in every session a
\* supported target becomes available, unless the session ends first.
EventuallyAvailable ==
  (pc = "up" /\ ~was_parsed /\ Supported /\
     HeaderFaults \cap {"magic", "version"} = {})
    ~> (is_available \/ ~Supported \/ pc = "delete")
=============================================================================
