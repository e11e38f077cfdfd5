--------------------------- MODULE Session_proofs ---------------------------
(***************************************************************************)
(* The memory of any number of sessions, whatever blocks yapp_malloc()     *)
(* returns or does not, and however the lists of threads grow and shrink:  *)
(* every block in use has exactly one owner, and the vector has room for   *)
(* its elements.  And the latch of the metadata, for any structures.       *)
(***************************************************************************)
EXTENDS Session, TLAPS

Objects == {"allocator", "backend", "frontend"}

Phases == {"down", "up", "walk", "grow", "crashed"} \cup InInit \cup InShutdown

MemoryTypeOK ==
  /\ pc \in Phases
  /\ DOMAIN heap \subseteq Block
  /\ drtm_ \in [Objects -> Block \cup {Null}]
  /\ threads_ \in Seq(Block)
  /\ array \in Block \cup {Null}
  /\ capacity \in Nat
  /\ count_ \in Nat
  /\ pending \in Block \cup {Null}

(***************************************************************************)
(* What is there in each phase of a session.  HeapOwned needs it where a   *)
(* pointer is forgotten or made: there is no array yet when one is         *)
(* reserved, no object waits when another is made, and while one waits the *)
(* array is full.                                                          *)
(***************************************************************************)
NoCollection ==
  pc \in {"down", "free frontend", "free backend", "free allocator"}
           \cup InInit =>
    threads_ = <<>> /\ array = Null

OnePending ==
  /\ pc \notin {"grow", "crashed"} => pending = Null
  /\ pc = "grow" => pending # Null /\ count_ = Len(threads_)
                                   /\ Len(threads_) = capacity

\* The array has room for what is in it, and count_ is within it.
VectorFits ==
  pc \notin {"crashed", "down"} \cup InInit \cup InShutdown =>
    count_ <= Len(threads_) /\ Len(threads_) <= capacity

RoomReserved == pc \in {"up", "walk", "grow"} => capacity > 0

SessionInv ==
  /\ MemoryTypeOK
  /\ NoCollection
  /\ OnePending
  /\ RoomReserved
  /\ HeapOwned
  /\ VectorFits

---------------------------------------------------------------------------
\* What push_back() does to a vector, and the deletion of its first element.
LEMMA AppendFacts ==
  ASSUME NEW S, NEW s \in Seq(S), NEW e \in S
  PROVE  Append(s, e) \in Seq(S) /\ Len(Append(s, e)) = Len(s) + 1
  OBVIOUS

LEMMA TailFacts ==
  ASSUME NEW S, NEW s \in Seq(S), s # <<>>
  PROVE  Tail(s) \in Seq(S)
  OBVIOUS

---------------------------------------------------------------------------
(* The heap and its owners.                                                *)

\* The owners of blocks, one disjunct for each kind.
LEMMA HeldBy ==
  ASSUME NEW b, NEW kind
  PROVE  <<b, kind>> \in Held <=>
           \/ kind \in LiveObjects /\ drtm_[kind] # Null /\ b = drtm_[kind]
           \/ kind = "thread" /\ \E i \in 1 .. Len(threads_) : b = threads_[i]
           \/ kind = "array" /\ array # Null /\ b = array
           \/ kind = "thread" /\ pending # Null /\ b = pending
  BY DEF Held

\* The same in the next state.
LEMMA HeldNext ==
  ASSUME NEW b, NEW kind
  PROVE  <<b, kind>> \in Held' <=>
           \/ kind \in LiveObjects' /\ drtm_'[kind] # Null /\ b = drtm_'[kind]
           \/ kind = "thread" /\ \E i \in 1 .. Len(threads_') : b = threads_'[i]
           \/ kind = "array" /\ array' # Null /\ b = array'
           \/ kind = "thread" /\ pending' # Null /\ b = pending'
  BY DEF Held

\* A block is owned when it is in use, with the kind it is used for.
LEMMA HeldIsUsed ==
  ASSUME HeapOwned, pc # "crashed", NEW b, NEW kind
  PROVE  <<b, kind>> \in Held <=> b \in DOMAIN heap /\ kind = heap[b]
  BY DEF HeapOwned

\* How HeapOwned is shown of the next state.
LEMMA OwnedNext ==
  ASSUME \A b, kind : <<b, kind>> \in Held' <=>
                        b \in DOMAIN heap' /\ kind = heap'[b],
         \A i, j \in 1 .. Len(threads_') : threads_'[i] = threads_'[j] => i = j,
         \A i \in 1 .. Len(threads_') : threads_'[i] # pending'
  PROVE  HeapOwned'
  <1>1. \A x \in Held' : \E b, kind : x = <<b, kind>>
    BY DEF Held
  <1>2. {<<b, heap'[b]>> : b \in DOMAIN heap'} = Held'
    BY <1>1
  <1> QED
    BY <1>2 DEF HeapOwned

\* What is owned has one of the kinds; the live objects are among them.
LEMMA LiveAreObjects == LiveObjects \subseteq Objects
  BY DEF LiveObjects, Objects

\* Steps that leave the memory alone.
LEMMA SameMemory ==
  ASSUME HeapOwned, pc # "crashed",
         UNCHANGED <<heap, drtm_, threads_, array, pending>>,
         LiveObjects' = LiveObjects
  PROVE  HeapOwned'
  <1>1. Held' = Held
    BY DEF Held
  <1> QED
    BY <1>1 DEF HeapOwned

---------------------------------------------------------------------------
(* The steps that allocate or free.                                        *)

\* One of the three objects gets a block that nobody has.
LEMMA InitObjectOwned ==
  ASSUME SessionInv, NEW object \in Objects, NEW b \in Available,
         pc # "crashed", Allocate(b, object),
         drtm_' = [drtm_ EXCEPT ![object] = b],
         UNCHANGED <<threads_, array, pending>>,
         object \notin LiveObjects, LiveObjects' = LiveObjects \cup {object}
  PROVE  HeapOwned'
  <1> USE DEF SessionInv, MemoryTypeOK
  <1>1. b \in Block /\ b # Null /\ b \notin DOMAIN heap
    BY SessionAssumption DEF Available
  <1>2. ASSUME NEW c, NEW kind
        PROVE  <<c, kind>> \in Held' <=> c \in DOMAIN heap' /\ kind = heap'[c]
    <2>1. <<c, kind>> \in Held' <=>
            <<c, kind>> \in Held \/ <<c, kind>> = <<b, object>>
      BY <1>1, HeldBy, HeldNext, LiveAreObjects
    <2>2. <<c, kind>> \in Held <=> c \in DOMAIN heap /\ kind = heap[c]
      BY HeldIsUsed
    <2> QED
      BY <1>1, <2>1, <2>2 DEF Allocate
  <1> QED
    BY <1>2, OwnedNext DEF HeapOwned

\* There is no memory for the allocator, and it is used all the same.
LEMMA InitWithoutOwned ==
  ASSUME SessionInv, InitWithoutAllocator
  PROVE  HeapOwned'
  <1>1. /\ pc = "init allocator" /\ pc' = "init backend"
        /\ UNCHANGED <<heap, threads_, array, pending>>
    BY DEF InitWithoutAllocator
  <1>2. LiveObjects = {} /\ LiveObjects' = {"allocator"} /\ drtm_'["allocator"] = Null
    BY <1>1 DEF LiveObjects, Objects, InitWithoutAllocator, SessionInv, MemoryTypeOK
  <1>3. ASSUME NEW c, NEW kind
        PROVE  <<c, kind>> \in Held' <=> c \in DOMAIN heap' /\ kind = heap'[c]
    <2>1. <<c, kind>> \in Held' <=> <<c, kind>> \in Held
      <3>1. (\E i \in 1 .. Len(threads_') : c = threads_'[i])
              <=> \E i \in 1 .. Len(threads_) : c = threads_[i]
        BY <1>1
      <3>2. ~ (kind \in LiveObjects /\ drtm_[kind] # Null /\ c = drtm_[kind])
        BY <1>2
      <3>3. ~ (kind \in LiveObjects' /\ drtm_'[kind] # Null /\ c = drtm_'[kind])
        BY <1>2
      <3>4. pending' = pending /\ array' = array
        BY <1>1
      <3> QED
        BY <3>1, <3>2, <3>3, <3>4, HeldBy, HeldNext
    <2> QED
      BY <1>1, <2>1, HeldIsUsed DEF SessionInv
  <1> QED
    BY <1>1, <1>3, OwnedNext DEF HeapOwned, SessionInv

\* The vector's array: nothing is in it yet.
LEMMA ConstructOwned ==
  ASSUME SessionInv, ConstructFrontend
  PROVE  HeapOwned'
  <1> USE DEF SessionInv, MemoryTypeOK
  <1>1. /\ pc = "construct" /\ pc' = "up"
        /\ threads_ = <<>> /\ array = Null /\ pending = Null
        /\ threads_' = <<>> /\ pending' = Null /\ drtm_' = drtm_
    BY DEF ConstructFrontend, NoCollection, OnePending, InInit
  <1>2. LiveObjects' = LiveObjects
    BY <1>1 DEF LiveObjects
  <1>3. CASE array' = Null /\ UNCHANGED heap
    BY <1>1, <1>2, <1>3, SameMemory
  <1>4. CASE \E b \in Available : Allocate(b, "array") /\ array' = b
    <2>1. PICK b \in Available : Allocate(b, "array") /\ array' = b
      BY <1>4
    <2>2. b \in Block /\ b # Null /\ b \notin DOMAIN heap
      BY SessionAssumption DEF Available
    <2>3. ASSUME NEW c, NEW kind
          PROVE  <<c, kind>> \in Held' <=> c \in DOMAIN heap' /\ kind = heap'[c]
      <3>1. <<c, kind>> \in Held' <=>
              <<c, kind>> \in Held \/ <<c, kind>> = <<b, "array">>
        BY <1>1, <1>2, <2>1, <2>2, HeldBy, HeldNext
      <3>2. <<c, kind>> \in Held <=> c \in DOMAIN heap /\ kind = heap[c]
        BY <1>1, HeldIsUsed
      <3> QED
        BY <2>1, <2>2, <3>1, <3>2 DEF Allocate
    <2> QED
      BY <1>1, <2>3, OwnedNext
  <1> QED
    BY <1>3, <1>4 DEF ConstructFrontend

\* A new thread, which is pushed at once or waits for the array to grow.
LEMMA AllocateThreadOwned ==
  ASSUME SessionInv, AllocateThread
  PROVE  HeapOwned'
  <1> USE DEF SessionInv, MemoryTypeOK
  <1>1. /\ pc = "walk" /\ pending = Null /\ drtm_' = drtm_ /\ array' = array
    BY DEF AllocateThread, OnePending
  <1>2. LiveObjects' = LiveObjects
    BY <1>1 DEF LiveObjects, AllocateThread, Push
  <1>3. PICK th \in Available :
          /\ Allocate(th, "thread")
          /\ \/ Push(th) /\ UNCHANGED pending
             \/ pending' = th /\ UNCHANGED threads_
    BY DEF AllocateThread
  <1>4. th \in Block /\ th # Null /\ th \notin DOMAIN heap
    BY SessionAssumption DEF Available
  <1>5. \A i \in 1 .. Len(threads_) : threads_[i] \in DOMAIN heap
    BY <1>1, HeldBy, HeldIsUsed
  <1>6. ASSUME NEW c, NEW kind
        PROVE  <<c, kind>> \in Held <=> c \in DOMAIN heap /\ kind = heap[c]
    BY <1>1, HeldIsUsed
  <1>7. CASE Push(th) /\ UNCHANGED pending
    <2>1. /\ threads_' = Append(threads_, th) /\ pending' = Null
          /\ Len(threads_') = Len(threads_) + 1
          /\ threads_'[Len(threads_) + 1] = th
          /\ \A i \in 1 .. Len(threads_) : threads_'[i] = threads_[i]
      BY <1>1, <1>4, <1>7 DEF Push
    <2>2. ASSUME NEW c, NEW kind
          PROVE  <<c, kind>> \in Held' <=> c \in DOMAIN heap' /\ kind = heap'[c]
      <3>1. <<c, kind>> \in Held' <=>
              <<c, kind>> \in Held \/ <<c, kind>> = <<th, "thread">>
        <4>1. (\E i \in 1 .. Len(threads_') : c = threads_'[i])
                <=> c = th \/ \E i \in 1 .. Len(threads_) : c = threads_[i]
          BY <2>1
        <4> QED
          BY <1>1, <1>2, <2>1, <4>1, HeldBy, HeldNext
      <3> QED
        BY <1>3, <1>4, <1>6, <3>1 DEF Allocate
    <2>3. \A i, j \in 1 .. Len(threads_') : threads_'[i] = threads_'[j] => i = j
      BY <1>1, <1>4, <1>5, <2>1 DEF HeapOwned
    <2>4. \A i \in 1 .. Len(threads_') : threads_'[i] # pending'
      BY <1>1, <1>4, <2>1 DEF HeapOwned
    <2> QED
      BY <2>2, <2>3, <2>4, OwnedNext
  <1>8. CASE pending' = th /\ UNCHANGED threads_
    <2>1. ASSUME NEW c, NEW kind
          PROVE  <<c, kind>> \in Held' <=> c \in DOMAIN heap' /\ kind = heap'[c]
      <3>1. <<c, kind>> \in Held' <=>
              <<c, kind>> \in Held \/ <<c, kind>> = <<th, "thread">>
        BY <1>1, <1>2, <1>4, <1>8, HeldBy, HeldNext
      <3> QED
        BY <1>3, <1>4, <1>6, <3>1 DEF Allocate
    <2>2. \A i \in 1 .. Len(threads_') : threads_'[i] # pending'
      BY <1>4, <1>5, <1>8
    <2> QED
      BY <1>1, <1>8, <2>1, <2>2, OwnedNext DEF HeapOwned
  <1> QED
    BY <1>3, <1>7, <1>8

\* The thread that waited is pushed to the larger array, and the old one freed.
LEMMA GrowOwned ==
  ASSUME SessionInv, Grow
  PROVE  HeapOwned'
  <1> USE DEF SessionInv, MemoryTypeOK
  <1>1. /\ pc = "grow" /\ pc' = "walk" /\ pending # Null /\ pending' = Null
        /\ drtm_' = drtm_
    BY DEF Grow, OnePending, Push
  <1>2. LiveObjects' = LiveObjects
    BY <1>1 DEF LiveObjects
  <1>3. PICK b \in Available :
          /\ array' = b
          /\ heap' = [x \in (DOMAIN heap \ {array}) \cup {b} |->
                        IF x = b THEN "array" ELSE heap[x]]
    BY DEF Grow
  <1>4. b \in Block /\ b # Null /\ b \notin DOMAIN heap
    BY SessionAssumption DEF Available
  <1>5. ASSUME NEW c, NEW kind
        PROVE  <<c, kind>> \in Held <=> c \in DOMAIN heap /\ kind = heap[c]
    BY <1>1, HeldIsUsed
  <1>6. /\ Len(threads_') = Len(threads_) + 1
        /\ threads_'[Len(threads_) + 1] = pending
        /\ \A i \in 1 .. Len(threads_) : threads_'[i] = threads_[i]
    BY <1>1 DEF Grow, Push
  <1>7. ASSUME NEW c, NEW kind
        PROVE  <<c, kind>> \in Held' <=> c \in DOMAIN heap' /\ kind = heap'[c]
    <2>1. (\E i \in 1 .. Len(threads_') : c = threads_'[i])
            <=> c = pending \/ \E i \in 1 .. Len(threads_) : c = threads_[i]
      BY <1>6
    <2>2. "array" \notin LiveObjects
      BY LiveAreObjects DEF Objects
    <2>3. <<c, kind>> \in Held' <=> \/ kind # "array" /\ <<c, kind>> \in Held
                                    \/ <<c, kind>> = <<b, "array">>
      BY <1>1, <1>2, <1>3, <1>4, <2>1, <2>2, HeldBy, HeldNext
    <2>4. c \in DOMAIN heap /\ heap[c] = "array" => c = array
      BY <1>5, <2>2, HeldBy
    <2>5. array # Null => array \in DOMAIN heap /\ heap[array] = "array"
      <3>1. array # Null => <<array, "array">> \in Held
        BY HeldBy
      <3> QED
        BY <1>1, <3>1, HeldIsUsed
    <2>6. Null \notin DOMAIN heap
      BY SessionAssumption
    <2> QED
      BY <1>3, <1>4, <1>5, <2>3, <2>4, <2>5, <2>6
  <1>8. \A i, j \in 1 .. Len(threads_') : threads_'[i] = threads_'[j] => i = j
    BY <1>1, <1>6 DEF HeapOwned
  <1>9. \A i \in 1 .. Len(threads_') : threads_'[i] # pending'
    BY <1>1, <1>6, SessionAssumption DEF HeapOwned
  <1> QED
    BY <1>7, <1>8, <1>9, OwnedNext

\* A thread is deleted, the first of the vector.
LEMMA DeleteThreadOwned ==
  ASSUME SessionInv, DeleteThread
  PROVE  HeapOwned'
  <1> USE DEF SessionInv, MemoryTypeOK
  <1> DEFINE th == Head(threads_)
  <1>1. /\ pc = "delete" /\ pending = Null
        /\ UNCHANGED <<pc, drtm_, array, pending>>
        /\ heap' = [x \in DOMAIN heap \ {th} |-> heap[x]]
    BY DEF DeleteThread, OnePending, Free
  <1>2. LiveObjects' = LiveObjects /\ "thread" \notin LiveObjects
    BY <1>1 DEF LiveObjects
  <1>3. /\ th = threads_[1] /\ Len(threads_) \in Nat \ {0}
        /\ Len(threads_') = Len(threads_) - 1
        /\ \A i \in 1 .. Len(threads_') : threads_'[i] = threads_[i + 1]
    BY DEF DeleteThread
  <1>4. ASSUME NEW c, NEW kind
        PROVE  <<c, kind>> \in Held <=> c \in DOMAIN heap /\ kind = heap[c]
    BY <1>1, HeldIsUsed
  <1>5. ASSUME NEW i \in 1 .. Len(threads_), NEW j \in 1 .. Len(threads_),
               threads_[i] = threads_[j]
        PROVE  i = j
    BY <1>1, <1>5 DEF HeapOwned
  <1>6. <<th, "thread">> \in Held
    BY <1>3, HeldBy
  <1>7. ASSUME NEW c, NEW kind
        PROVE  <<c, kind>> \in Held' <=> c \in DOMAIN heap' /\ kind = heap'[c]
    <2>1. CASE c = th
      <3>1. ~ \E i \in 1 .. Len(threads_') : c = threads_'[i]
        BY <1>3, <1>5, <2>1
      <3>2. kind # "thread" => <<c, kind>> \notin Held
        BY <1>4, <1>6, <2>1
      <3>3. <<c, kind>> \notin Held'
        <4>1. CASE kind = "thread"
          BY <1>1, <1>2, <3>1, <4>1, HeldNext
        <4>2. CASE kind # "thread"
          BY <1>1, <1>2, <3>2, <4>2, HeldBy, HeldNext
        <4> QED
          BY <4>1, <4>2
      <3> QED
        BY <1>1, <2>1, <3>3
    <2>2. CASE c # th
      <3>1. (\E i \in 1 .. Len(threads_') : c = threads_'[i])
              <=> \E i \in 1 .. Len(threads_) : c = threads_[i]
        <4>1. ASSUME NEW i \in 1 .. Len(threads_), c = threads_[i]
              PROVE  i - 1 \in 1 .. Len(threads_') /\ c = threads_'[i - 1]
          BY <1>3, <2>2, <4>1
        <4>2. ASSUME NEW i \in 1 .. Len(threads_')
              PROVE  i + 1 \in 1 .. Len(threads_) /\ threads_'[i] = threads_[i + 1]
          BY <1>3
        <4> QED
          BY <4>1, <4>2
      <3>2. <<c, kind>> \in Held' <=> <<c, kind>> \in Held
        BY <1>1, <1>2, <3>1, HeldBy, HeldNext
      <3> QED
        BY <1>1, <1>4, <2>2, <3>2
    <2> QED
      BY <2>1, <2>2
  <1>8. \A i, j \in 1 .. Len(threads_') : threads_'[i] = threads_'[j] => i = j
    BY <1>3, <1>5
  <1>9. \A i \in 1 .. Len(threads_') : threads_'[i] # pending'
    BY <1>1, <1>3 DEF HeapOwned
  <1> QED
    BY <1>7, <1>8, <1>9, OwnedNext

\* The array is freed when no thread is left.
LEMMA FreeArrayOwned ==
  ASSUME SessionInv, FreeArray
  PROVE  HeapOwned'
  <1> USE DEF SessionInv, MemoryTypeOK
  <1>1. /\ pc = "delete" /\ pc' = "free frontend" /\ pending = Null
        /\ array' = Null /\ drtm_' = drtm_ /\ pending' = pending
        /\ 1 .. Len(threads_) = {} /\ 1 .. Len(threads_') = {}
    <2>1. Len(threads_) = 0 /\ Len(threads_') = 0
      BY DEF FreeArray
    <2>2. 1 .. Len(threads_) = {} /\ 1 .. Len(threads_') = {}
      BY <2>1
    <2> QED
      BY <2>2 DEF FreeArray, OnePending
  <1>7. heap' = [x \in DOMAIN heap \ {array} |-> heap[x]]
    BY DEF FreeArray, Free
  <1>2. LiveObjects' = LiveObjects /\ "array" \notin LiveObjects
    BY <1>1 DEF LiveObjects
  <1>3. ASSUME NEW c, NEW kind
        PROVE  <<c, kind>> \in Held <=> c \in DOMAIN heap /\ kind = heap[c]
    BY <1>1, HeldIsUsed
  <1>4. ASSUME NEW c, NEW kind
        PROVE  <<c, kind>> \in Held' <=> c \in DOMAIN heap' /\ kind = heap'[c]
    <2>1. <<c, kind>> \in Held' <=> kind # "array" /\ <<c, kind>> \in Held
      <3>1. CASE kind = "array"
        BY <1>1, <1>2, <3>1, HeldNext
      <3>2. CASE kind # "array"
        BY <1>1, <1>2, <3>2, HeldBy, HeldNext
      <3> QED
        BY <3>1, <3>2
    <2>2. <<c, "array">> \in Held <=> array # Null /\ c = array
      BY <1>2, HeldBy
    <2>3. Null \notin DOMAIN heap
      BY SessionAssumption
    <2> QED
      BY <1>7, <1>3, <2>1, <2>2, <2>3
  <1>5. \A i, j \in 1 .. Len(threads_') : threads_'[i] = threads_'[j] => i = j
    BY <1>1
  <1>6. \A i \in 1 .. Len(threads_') : threads_'[i] # pending'
    BY <1>1
  <1> QED
    BY <1>4, <1>5, <1>6, OwnedNext

\* One of the three objects is freed, and no longer counts as live.
LEMMA FreeObjectOwned ==
  ASSUME SessionInv, pc # "crashed", NEW object \in LiveObjects,
         Free({drtm_[object]}), UNCHANGED <<drtm_, threads_, array, pending>>,
         LiveObjects' = LiveObjects \ {object}
  PROVE  HeapOwned'
  <1> USE DEF SessionInv, MemoryTypeOK
  <1>1. object \in Objects /\ "array" # object /\ "thread" # object
    BY LiveAreObjects DEF Objects
  <1>2. heap' = [x \in DOMAIN heap \ {drtm_[object]} |-> heap[x]]
    BY DEF Free
  <1>3. ASSUME NEW c, NEW kind
        PROVE  <<c, kind>> \in Held <=> c \in DOMAIN heap /\ kind = heap[c]
    BY HeldIsUsed
  <1>4. ASSUME NEW c, NEW kind
        PROVE  <<c, kind>> \in Held' <=> c \in DOMAIN heap' /\ kind = heap'[c]
    <2>1. <<c, kind>> \in Held' <=> kind # object /\ <<c, kind>> \in Held
      BY <1>1, HeldBy, HeldNext
    <2>2. <<c, object>> \in Held <=> drtm_[object] # Null /\ c = drtm_[object]
      BY <1>1, HeldBy
    <2>3. Null \notin DOMAIN heap
      BY SessionAssumption
    <2> QED
      BY <1>2, <1>3, <2>1, <2>2, <2>3
  <1> QED
    BY <1>4, OwnedNext DEF HeapOwned

---------------------------------------------------------------------------
(* The invariant.                                                          *)

LEMMA InitSession == SessionInit => SessionInv
  <1> SUFFICES ASSUME SessionInit
               PROVE  SessionInv
    OBVIOUS
  <1> USE DEF SessionInit
  <1>1. MemoryTypeOK
    BY DEF MemoryTypeOK, Phases, Objects
  <1>2. NoCollection /\ OnePending /\ RoomReserved /\ VectorFits
    BY DEF NoCollection, OnePending, RoomReserved, VectorFits
  <1>3. HeapOwned
    <2>1. LiveObjects = {} /\ DOMAIN heap = {} /\ 1 .. Len(threads_) = {}
      BY DEF LiveObjects
    <2>2. Held = {}
      BY <2>1 DEF Held
    <2> QED
      BY <2>1, <2>2 DEF HeapOwned
  <1> QED
    BY <1>1, <1>2, <1>3 DEF SessionInv

\* Steps that touch no memory.
LEMMA QuietSteps ==
  ASSUME BeginInit \/ AskForUpdate \/ BeginShutdown \/ ReplaceApplication
           \/ SymbolsLoaded \/ ReuseThread \/ WalkEnds \/ Crash
  PROVE  /\ UNCHANGED <<heap, drtm_, threads_, array, capacity, pending>>
         /\ \/ count_' = count_
            \/ count_' = 0
            \/ pc = "walk" /\ count_ < Len(threads_) /\ count_' = count_ + 1
         /\ \/ pc = "down" /\ pc' = "init allocator"
            \/ pc = "up" /\ pc' \in {"up", "walk", "delete"}
            \/ pc = "walk" /\ pc' \in {"up", "walk"}
            \/ pc # "crashed" /\ pc' = "crashed" /\ Crash
  <1>1. CASE BeginInit
    BY <1>1 DEF BeginInit, pluginVars
  <1>2. CASE AskForUpdate
    BY <1>2 DEF AskForUpdate, UpdateUnavailable, Update, pluginVars
  <1>3. CASE BeginShutdown
    BY <1>3 DEF BeginShutdown, pluginVars
  <1>4. CASE ReplaceApplication
    BY <1>4 DEF ReplaceApplication, pluginVars
  <1>5. CASE SymbolsLoaded
    BY <1>5 DEF SymbolsLoaded, pluginVars
  <1>6. CASE ReuseThread
    BY <1>6 DEF ReuseThread
  <1>7. CASE WalkEnds
    BY <1>7 DEF WalkEnds, pluginVars
  <1>8. CASE Crash
    BY <1>8 DEF Crash, pluginVars
  <1> QED
    BY <1>1, <1>2, <1>3, <1>4, <1>5, <1>6, <1>7, <1>8

\* The types, with what a step may do to the heap.
LEMMA NextMemoryType ==
  ASSUME SessionInv, SessionNext
  PROVE  MemoryTypeOK'
  <1> USE SessionAssumption
      DEF SessionInv, MemoryTypeOK, Phases, InInit, InShutdown, Available
  <1>0. /\ count_ \in Nat /\ capacity \in Nat /\ threads_ \in Seq(Block)
        /\ pending \in Block \cup {Null}
    OBVIOUS
  <1>1. CASE BeginInit \/ AskForUpdate \/ BeginShutdown \/ ReplaceApplication
               \/ SymbolsLoaded \/ ReuseThread \/ WalkEnds \/ Crash
    <2>1. UNCHANGED <<heap, drtm_, threads_, array, capacity, pending>>
      BY <1>1, QuietSteps
    <2>2. pc' \in Phases
      BY <1>1, QuietSteps
    <2>3. count_' = count_ \/ count_' = 0 \/ count_' = count_ + 1
      BY <1>1, QuietSteps
    <2>4. count_' \in Nat
      BY ONLY <1>0, <2>3
    <2> QED
      BY <2>1, <2>2, <2>4
  <1>2. CASE InitAllocator \/ InitBackend \/ InitFrontend \/ InitWithoutAllocator
    <2>1. /\ UNCHANGED <<threads_, array, capacity, count_, pending>>
          /\ pc' \in Phases
      BY <1>2 DEF InitAllocator, InitBackend, InitFrontend, InitWithoutAllocator,
         InitObject
    <2>2. \/ drtm_' = [drtm_ EXCEPT !["allocator"] = Null] /\ UNCHANGED heap
          \/ \E object \in Objects, b \in Block :
               /\ drtm_' = [drtm_ EXCEPT ![object] = b]
               /\ DOMAIN heap' = DOMAIN heap \cup {b}
      BY <1>2 DEF InitAllocator, InitBackend, InitFrontend, InitWithoutAllocator,
         InitObject, Allocate, Objects
    <2> QED
      BY <2>1, <2>2
  <1>3. CASE ConstructFrontend
    <2>1. DOMAIN heap' \subseteq Block /\ array' \in Block \cup {Null}
      BY <1>3 DEF ConstructFrontend, Allocate
    <2> QED
      BY <1>3, <2>1 DEF ConstructFrontend
  <1>4. CASE AllocateThread
    <2>1. DOMAIN heap' \subseteq Block
      BY <1>4 DEF AllocateThread, Allocate
    <2>2. threads_' \in Seq(Block) /\ pending' \in Block \cup {Null}
      <3>1. CASE \E th \in Block : threads_' = Append(threads_, th)
                                   /\ pending' = pending
        BY ONLY <1>0, <3>1, AppendFacts
      <3>2. CASE pending' \in Block /\ threads_' = threads_
        BY <3>2
      <3> QED
        BY <1>4, <3>1, <3>2 DEF AllocateThread, Push
    <2>3. UNCHANGED <<drtm_, array, capacity>>
      BY <1>4 DEF AllocateThread
    <2>4. count_' = count_ \/ count_' = count_ + 1
      BY <1>4 DEF AllocateThread, Push
    <2>5. count_' \in Nat
      BY ONLY <1>0, <2>4
    <2>6. pc' \in Phases
      BY <1>4 DEF AllocateThread, Push
    <2> QED
      BY <2>1, <2>2, <2>3, <2>5, <2>6
  <1>5. CASE Grow
    <2>1. pending \in Block
      BY <1>5 DEF Grow, OnePending
    <2> QED
      BY <1>5, <2>1 DEF Grow, Push
  <1>6. CASE DeleteThread \/ FreeArray
    <2>1. DOMAIN heap' \subseteq Block
      BY <1>6 DEF DeleteThread, FreeArray, Free
    <2>2. threads_' \in Seq(Block)
      <3>1. CASE threads_ # <<>> /\ threads_' = Tail(threads_)
        BY <3>1, TailFacts
      <3>2. CASE threads_' = threads_
        BY <3>2
      <3> QED
        BY <1>6, <3>1, <3>2 DEF DeleteThread, FreeArray
    <2> QED
      BY <1>6, <2>1, <2>2 DEF DeleteThread, FreeArray
  <1>7. CASE FreeFrontend \/ FreeBackend \/ FreeAllocator
    BY <1>7 DEF FreeFrontend, FreeBackend, FreeAllocator, FreeObject, Free
  <1> QED
    BY <1>1, <1>2, <1>3, <1>4, <1>5, <1>6, <1>7
       DEF SessionNext, CallStep, InitStep, UpdateStep, ShutdownStep

\* The phases, and the room in the array.
LEMMA NextPhases ==
  ASSUME SessionInv, SessionNext
  PROVE  NoCollection' /\ OnePending' /\ RoomReserved' /\ VectorFits'
  <1> USE SessionAssumption DEF SessionInv, MemoryTypeOK, NoCollection, OnePending,
          RoomReserved, VectorFits, InInit, InShutdown, Available
  <1>0. count_ \in Nat /\ capacity \in Nat /\ threads_ \in Seq(Block)
    OBVIOUS
  <1>1. CASE BeginInit \/ AskForUpdate \/ BeginShutdown \/ ReplaceApplication
               \/ SymbolsLoaded \/ ReuseThread \/ WalkEnds \/ Crash
    <2>1. UNCHANGED <<threads_, array, capacity, pending>>
      BY <1>1, QuietSteps
    <2>2. \/ pc = "down" /\ pc' = "init allocator"
          \/ pc = "up" /\ pc' \in {"up", "walk", "delete"}
          \/ pc = "walk" /\ pc' \in {"up", "walk"}
          \/ pc' = "crashed"
      BY <1>1, QuietSteps
    <2>3. NoCollection' /\ OnePending' /\ RoomReserved'
      BY <2>1, <2>2
    <2>4. count_ <= Len(threads_) => count_' <= Len(threads_)
      <3>1. \/ count_' = count_ \/ count_' = 0
            \/ count_ < Len(threads_) /\ count_' = count_ + 1
        BY <1>1, QuietSteps
      <3> QED
        BY ONLY <1>0, <3>1
    <2>5. VectorFits'
      BY <2>1, <2>2, <2>4
    <2> QED
      BY <2>3, <2>5
  <1>2. CASE InitAllocator \/ InitBackend \/ InitFrontend \/ InitWithoutAllocator
    BY <1>2 DEF InitAllocator, InitBackend, InitFrontend, InitWithoutAllocator,
       InitObject
  <1>3. CASE ConstructFrontend
    BY <1>3 DEF ConstructFrontend
  <1>4. CASE AllocateThread
    <2>1. PICK th \in Block :
            \/ /\ Len(threads_) < capacity
               /\ threads_' = Append(threads_, th) /\ count_' = count_ + 1
               /\ pc' = "walk" /\ pending' = pending
            \/ /\ Len(threads_) = capacity /\ th = pending' /\ pc' = "grow"
               /\ threads_' = threads_ /\ count_' = count_
      BY <1>4 DEF AllocateThread, Push
    <2>2. /\ pc = "walk" /\ count_ = Len(threads_) /\ capacity' = capacity
          /\ capacity > 0 /\ pending = Null /\ th # Null
      BY <1>4 DEF AllocateThread
    <2>3. CASE threads_' = Append(threads_, th)
      <3>1. Len(threads_') = Len(threads_) + 1
        BY <2>3, AppendFacts
      <3>2. /\ pc' = "walk" /\ pending' = Null /\ count_' = count_ + 1
            /\ Len(threads_) < capacity
        BY <2>1, <2>2, <3>1
      <3>3. count_' <= Len(threads_') /\ Len(threads_') <= capacity'
        BY ONLY <1>0, <2>2, <3>1, <3>2
      <3>4. capacity' > 0
        BY <2>2
      <3> QED
        BY <3>2, <3>3, <3>4
    <2>4. CASE pc' = "grow"
      BY <2>1, <2>2, <2>4
    <2> QED
      BY <2>1, <2>3, <2>4
  <1>5. CASE Grow
    <2>1. /\ pc = "grow" /\ pc' = "walk" /\ pending' = Null
          /\ Len(threads_') = Len(threads_) + 1 /\ count_' = count_ + 1
          /\ capacity' = 2 * capacity
      BY <1>5 DEF Grow, Push
    <2> QED
      BY <2>1
  <1>6. CASE DeleteThread \/ FreeArray
    BY <1>6 DEF DeleteThread, FreeArray
  <1>7. CASE FreeFrontend \/ FreeBackend \/ FreeAllocator
    BY <1>7 DEF FreeFrontend, FreeBackend, FreeAllocator, FreeObject
  <1> QED
    BY <1>1, <1>2, <1>3, <1>4, <1>5, <1>6, <1>7
       DEF SessionNext, CallStep, InitStep, UpdateStep, ShutdownStep

\* The owners.
LEMMA NextOwned ==
  ASSUME SessionInv, SessionNext
  PROVE  HeapOwned'
  <1>1. CASE Crash
    BY <1>1 DEF Crash, HeapOwned
  <1>2. CASE BeginInit \/ AskForUpdate \/ BeginShutdown \/ ReplaceApplication
               \/ SymbolsLoaded \/ ReuseThread \/ WalkEnds
    <2>1. CASE Crash
      BY <2>1, <1>1
    <2>2. CASE ~Crash
      <3>1. /\ pc # "crashed" /\ UNCHANGED <<heap, drtm_, threads_, array, pending>>
            /\ \/ pc = "down" /\ pc' = "init allocator"
               \/ pc \in {"up", "walk"} /\ pc' \in {"up", "walk", "delete"}
        BY <1>2, <2>2, QuietSteps
      <3>2. LiveObjects' = LiveObjects
        BY <3>1 DEF LiveObjects
      <3> QED
        BY <3>1, <3>2, SameMemory DEF SessionInv
    <2> QED
      BY <2>1, <2>2
  <1>3. CASE InitAllocator \/ InitBackend \/ InitFrontend
    <2>1. ASSUME NEW object \in Objects, pc # "crashed",
                 \E b \in Available : Allocate(b, object)
                                      /\ drtm_' = [drtm_ EXCEPT ![object] = b],
                 UNCHANGED <<threads_, array, pending>>,
                 object \notin LiveObjects,
                 LiveObjects' = LiveObjects \cup {object}
          PROVE  HeapOwned'
      BY <2>1, InitObjectOwned
    <2>2. CASE InitAllocator
      BY <2>1, <2>2 DEF InitAllocator, InitObject, LiveObjects, Objects
    <2>3. CASE InitBackend
      BY <2>1, <2>3 DEF InitBackend, InitObject, LiveObjects, Objects
    <2>4. CASE InitFrontend
      BY <2>1, <2>4 DEF InitFrontend, InitObject, LiveObjects, Objects
    <2> QED
      BY <1>3, <2>2, <2>3, <2>4
  <1>4. CASE InitWithoutAllocator
    BY <1>4, InitWithoutOwned
  <1>5. CASE \/ ConstructFrontend \/ AllocateThread \/ Grow
             \/ DeleteThread \/ FreeArray
    BY <1>5, ConstructOwned, AllocateThreadOwned, GrowOwned, DeleteThreadOwned,
       FreeArrayOwned
  <1>6. CASE FreeFrontend \/ FreeBackend \/ FreeAllocator
    <2>1. ASSUME NEW object \in LiveObjects, pc # "crashed",
                 Free({drtm_[object]}),
                 UNCHANGED <<drtm_, threads_, array, pending>>,
                 LiveObjects' = LiveObjects \ {object}
          PROVE  HeapOwned'
      BY <2>1, FreeObjectOwned
    <2>2. CASE FreeFrontend
      BY <2>1, <2>2 DEF FreeFrontend, FreeObject, LiveObjects
    <2>3. CASE FreeBackend
      BY <2>1, <2>3 DEF FreeBackend, FreeObject, LiveObjects
    <2>4. CASE FreeAllocator
      BY <2>1, <2>4 DEF FreeAllocator, FreeObject, LiveObjects
    <2> QED
      BY <1>6, <2>2, <2>3, <2>4
  <1> QED
    BY <1>1, <1>2, <1>3, <1>4, <1>5, <1>6
       DEF SessionNext, CallStep, InitStep, UpdateStep, ShutdownStep

LEMMA NextSession ==
  ASSUME SessionInv, [SessionNext]_sessionVars
  PROVE  SessionInv'
  <1>1. CASE SessionNext
    BY <1>1, NextMemoryType, NextPhases, NextOwned DEF SessionInv
  <1>2. CASE UNCHANGED sessionVars
    <2>1. UNCHANGED <<pc, heap, drtm_, threads_, array, capacity, count_, pending>>
      BY <1>2 DEF sessionVars, pluginVars
    <2>2. LiveObjects' = LiveObjects /\ Held' = Held
      BY <2>1 DEF LiveObjects, Held
    <2>3. HeapOwned'
      BY <2>1, <2>2 DEF HeapOwned, SessionInv
    <2> QED
      BY <2>1, <2>3 DEF SessionInv, MemoryTypeOK, NoCollection, OnePending,
         RoomReserved, VectorFits
  <1> QED
    BY <1>1, <1>2

\* In every reachable state of any number of sessions the memory is typed,
\* owned, and in the phase that pc says.
THEOREM SessionInvariant == SessionSpec => []SessionInv
  BY InitSession, NextSession, PTL DEF SessionSpec

\* No block leaks, is freed twice, or is used after it was freed, whichever
\* calls of yapp_malloc() fail and however the lists grow and shrink.
THEOREM MemoryIsOwned == SessionSpec => []HeapOwned
  <1>1. SessionInv => HeapOwned
    BY DEF SessionInv
  <1> QED
    BY <1>1, SessionInvariant, PTL

(***************************************************************************)
(* The safety behind ShutdownFrees.  A shutdown has one step for each      *)
(* object in the vector, listed or stale, one for the array and one for    *)
(* each object of the C API; a step of it is all that can happen, and none *)
(* of them needs memory.                                                   *)
(***************************************************************************)
ShutdownLeft ==
  CASE pc = "delete" -> Len(threads_) + 4
    [] pc = "free frontend" -> 3
    [] pc = "free backend" -> 2
    [] pc = "free allocator" -> 1
    [] OTHER -> 0

\* Nothing interrupts drtm_shutdown(), and every step of it brings it closer
\* to its end.
ShutdownGoesOn ==
  pc \in InShutdown => ShutdownStep /\ ShutdownLeft' < ShutdownLeft

ShutdownCounts == [][ShutdownGoesOn]_sessionVars

\* Between two sessions no memory is in use.
NothingKept == pc = "down" => DOMAIN heap = {}

LEMMA ShutdownShortens ==
  ASSUME SessionInv, SessionNext, pc \in InShutdown
  PROVE  ShutdownStep /\ ShutdownLeft' < ShutdownLeft
  <1>1. ShutdownStep
    BY DEF InShutdown, SessionNext, CallStep, InitStep, UpdateStep, BeginInit,
           BeginShutdown, Crash, InitAllocator, InitBackend, InitFrontend,
           InitObject, InitWithoutAllocator, ConstructFrontend, ReuseThread,
           AllocateThread, Grow, WalkEnds, AskForUpdate, UpdateUnavailable, Update,
           ReplaceApplication, SymbolsLoaded
  <1>2. threads_ \in Seq(Block) /\ Len(threads_) \in Nat
    BY DEF SessionInv, MemoryTypeOK
  <1>3. ShutdownLeft' < ShutdownLeft
    <2>1. CASE DeleteThread
      <3>1. pc = "delete" /\ pc' = "delete" /\ threads_' = Tail(threads_)
        BY <2>1 DEF DeleteThread
      <3>2. Len(threads_') = Len(threads_) - 1
        BY <1>2, <2>1, <3>1 DEF DeleteThread
      <3> QED
        BY <1>2, <3>1, <3>2 DEF ShutdownLeft
    <2>2. CASE FreeArray
      <3>1. pc = "delete" /\ pc' = "free frontend"
        BY <2>2 DEF FreeArray
      <3>2. ShutdownLeft = Len(threads_) + 4
        BY <3>1 DEF ShutdownLeft
      <3>3. ShutdownLeft' = 3
        BY <3>1 DEF ShutdownLeft
      <3> QED
        BY <1>2, <3>2, <3>3
    <2>3. CASE FreeFrontend
      <3>1. pc = "free frontend" /\ pc' = "free backend"
        BY <2>3 DEF FreeFrontend, FreeObject
      <3>2. ShutdownLeft = 3
        BY <3>1 DEF ShutdownLeft
      <3>3. ShutdownLeft' = 2
        BY <3>1 DEF ShutdownLeft
      <3> QED
        BY <3>2, <3>3
    <2>4. CASE FreeBackend
      <3>1. pc = "free backend" /\ pc' = "free allocator"
        BY <2>4 DEF FreeBackend, FreeObject
      <3>2. ShutdownLeft = 2
        BY <3>1 DEF ShutdownLeft
      <3>3. ShutdownLeft' = 1
        BY <3>1 DEF ShutdownLeft
      <3> QED
        BY <3>2, <3>3
    <2>5. CASE FreeAllocator
      <3>1. pc = "free allocator" /\ pc' = "down"
        BY <2>5 DEF FreeAllocator, FreeObject
      <3>2. ShutdownLeft = 1
        BY <3>1 DEF ShutdownLeft
      <3>3. ShutdownLeft' = 0
        BY <3>1 DEF ShutdownLeft
      <3> QED
        BY <3>2, <3>3
    <2> QED
      BY <1>1, <2>1, <2>2, <2>3, <2>4, <2>5 DEF ShutdownStep
  <1> QED
    BY <1>1, <1>3

\* For vectors of any length and any number of sessions: a shutdown takes as
\* many steps as there are objects to free, and leaves nothing to the next
\* session.
THEOREM ShutdownReturnsAll == SessionSpec => ShutdownCounts /\ []NothingKept
  <1>1. SessionInv /\ [SessionNext]_sessionVars => [ShutdownGoesOn]_sessionVars
    BY ShutdownShortens DEF ShutdownGoesOn
  <1>2. SessionInv => NothingKept
    <2> SUFFICES ASSUME SessionInv, pc = "down", NEW b \in DOMAIN heap
                 PROVE  FALSE
      BY DEF NothingKept
    <2>1. <<b, heap[b]>> \in Held
      BY HeldIsUsed DEF SessionInv
    <2>2. threads_ = <<>> /\ array = Null /\ pending = Null /\ LiveObjects = {}
      BY DEF SessionInv, NoCollection, OnePending, LiveObjects
    <2> QED
      BY <2>1, <2>2, HeldBy
  <1> QED
    BY <1>1, <1>2, SessionInvariant, PTL DEF SessionSpec, ShutdownCounts

---------------------------------------------------------------------------
(***************************************************************************)
(* The latch of the metadata.  In a session the target has been examined   *)
(* once or not at all, and was_parsed tells which: so what is available    *)
(* was examined in this session, and replaced tells of it whether the      *)
(* target still has it.                                                    *)
(***************************************************************************)
LatchInv ==
  /\ was_parsed \in BOOLEAN /\ is_available \in BOOLEAN
  /\ was_parsed => examined = 1
  /\ ~was_parsed => examined = 0 /\ ~is_available
  /\ AvailableIsSupported

LEMMA InitLatch == SessionInit => LatchInv
  BY DEF SessionInit, MetadataInit, LatchInv, AvailableIsSupported

\* parse(), with either answer.
LEMMA ParseLatch ==
  ASSUME LatchInv, NEW result \in BOOLEAN, Parse(result), replaced' = replaced
  PROVE  LatchInv'
  <1>1. CASE ParseAgain(result) \/ ParseTooEarly(result)
    BY <1>1 DEF ParseAgain, ParseTooEarly, metadataVars, LatchInv,
       AvailableIsSupported, Supported
  <1>2. CASE ParseFirst(result)
    <2>1. /\ ~was_parsed /\ was_parsed' = TRUE /\ is_available' = result
          /\ examined' = examined + 1 /\ header' = header
      BY <1>2 DEF ParseFirst, Examine
    <2>2. HeaderFaults \cap {"magic", "version"} = {} /\ result => Supported
      <3> SUFFICES ASSUME HeaderFaults \cap {"magic", "version"} = {}, result
                   PROVE  Supported
        OBVIOUS
      <3>1. "magic" \notin HeaderFaults /\ "version" \notin HeaderFaults
        OBVIOUS
      <3>2. MagicReads = {header.magic}
        BY <3>1 DEF MagicReads
      <3>3. VersionReads = {[v |-> header.v, major |-> header.major]}
        BY <3>1 DEF VersionReads
      <3>4. PICK magic \in MagicReads, version \in VersionReads :
              Accepts(magic, version)
        BY <1>2 DEF ParseFirst, Examine
      <3>5. magic = header.magic
        BY <3>2
      <3>6. version = [v |-> header.v, major |-> header.major]
        BY <3>3
      <3>7. version.v = header.v /\ version.major = header.major
        BY <3>6
      <3> QED
        BY <3>4, <3>5, <3>7 DEF Accepts, Supported
    <2>3. AvailableIsSupported'
      BY <2>1, <2>2 DEF AvailableIsSupported, Supported
    <2> QED
      BY <2>1, <2>3 DEF LatchInv
  <1> QED
    BY <1>1, <1>2 DEF Parse

LEMMA NextLatch ==
  ASSUME LatchInv, [SessionNext]_sessionVars
  PROVE  LatchInv'
  <1>1. CASE AskForUpdate
    <2>1. CASE UpdateUnavailable
      BY <2>1, ParseLatch DEF UpdateUnavailable
    <2>2. CASE Update
      BY <2>2, ParseLatch DEF Update
    <2> QED
      BY <1>1, <2>1, <2>2 DEF AskForUpdate
  <1>2. CASE ConstructFrontend
    BY <1>2 DEF ConstructFrontend, LatchInv, AvailableIsSupported
  <1>3. CASE ReplaceApplication
    BY <1>3 DEF ReplaceApplication, LatchInv, AvailableIsSupported
  <1>4. CASE SymbolsLoaded
    BY <1>4 DEF SymbolsLoaded, ResolveSymbol, LatchInv, AvailableIsSupported,
       Supported
  <1>5. CASE UNCHANGED <<metadataVars, replaced>>
    BY <1>5 DEF metadataVars, LatchInv, AvailableIsSupported, Supported
  <1>6. CASE SessionNext
    BY <1>1, <1>2, <1>3, <1>4, <1>5, <1>6
       DEF SessionNext, CallStep, InitStep, UpdateStep, ShutdownStep, BeginInit,
       BeginShutdown, Crash, InitAllocator, InitBackend, InitFrontend, InitObject,
       InitWithoutAllocator, ReuseThread, AllocateThread, Grow, WalkEnds,
       DeleteThread, FreeArray, FreeFrontend, FreeBackend, FreeAllocator, FreeObject
  <1> QED
    BY <1>5, <1>6 DEF sessionVars

\* In every reachable state the latch says how often the target was examined.
THEOREM LatchInvariant == SessionSpec => []LatchInv
  BY InitLatch, NextLatch, PTL DEF SessionSpec

\* A session never examines the target twice, whatever was read the first time
\* and however often it asks.
THEOREM NeverExaminedTwice == SessionSpec => []ExaminedOnce
  <1>1. LatchInv => ExaminedOnce
    BY DEF LatchInv, ExaminedOnce
  <1> QED
    BY <1>1, LatchInvariant, PTL

\* What is available was checked in this session: an earlier session with
\* another application leaves nothing that is believed.
THEOREM OnlySupportedBelieved == SessionSpec => []AvailableIsSupported
  <1>1. LatchInv => AvailableIsSupported
    BY DEF LatchInv
  <1> QED
    BY <1>1, LatchInvariant, PTL

\* parse() leaves the structure's members well formed, whatever it reads.
LEMMA ParseMetadataType ==
  ASSUME MetadataTypeOK, NEW result \in BOOLEAN, Parse(result)
  PROVE  MetadataTypeOK'
  <1>1. CASE ParseAgain(result) \/ ParseTooEarly(result)
    BY <1>1 DEF ParseAgain, ParseTooEarly, metadataVars, MetadataTypeOK
  <1>2. CASE ParseFirst(result)
    <2>1. FieldsRead \subseteq 0 .. FieldCount
      BY DEF FieldsRead, FieldCount
    <2>2. loaded' \in 0 .. FieldCount
      <3>1. PICK n \in FieldsRead : loaded' = IF result THEN n ELSE 0
        BY <1>2 DEF ParseFirst, Examine
      <3> QED
        BY <3>1, <2>1 DEF FieldCount
    <2>3. /\ was_parsed' = TRUE /\ is_available' = result
          /\ examined' = examined + 1 /\ header' = header /\ resolved' = resolved
      BY <1>2 DEF ParseFirst, Examine
    <2> QED
      BY <2>2, <2>3 DEF MetadataTypeOK
  <1> QED
    BY <1>1, <1>2 DEF Parse

\* Of the eleven fields no more are taken over than the structure has, however
\* often the application is replaced and whichever reads fail.
THEOREM MetadataTypeCorrect == SessionSpec => []MetadataTypeOK
  <1>0. 0 \in Nat /\ 0 \in 0 .. FieldCount
    BY DEF FieldCount
  <1>1. SessionInit => MetadataTypeOK
    BY <1>0 DEF SessionInit, MetadataInit, MetadataTypeOK
  <1>2. ASSUME MetadataTypeOK, [SessionNext]_sessionVars
        PROVE  MetadataTypeOK'
    <2>1. CASE AskForUpdate
      BY <1>2, <2>1, ParseMetadataType DEF AskForUpdate, UpdateUnavailable, Update
    <2>2. CASE ConstructFrontend
      BY <1>0, <1>2, <2>2 DEF ConstructFrontend, MetadataTypeOK
    <2>3. CASE ReplaceApplication
      BY <1>2, <2>3 DEF ReplaceApplication, MetadataTypeOK
    <2>4. CASE SymbolsLoaded
      BY <1>2, <2>4 DEF SymbolsLoaded, ResolveSymbol, MetadataTypeOK
    <2>5. CASE UNCHANGED metadataVars
      BY <1>2, <2>5 DEF metadataVars, MetadataTypeOK
    <2>6. CASE SessionNext
      BY <2>1, <2>2, <2>3, <2>4, <2>5, <2>6
         DEF SessionNext, CallStep, InitStep, UpdateStep, ShutdownStep, BeginInit,
         BeginShutdown, Crash, InitAllocator, InitBackend, InitFrontend, InitObject,
         InitWithoutAllocator, ReuseThread, AllocateThread, Grow, WalkEnds,
         DeleteThread, FreeArray, FreeFrontend, FreeBackend, FreeAllocator,
         FreeObject
    <2> QED
      BY <1>2, <2>5, <2>6 DEF sessionVars
  <1> QED
    BY <1>1, <1>2, PTL DEF SessionSpec
=============================================================================
