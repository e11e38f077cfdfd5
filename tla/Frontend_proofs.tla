--------------------------- MODULE Frontend_proofs ---------------------------
(***************************************************************************)
(* What a debugger is told by the front end, for any forests, stacks and   *)
(* failing reads, and any sequence of its calls.  The invariants of the    *)
(* collection carry over: updates are walks, queries change contexts only. *)
(***************************************************************************)
EXTENDS Frontend, RunTimeData_proofs

\* The host stopped in an assertion.
Aborted == {"no such thread", "context too large"}

(***************************************************************************)
(* The collection while no scheduler is seen to run.  SnapshotComplete and *)
(* CurrentCorrect do not hold then: nothing is listed of a target that may *)
(* have threads.                                                           *)
(***************************************************************************)
EmptyCollection ==
  /\ TypeOK
  /\ pc = "idle" /\ frames = <<>> /\ count = 0 /\ current = 0
  /\ IdsOfAddresses
  /\ NoLinkFaults
  /\ PoolBounded

CollectionPart ==
  /\ ~is_scheduler_started_ => EmptyCollection
  /\ is_scheduler_started_ /\ pc \notin Aborted => IInv /\ CollectionInv

\* What a context cached in a listed object may be while the target has not
\* run: what is on the stack of its thread, or zeros when that was not read.
CachesFresh ==
  fresh => \A i \in 1 .. count :
             \/ vector[i].context \in {NoContext, stack[vector[i].body.sp]}
             \/ "context" \in faults /\ vector[i].context = Zeros

\* The current thread is the first object with the address that the target
\* has for it, listed or not.
CurrentRead ==
  pc = "idle" /\ fresh /\ is_scheduler_started_ /\ "current" \notin faults =>
    current = ThreadByAddr(currentWord)

\* While links can be read also the stale objects are of threads.
ObjectsAreThreads ==
  ~LinkFaults => \A i \in 1 .. Len(vector) : vector[i].addr \in Thread

\* There is no answer to a query while an update is under way.
NoAnswerYet == pc \in {"walk", "current", "crashed"} => reply = NoReply

\* An update succeeds only when the metadata is available, for good.
SucceedsWhenAvailable == updateRet = 0 => was_parsed /\ is_available

FrontendInv ==
  /\ FrontendTypeOK
  /\ CollectionPart
  /\ CachesFresh
  /\ CurrentRead
  /\ ObjectsAreThreads
  /\ NoAnswerYet
  /\ SucceedsWhenAvailable
  /\ RegistersFresh
  /\ NothingBeforeStart

---------------------------------------------------------------------------
(* What single steps do.                                                   *)

\* A parse that succeeds has found the metadata, and one that found it once
\* succeeds ever after.
LEMMA ParseFacts ==
  ASSUME MetadataTypeOK, NEW result \in BOOLEAN, Parse(result)
  PROVE  /\ MetadataTypeOK'
         /\ result => was_parsed' /\ is_available'
         /\ was_parsed /\ is_available => result
  <1>1. CASE ParseAgain(result)
    BY <1>1 DEF ParseAgain, metadataVars, MetadataTypeOK
  <1>2. CASE ParseTooEarly(result)
    BY <1>2 DEF ParseTooEarly, metadataVars, MetadataTypeOK
  <1>3. CASE ParseFirst(result)
    <2>1. /\ ~was_parsed /\ was_parsed' = TRUE
          /\ examined' = examined + 1
          /\ is_available' = result
          /\ resolved' = resolved /\ header' = header
      BY <1>3 DEF ParseFirst, Examine
    <2>2. PICK n \in FieldsRead : loaded' = IF result THEN n ELSE 0
      BY <1>3 DEF ParseFirst, Examine
    <2>3. loaded' \in 0 .. FieldCount
      BY <2>2 DEF FieldsRead, FieldCount
    <2> QED
      BY <2>1, <2>3 DEF MetadataTypeOK
  <1> QED
    BY <1>1, <1>2, <1>3 DEF Parse

\* A walk may begin in any state in which the types are right: it forgets
\* what the collection listed.
LEMMA BeginWalk ==
  ASSUME TypeOK, IdsOfAddresses, NoLinkFaults, PoolBounded, UpdateThreads
  PROVE  IInv' /\ CollectionInv'
  <1>1. TypeOK' /\ NoLinkFaults'
    BY NextType, LinksStayIntact DEF Next
  <1>2. /\ vector' = vector /\ count' = 0 /\ current' = 0 /\ pc' = "walk"
        /\ "current" \notin faults'
    BY DEF UpdateThreads, Clear, Failed
  <1>3. LinksIntact' => WalkInv'
    BY UpdateThreadsWalk
  <1>4. IInv'
    BY <1>1, <1>2, <1>3 DEF IInv, ListedOnce, SnapshotComplete, UpToDate
  <1> QED
    BY <1>1, <1>2, <1>4
    DEF CollectionInv, IdsOfAddresses, ListedAreThreads, ListedAddrs,
        NoneCurrentYet, NoOldCurrent, CurrentCorrect, UpToDate, NoForeignData,
        PoolBounded

\* Caching a context changes nothing else of the objects.
LEMMA SetContextFacts ==
  ASSUME ThreadsTypeOK, NEW p \in 1 .. Len(vector),
         NEW context \in Context \cup {NoContext}, SetContext(p, context)
  PROVE  /\ ThreadsTypeOK'
         /\ Len(vector') = Len(vector)
         /\ count' = count /\ current' = current
         /\ \A i \in 1 .. Len(vector) :
              /\ vector'[i].addr = vector[i].addr
              /\ vector'[i].id = vector[i].id
              /\ vector'[i].body = vector[i].body
              /\ vector'[i].context = IF i = p THEN context
                                      ELSE vector[i].context
  <1>1. /\ vector' = [vector EXCEPT ![p] = [vector[p] EXCEPT !.context = context]]
        /\ count' = count /\ current' = current
    BY Zenon DEF SetContext
  <1>2. vector[p] \in ThreadObject
    BY DEF ThreadsTypeOK
  <1> DEFINE object == [vector[p] EXCEPT !.context = context]
  <1>3. /\ object \in ThreadObject
        /\ object.addr = vector[p].addr /\ object.id = vector[p].id
        /\ object.body = vector[p].body /\ object.context = context
    BY <1>2 DEF ThreadObject
  <1> HIDE DEF object
  <1>4. vector' = [vector EXCEPT ![p] = object]
    BY <1>1 DEF object
  <1>5. ThreadsTypeOK' /\ Len(vector') = Len(vector)
    BY <1>1, <1>3, <1>4 DEF ThreadsTypeOK
  <1>6. \A i \in 1 .. Len(vector) :
          vector'[i] = IF i = p THEN object ELSE vector[i]
    BY <1>4 DEF ThreadsTypeOK
  <1> QED
    BY <1>1, <1>3, <1>5, <1>6
---------------------------------------------------------------------------
(* The collection.                                                         *)

\* What is known of the collection between two calls.
LEMMA AtRest ==
  ASSUME FrontendInv, pc = "idle"
  PROVE  /\ TypeOK /\ IdsOfAddresses /\ NoLinkFaults /\ PoolBounded
         /\ is_scheduler_started_ => IInv /\ CollectionInv
         /\ ~is_scheduler_started_ => EmptyCollection
  <1>1. CASE is_scheduler_started_
    BY <1>1 DEF FrontendInv, CollectionPart, Aborted, IInv, CollectionInv
  <1>2. CASE ~is_scheduler_started_
    BY <1>2 DEF FrontendInv, CollectionPart, EmptyCollection
  <1> QED
    BY <1>1, <1>2

\* A step that leaves the collection, the stacks and the flag alone.
LEMMA SameCollection ==
  ASSUME FrontendInv, UNCHANGED <<vars, stack, is_scheduler_started_>>
  PROVE  CollectionPart' /\ CachesFresh' /\ CurrentRead' /\ ObjectsAreThreads'
  <1>1. /\ vector' = vector /\ count' = count /\ current' = current
        /\ pc' = pc /\ frames' = frames /\ faults' = faults /\ fresh' = fresh
        /\ forest' = forest /\ tcb' = tcb /\ currentWord' = currentWord
        /\ stack' = stack /\ is_scheduler_started_' = is_scheduler_started_
    BY DEF vars, targetVars, threadsVars, walkVars
  <1>2. IInv /\ CollectionInv => IInv' /\ CollectionInv'
    BY NextIInv, NextCollection
  <1>3. EmptyCollection => EmptyCollection'
    <2>1. TypeOK => TypeOK'
      BY NextType
    <2> QED
      BY <1>1, <2>1 DEF EmptyCollection, IdsOfAddresses, NoLinkFaults,
                        LinksIntact, PoolBounded
  <1>4. CollectionPart'
    BY <1>1, <1>2, <1>3 DEF FrontendInv, CollectionPart
  <1>5. CachesFresh' /\ ObjectsAreThreads'
    BY <1>1 DEF FrontendInv, CachesFresh, ObjectsAreThreads
  <1>6. CurrentRead'
    BY <1>1 DEF FrontendInv, CurrentRead, ThreadByAddr
  <1> QED
    BY <1>4, <1>5, <1>6

\* The target runs between two calls: nothing is fresh any more.
LEMMA TargetRunsCollection ==
  ASSUME FrontendInv, TargetRunsAndHalts
  PROVE  CollectionPart' /\ CachesFresh' /\ CurrentRead' /\ ObjectsAreThreads'
  <1>1. /\ TargetRuns /\ pc = "idle" /\ pc' = "idle" /\ fresh' = FALSE
        /\ vector' = vector /\ count' = count /\ current' = current
        /\ frames' = frames /\ faults' = faults
        /\ is_scheduler_started_' = is_scheduler_started_
    BY DEF TargetRunsAndHalts, TargetRuns, threadsVars
  <1>2. IInv /\ CollectionInv => IInv' /\ CollectionInv'
    BY <1>1, NextIInv, NextCollection DEF Next
  <1>3. EmptyCollection => EmptyCollection'
    <2>1. TypeOK => TypeOK'
      BY <1>1, NextType DEF Next
    <2> QED
      BY <1>1, <2>1 DEF EmptyCollection, IdsOfAddresses, NoLinkFaults,
                        LinksIntact, PoolBounded
  <1>4. CollectionPart'
    BY <1>1, <1>2, <1>3, AtRest DEF CollectionPart
  <1>5. CachesFresh' /\ CurrentRead'
    BY <1>1 DEF CachesFresh, CurrentRead
  <1>6. ObjectsAreThreads'
    BY <1>1 DEF FrontendInv, ObjectsAreThreads
  <1> QED
    BY <1>4, <1>5, <1>6

\* No scheduler is seen to run: the collection is empty.
LEMMA NotStartedCollection ==
  ASSUME FrontendInv, UpdateNotStarted
  PROVE  /\ CollectionPart' /\ CachesFresh' /\ CurrentRead' /\ ObjectsAreThreads'
         /\ count' = 0 /\ current' = 0
  <1>1. /\ pc = "idle" /\ pc' = "idle" /\ frames' = frames
        /\ vector' = vector /\ count' = 0 /\ current' = 0
        /\ forest' = forest /\ tcb' = tcb /\ currentWord' = currentWord
        /\ faults' \subseteq {"started"} /\ fresh' = TRUE
        /\ ~is_scheduler_started_'
    BY DEF UpdateNotStarted, Clear, targetVars
  <1>2. TypeOK /\ IdsOfAddresses /\ PoolBounded /\ frames = <<>>
    BY <1>1, AtRest DEF EmptyCollection, IInv
  <1>3. TypeOK'
    <2>1. ThreadsTypeOK'
      BY <1>2, ClearProperties DEF UpdateNotStarted, TypeOK
    <2>2. faults' \subseteq Faults
      BY <1>1 DEF Faults
    <2> QED
      BY <1>1, <1>2, <2>1, <2>2 DEF TypeOK
  <1>4. EmptyCollection'
    BY <1>1, <1>2, <1>3 DEF EmptyCollection, IdsOfAddresses, NoLinkFaults,
                            LinksIntact, PoolBounded
  <1>5. CollectionPart'
    BY <1>1, <1>4 DEF CollectionPart
  <1>6. CachesFresh' /\ CurrentRead'
    BY <1>1 DEF CachesFresh, CurrentRead
  <1>7. ObjectsAreThreads'
    BY <1>1 DEF FrontendInv, ObjectsAreThreads
  <1> QED
    BY <1>1, <1>5, <1>6, <1>7

\* The walk begins.
LEMMA StartedCollection ==
  ASSUME FrontendInv, UpdateStarted
  PROVE  CollectionPart' /\ CachesFresh' /\ CurrentRead' /\ ObjectsAreThreads'
  <1>1. /\ UpdateThreads /\ pc = "idle" /\ pc' = "walk"
        /\ vector' = vector /\ count' = 0 /\ is_scheduler_started_'
    BY DEF UpdateStarted, UpdateThreads, Clear
  <1>2. IInv' /\ CollectionInv'
    BY <1>1, AtRest, BeginWalk
  <1>3. CollectionPart'
    BY <1>1, <1>2 DEF CollectionPart
  <1>4. CachesFresh' /\ CurrentRead'
    BY <1>1 DEF CachesFresh, CurrentRead
  <1>5. ObjectsAreThreads'
    BY <1>1 DEF FrontendInv, ObjectsAreThreads
  <1> QED
    BY <1>3, <1>4, <1>5
\* The object that a turn of the loop adds has no context yet.
LEMMA NewHasNoContext ==
  ASSUME TypeOK, Visit
  PROVE  vector'[count + 1].context = NoContext
  <1> DEFINE ta == ThreadOf(Top.it)
             th == WithAddr(NewObject, ta)
  <1>1. ta \in Addr
    BY TopType, ThreadOfInAddr DEF Visit, Frame, TypeOK
  <1>2. PICK m \in BodyReads(th, ta) : NewThread([th EXCEPT !.body = m.body])
    BY DEF Visit
  <1>3. th \in ThreadObject /\ th.context = NoContext
    BY <1>1, NewObjectType, WithAddrType
    DEF WithAddr, ClearedThread, ThreadObject
  <1> DEFINE object == [th EXCEPT !.body = m.body]
  <1>4. object \in ThreadObject
    BY <1>1, <1>2, VisitObject
  <1>5. object.context = NoContext
    BY <1>3 DEF ThreadObject
  <1> HIDE DEF object
  <1>6. NewThread(object)
    BY <1>2 DEF object
  <1>7. vector'[count + 1] = object
    BY <1>4, <1>6, NewThreadProperties DEF TypeOK
  <1> QED
    BY <1>5, <1>7

\* A turn of the loop adds an object that has no context yet.  While links can
\* be read it is the object of a thread.
LEMMA VisitCaches ==
  ASSUME IInv, CollectionInv, CachesFresh, ObjectsAreThreads, Visit,
         stack' = stack
  PROVE  CachesFresh' /\ ObjectsAreThreads'
  <1>1. TypeOK /\ ThreadsTypeOK
    BY DEF IInv, TypeOK
  <1>2. PICK t : t = ThreadOf(Top.it)
    OBVIOUS
  <1>3. PICK m \in BodyReads(WithAddr(NewObject, t), t), object \in ThreadObject :
          /\ NewThread(object)
          /\ object.addr = t
          /\ faults \subseteq faults'
    BY <1>1, <1>2, VisitCollects
  <1>4. /\ count' = count + 1
        /\ vector'[count + 1] = object
        /\ \A i \in 1 .. count : vector'[i] = vector[i]
    BY <1>1, <1>3, NewThreadProperties
  <1>5. object.context = NoContext
    BY <1>1, <1>4, NewHasNoContext
  <1>6. count \in Nat /\ fresh' = fresh
    BY <1>1 DEF ThreadsTypeOK, Visit
  <1>7. CachesFresh'
    <2> SUFFICES ASSUME fresh', NEW i \in 1 .. count'
                 PROVE  \/ vector'[i].context
                             \in {NoContext, stack'[vector'[i].body.sp]}
                        \/ /\ "context" \in faults'
                           /\ vector'[i].context = Zeros
      BY DEF CachesFresh
    <2>1. CASE i \in 1 .. count
      BY <1>3, <1>4, <1>6, <2>1 DEF CachesFresh
    <2>2. CASE i = count + 1
      BY <1>4, <1>5, <2>2
    <2> QED
      BY <1>4, <1>6, <2>1, <2>2
  <1>8. ObjectsAreThreads'
    <2> SUFFICES ASSUME ~LinkFaults, NEW i \in 1 .. Len(vector')
                 PROVE  vector'[i].addr \in Thread
      BY DEF ObjectsAreThreads
    <2>1. LinksIntact'
      BY LinksStayIntact DEF CollectionInv, Next, WalkStep, NoLinkFaults
    <2>2. t \in Thread
      BY <1>2, <2>1, VisitedThread
    <2>3. \/ i \in 1 .. Len(vector) /\ vector'[i] = vector[i]
          \/ vector'[i] = object
      <3>1. CASE count < Len(vector)
        <4>1. vector' = [vector EXCEPT ![count + 1] = object]
          BY <1>3, <3>1 DEF NewThread
        <4> QED
          BY <1>1, <1>6, <3>1, <4>1 DEF ThreadsTypeOK
      <3>2. CASE count = Len(vector)
        <4>1. vector' = Append(vector, object)
          BY <1>3, <3>2, <1>6 DEF NewThread
        <4> QED
          BY <1>1, <1>6, <3>2, <4>1 DEF ThreadsTypeOK
      <3> QED
        BY <1>1, <3>1, <3>2 DEF ThreadsTypeOK
    <2> QED
      BY <1>3, <2>2, <2>3 DEF ObjectsAreThreads
  <1> QED
    BY <1>7, <1>8

\* The walk goes on.
LEMMA ContinuesCollection ==
  ASSUME FrontendInv, UpdateContinues
  PROVE  CollectionPart' /\ CachesFresh' /\ CurrentRead' /\ ObjectsAreThreads'
  <1>1. /\ WalkStep /\ pc \in {"walk", "current"} /\ pc' \notin Aborted
        /\ stack' = stack /\ fresh' = fresh /\ currentWord' = currentWord
        /\ is_scheduler_started_' = is_scheduler_started_
    BY DEF UpdateContinues, frontendVars, WalkStep, Visit, Exhausted,
           NextSibling, WalkDone, UpdateCurrentThread, Aborted, targetVars
  <1>2. is_scheduler_started_ /\ IInv /\ CollectionInv
    BY <1>1 DEF FrontendInv, CollectionPart, EmptyCollection, Aborted
  <1>3. IInv' /\ CollectionInv'
    BY <1>1, <1>2, NextIInv, NextCollection DEF Next
  <1>4. CollectionPart'
    BY <1>1, <1>2, <1>3 DEF CollectionPart
  <1>5. CachesFresh' /\ ObjectsAreThreads'
    <2>1. CASE Visit
      BY <1>1, <1>2, <2>1, VisitCaches DEF FrontendInv
    <2>2. CASE ~Visit
      <3>1. vector' = vector /\ count' = count /\ faults \subseteq faults'
        BY <1>1, <2>2
        DEF WalkStep, Exhausted, NextSibling, WalkDone, UpdateCurrentThread,
            SetCurrent, threadsVars
      <3> QED
        BY <1>1, <3>1 DEF FrontendInv, CachesFresh, ObjectsAreThreads
    <2> QED
      BY <2>1, <2>2
  <1>6. CurrentRead'
    <2>1. CASE UpdateCurrentThread
      BY <1>1, <2>1
      DEF CurrentRead, UpdateCurrentThread, SetCurrent, threadsVars, ThreadByAddr
    <2>2. CASE ~UpdateCurrentThread
      <3>1. pc' # "idle"
        BY <1>1, <2>2 DEF WalkStep, Visit, Exhausted, NextSibling, WalkDone
      <3> QED
        BY <3>1 DEF CurrentRead
    <2> QED
      BY <2>1, <2>2
  <1> QED
    BY <1>4, <1>5, <1>6
\* Caching a context between two updates keeps the invariants of the collection.
LEMMA CachingKeepsCollection ==
  ASSUME IInv, CollectionInv, pc = "idle", NEW p \in 1 .. Len(vector),
         NEW context \in Context \cup {NoContext}, SetContext(p, context),
         faults' \in {faults, faults \cup {"context"}},
         UNCHANGED <<targetVars, pc, frames, fresh>>
  PROVE  IInv' /\ CollectionInv' /\ ListedAddrs' = ListedAddrs
  <1>1. TypeOK /\ ThreadsTypeOK
    BY DEF IInv, TypeOK
  <1>2. /\ ThreadsTypeOK'
        /\ Len(vector') = Len(vector)
        /\ count' = count /\ current' = current
        /\ \A i \in 1 .. Len(vector) :
             /\ vector'[i].addr = vector[i].addr
             /\ vector'[i].id = vector[i].id
             /\ vector'[i].body = vector[i].body
    BY <1>1, SetContextFacts
  <1>3. /\ pc' = "idle" /\ frames' = frames /\ fresh' = fresh
        /\ forest' = forest /\ tcb' = tcb /\ currentWord' = currentWord
    BY DEF targetVars
  <1>4. \A kind \in Faults \ {"context"} : kind \in faults' <=> kind \in faults
    OBVIOUS
  <1>5. /\ "link" \in faults' <=> "link" \in faults
        /\ "tcb" \in faults' <=> "tcb" \in faults
        /\ "current" \in faults' <=> "current" \in faults
    BY <1>4 DEF Faults
  <1>6. \A i \in 1 .. count : i \in 1 .. Len(vector)
    BY <1>1 DEF ThreadsTypeOK
  <1>7. ListedAddrs' = ListedAddrs
    BY <1>2, <1>6 DEF ListedAddrs
  <1>8. TypeOK'
    <2>1. faults' \subseteq Faults
      BY <1>1 DEF TypeOK, Faults
    <2> QED
      BY <1>1, <1>2, <1>3, <2>1 DEF TypeOK
  <1>9. IInv'
    <2>1. ListedOnce'
      BY <1>2, <1>5, <1>6 DEF IInv, ListedOnce, LinksIntact
    <2>2. SnapshotComplete'
      BY <1>3, <1>5, <1>7 DEF IInv, SnapshotComplete, UpToDate, LinksIntact
    <2> QED
      BY <1>3, <1>8, <2>1, <2>2 DEF IInv
  <1>10. IdsOfAddresses' /\ PoolBounded' /\ NoLinkFaults' /\ NoneCurrentYet'
    BY <1>2, <1>3, <1>5
    DEF CollectionInv, IdsOfAddresses, PoolBounded, NoLinkFaults, LinksIntact,
        NoneCurrentYet
  <1>11. ListedAreThreads' /\ NoOldCurrent'
    BY <1>2, <1>5, <1>7
    DEF CollectionInv, ListedAreThreads, LinksIntact, NoOldCurrent
  <1>12. CurrentCorrect'
    <2>1. current \in 0 .. Len(vector) /\ Len(vector) \in Nat
      BY <1>1 DEF ThreadsTypeOK
    <2>2. current # 0 => vector'[current].addr = vector[current].addr
      BY <1>2, <2>1
    <2> QED
      BY <1>2, <1>3, <1>5, <2>2
      DEF CollectionInv, CurrentCorrect, UpToDate, LinksIntact
  <1>13. NoForeignData'
    <2>1. \A i \in 1 .. count :
            vector'[i].addr = vector[i].addr /\ vector'[i].body = vector[i].body
      BY <1>2, <1>6
    <2> QED
      BY <1>2, <1>3, <1>5, <2>1 DEF CollectionInv, NoForeignData, LinksIntact
  <1> QED
    BY <1>7, <1>9, <1>10, <1>11, <1>12, <1>13 DEF CollectionInv

\* What an answered query did: it is about an object with the ID, and it keeps
\* in the object the context that the object had, or what was read.
LEMMA GetRegistersFacts ==
  ASSUME FrontendInv, NEW tid \in QueryIds, NEW inRange \in BOOLEAN,
         GetRegisters(tid, inRange)
  PROVE  /\ is_scheduler_started_ /\ pc = "idle" /\ IInv /\ CollectionInv
         /\ ~IsCurrent(tid)
         /\ \E p \in 1 .. Len(vector), read \in ContextReads(ThreadById(tid)) :
              /\ p = ThreadById(tid)
              /\ vector[p].id = tid
              /\ read.context \in Context
              /\ SetContext(p, read.context)
              /\ faults' = faults \cup Failed(read, "context")
              /\ reply' = IF inRange
                          THEN Reply("get", tid, 0, read.context,
                                     vector[p].body.sp)
                          ELSE Reply("get", tid, -1, NoContext, 0)
  <1>1. is_scheduler_started_ /\ pc = "idle" /\ ~IsCurrent(tid)
    BY DEF GetRegisters, AskCpu
  <1>2. IInv /\ CollectionInv /\ ThreadsTypeOK
    BY <1>1, AtRest DEF TypeOK
  <1> DEFINE S == {i \in 1 .. Len(vector) : vector[i].id = tid}
             p == ThreadById(tid)
  <1>3. p # 0 /\ p = FirstOf(S)
    BY DEF GetRegisters, ThreadById
  <1>4. S \subseteq 1 .. Len(vector) /\ Len(vector) \in Nat
    BY <1>2 DEF ThreadsTypeOK
  <1>5. p \in S
    BY <1>3, <1>4, FirstOfProperties
  <1>6. p \in 1 .. Len(vector) /\ vector[p].id = tid
    BY <1>5
  <1> HIDE DEF p
  <1>7. vector[p] \in ThreadObject
    BY <1>2, <1>6 DEF ThreadsTypeOK
  <1>8. stack[vector[p].body.sp] \in Context
    <2>1. vector[p].body.sp \in Addr
      BY <1>7 DEF ThreadObject, Body
    <2>2. stack \in [Addr -> Context]
      BY FrontendAssumption DEF FrontendInv, FrontendTypeOK
    <2> QED
      BY <2>1, <2>2
  <1>9. \A read \in ContextReads(p) : read.context \in Context
    BY <1>7, <1>8, FrontendAssumption DEF ContextReads, ThreadObject
  <1>10. PICK read \in ContextReads(p) :
           /\ SetContext(p, read.context)
           /\ faults' = faults \cup Failed(read, "context")
           /\ reply' = IF inRange
                       THEN Reply("get", tid, 0, read.context,
                                  vector[p].body.sp)
                       ELSE Reply("get", tid, -1, NoContext, 0)
    BY DEF GetRegisters, p
  <1> QED
    BY <1>1, <1>2, <1>6, <1>9, <1>10 DEF p

LEMMA GetRegistersCollection ==
  ASSUME FrontendInv, NEW tid \in QueryIds, NEW inRange \in BOOLEAN,
         GetRegisters(tid, inRange)
  PROVE  CollectionPart' /\ CachesFresh' /\ CurrentRead' /\ ObjectsAreThreads'
  <1>1. PICK p \in 1 .. Len(vector), read \in ContextReads(ThreadById(tid)) :
          /\ p = ThreadById(tid)
          /\ read.context \in Context
          /\ SetContext(p, read.context)
          /\ faults' = faults \cup Failed(read, "context")
    BY GetRegistersFacts
  <1>2. /\ is_scheduler_started_ /\ pc = "idle" /\ IInv /\ CollectionInv
        /\ ThreadsTypeOK
    BY GetRegistersFacts DEF IInv, TypeOK
  <1>3. /\ UNCHANGED <<targetVars, pc, frames, fresh, stack>>
        /\ is_scheduler_started_' = is_scheduler_started_
    BY DEF GetRegisters
  <1>4. faults' \in {faults, faults \cup {"context"}}
    BY <1>1 DEF Failed
  <1>5. IInv' /\ CollectionInv'
    BY <1>1, <1>2, <1>3, <1>4, CachingKeepsCollection
  <1>6. /\ Len(vector') = Len(vector) /\ count' = count /\ current' = current
        /\ \A i \in 1 .. Len(vector) :
             /\ vector'[i].addr = vector[i].addr
             /\ vector'[i].body = vector[i].body
             /\ vector'[i].context = IF i = p THEN read.context
                                     ELSE vector[i].context
    BY <1>1, <1>2, SetContextFacts
  <1>7. CollectionPart'
    BY <1>2, <1>3, <1>5 DEF CollectionPart
  <1>8. CachesFresh'
    <2> SUFFICES ASSUME fresh', NEW i \in 1 .. count'
                 PROVE  \/ vector'[i].context
                             \in {NoContext, stack'[vector'[i].body.sp]}
                        \/ /\ "context" \in faults'
                           /\ vector'[i].context = Zeros
      BY DEF CachesFresh
    <2>1. i \in 1 .. Len(vector) /\ i \in 1 .. count
      BY <1>2, <1>6 DEF ThreadsTypeOK
    <2>2. \/ vector[i].context \in {NoContext, stack[vector[i].body.sp]}
          \/ "context" \in faults /\ vector[i].context = Zeros
      BY <1>3, <2>1 DEF FrontendInv, CachesFresh
    <2>3. CASE i # p
      BY <1>3, <1>4, <1>6, <2>1, <2>2, <2>3
    <2>4. CASE i = p
      <3>1. \/ read.context = vector[p].context
            \/ read.context = stack[vector[p].body.sp]
            \/ ~read.ok /\ read.context = Zeros
        BY <1>1 DEF ContextReads
      <3>2. ~read.ok => "context" \in faults'
        BY <1>1 DEF Failed
      <3> QED
        BY <1>3, <1>4, <1>6, <2>1, <2>2, <2>4, <3>1, <3>2
    <2> QED
      BY <2>3, <2>4
  <1>9. CurrentRead'
    <2>1. ThreadByAddr(currentWord)' = ThreadByAddr(currentWord)
      <3>1. {i \in 1 .. Len(vector') : vector'[i].addr = currentWord'}
              = {i \in 1 .. Len(vector) : vector[i].addr = currentWord}
        BY <1>3, <1>6 DEF targetVars
      <3> QED
        BY <3>1 DEF ThreadByAddr
    <2>2. "current" \in faults' <=> "current" \in faults
      BY <1>4
    <2> QED
      BY <1>3, <1>6, <2>1, <2>2 DEF FrontendInv, CurrentRead
  <1>10. ObjectsAreThreads'
    BY <1>6 DEF FrontendInv, ObjectsAreThreads
  <1> QED
    BY <1>7, <1>8, <1>9, <1>10

\* The host stops in an assertion: there is no other step.
LEMMA AbortCollection ==
  ASSUME FrontendInv, NEW tid \in QueryIds, GetRegistersAborts(tid)
  PROVE  CollectionPart' /\ CachesFresh' /\ CurrentRead' /\ ObjectsAreThreads'
  <1>1. /\ is_scheduler_started_' /\ pc' \in Aborted
        /\ vector' = vector /\ count' = count
        /\ faults' = faults /\ fresh' = fresh /\ stack' = stack
    BY DEF GetRegistersAborts, AskCpu, Aborted, threadsVars
  <1> QED
    BY <1>1
    DEF FrontendInv, CollectionPart, CachesFresh, CurrentRead, ObjectsAreThreads,
        Aborted
LEMMA NextCollectionPart ==
  ASSUME FrontendInv, [FrontendNext]_allVars
  PROVE  CollectionPart' /\ CachesFresh' /\ CurrentRead' /\ ObjectsAreThreads'
  <1>1. CASE TargetRunsAndHalts
    BY <1>1, TargetRunsCollection
  <1>2. CASE UpdateNotStarted
    BY <1>2, NotStartedCollection
  <1>3. CASE UpdateStarted
    BY <1>3, StartedCollection
  <1>4. CASE UpdateContinues
    BY <1>4, ContinuesCollection
  <1>5. CASE \E tid \in QueryIds, inRange \in BOOLEAN : GetRegisters(tid, inRange)
    BY <1>5, GetRegistersCollection
  <1>6. CASE \E tid \in QueryIds : GetRegistersAborts(tid)
    BY <1>6, AbortCollection
  <1>7. CASE UNCHANGED <<vars, stack, is_scheduler_started_>>
    BY <1>7, SameCollection
  <1>8. \/ TargetRunsAndHalts \/ UpdateNotStarted \/ UpdateStarted
        \/ UpdateContinues
        \/ \E tid \in QueryIds, inRange \in BOOLEAN : GetRegisters(tid, inRange)
        \/ \E tid \in QueryIds : GetRegistersAborts(tid)
        \/ UNCHANGED <<vars, stack, is_scheduler_started_>>
    BY DEF FrontendNext, HaltedNext, SymbolsLoaded, UpdateUnavailable,
           GetRegistersFromCpu,
           SetRegisters, allVars, frontendVars
  <1> QED
    BY <1>1, <1>2, <1>3, <1>4, <1>5, <1>6, <1>7, <1>8

---------------------------------------------------------------------------
(* Types.                                                                  *)

LEMMA NoReplyType ==
  NoReply \in [call: {"none", "get", "set", "abort"}, tid: Nat, ret: {-1, 0},
               context: Context \cup {NoContext}, sp: Addr]
  BY AddrSpaceAssumption DEF NoReply, Reply, IdNone, Addr

LEMMA ReplyType ==
  ASSUME NEW call \in {"get", "set", "abort"}, NEW tid \in QueryIds,
         NEW ret \in {-1, 0}, NEW context \in Context \cup {NoContext},
         NEW sp \in Addr
  PROVE  Reply(call, tid, ret, context, sp)
           \in [call: {"none", "get", "set", "abort"}, tid: Nat, ret: {-1, 0},
                context: Context \cup {NoContext}, sp: Addr]
  BY FrontendAssumption DEF Reply

\* What the collection knows of its own types.
LEMMA CollectionTypes ==
  ASSUME FrontendInv, [FrontendNext]_allVars
  PROVE  /\ ThreadsTypeOK'
         /\ pc' \in {"idle", "walk", "current", "crashed",
                     "no such thread", "context too large"}
         /\ frames' \in Seq(Frame)
         /\ faults' \subseteq Faults
  <1>1. CASE ~is_scheduler_started_' \/ pc' \notin Aborted
    <2>1. TypeOK'
      BY <1>1, NextCollectionPart DEF CollectionPart, EmptyCollection, IInv
    <2> QED
      BY <2>1 DEF TypeOK
  <1>2. CASE pc' \in Aborted
    <2>1. /\ vector' = vector /\ count' = count /\ current' = current
          /\ frames' = frames /\ faults' = faults
      BY <1>2
      DEF FrontendNext, HaltedNext, TargetRunsAndHalts, TargetRuns,
          SymbolsLoaded,
          UpdateUnavailable, UpdateNotStarted, UpdateStarted, UpdateThreads,
          UpdateContinues, WalkStep, Visit, Exhausted, NextSibling, WalkDone,
          UpdateCurrentThread, GetRegistersFromCpu, GetRegisters,
          GetRegistersAborts, SetRegisters, Aborted, allVars, vars, targetVars,
          threadsVars, walkVars
    <2> QED
      BY <1>2, <2>1 DEF FrontendInv, FrontendTypeOK, ThreadsTypeOK, Aborted
  <1> QED
    BY <1>1, <1>2

LEMMA NextFrontendType ==
  ASSUME FrontendInv, [FrontendNext]_allVars
  PROVE  FrontendTypeOK'
  <1> DEFINE R == [call: {"none", "get", "set", "abort"}, tid: Nat, ret: {-1, 0},
                   context: Context \cup {NoContext}, sp: Addr]
  <1> SUFFICES /\ MetadataTypeOK'
               /\ started' \in BOOLEAN /\ stack' \in Stacks
               /\ is_scheduler_started_' \in BOOLEAN
               /\ updateRet' \in {-1, 0, 1}
               /\ reply' \in R
    BY CollectionTypes DEF FrontendTypeOK
  <1>1. /\ MetadataTypeOK
        /\ started \in BOOLEAN /\ stack \in Stacks
        /\ is_scheduler_started_ \in BOOLEAN
        /\ updateRet \in {-1, 0, 1}
        /\ reply \in R
    BY DEF FrontendInv, FrontendTypeOK
  <1>2. NoReply \in R
    BY NoReplyType
  <1>3. 0 \in Addr
    BY AddrSpaceAssumption DEF Addr
  <1>4. metadataVars' = metadataVars => MetadataTypeOK'
    BY <1>1 DEF metadataVars, MetadataTypeOK
  <1> HIDE DEF R
  <1>5. CASE TargetRunsAndHalts
    BY <1>1, <1>2, <1>4, <1>5 DEF TargetRunsAndHalts
  <1>6. CASE SymbolsLoaded
    <2>1. MetadataTypeOK'
      BY <1>1, <1>6 DEF SymbolsLoaded, ResolveSymbol, MetadataTypeOK
    <2> QED
      BY <1>1, <1>6, <2>1 DEF SymbolsLoaded, frontendVars
  <1>7. CASE UpdateUnavailable
    BY <1>1, <1>2, <1>7, ParseFacts DEF UpdateUnavailable
  <1>8. CASE UpdateNotStarted
    BY <1>1, <1>2, <1>8, ParseFacts DEF UpdateNotStarted
  <1>9. CASE UpdateStarted
    BY <1>1, <1>2, <1>9, ParseFacts DEF UpdateStarted
  <1>10. CASE UpdateContinues
    BY <1>1, <1>4, <1>10 DEF UpdateContinues, frontendVars
  <1>11. ASSUME NEW tid \in QueryIds, GetRegistersFromCpu(tid)
         PROVE  reply' \in R
    BY <1>3, <1>11, ReplyType DEF GetRegistersFromCpu, R
  <1>12. ASSUME NEW tid \in QueryIds, NEW inRange \in BOOLEAN,
                GetRegisters(tid, inRange)
         PROVE  reply' \in R
    <2>1. PICK p \in 1 .. Len(vector), read \in ContextReads(ThreadById(tid)) :
            /\ read.context \in Context
            /\ reply' = IF inRange
                        THEN Reply("get", tid, 0, read.context,
                                   vector[p].body.sp)
                        ELSE Reply("get", tid, -1, NoContext, 0)
      BY <1>12, GetRegistersFacts
    <2>2. vector[p].body.sp \in Addr
      <3>1. vector \in Seq(ThreadObject)
        BY DEF FrontendInv, FrontendTypeOK, ThreadsTypeOK
      <3>2. vector[p] \in ThreadObject
        BY <3>1
      <3> QED
        BY <3>2 DEF ThreadObject, Body
    <2>3. /\ Reply("get", tid, 0, read.context, vector[p].body.sp) \in R
          /\ Reply("get", tid, -1, NoContext, 0) \in R
      BY <1>3, <2>1, <2>2, ReplyType DEF R
    <2> QED
      BY <2>1, <2>3
  <1>13. ASSUME NEW tid \in QueryIds, GetRegistersAborts(tid)
         PROVE  reply' \in R
    BY <1>3, <1>13, ReplyType DEF GetRegistersAborts, R
  <1>14. ASSUME NEW tid \in QueryIds, SetRegisters(tid)
         PROVE  reply' \in R
    BY <1>3, <1>14, ReplyType DEF SetRegisters, R
  <1>15. CASE \E tid \in QueryIds :
               \/ GetRegistersFromCpu(tid)
               \/ \E inRange \in BOOLEAN : GetRegisters(tid, inRange)
               \/ GetRegistersAborts(tid)
               \/ SetRegisters(tid)
    <2>1. reply' \in R
      BY <1>11, <1>12, <1>13, <1>14, <1>15
    <2>2. UNCHANGED <<metadataVars, started, stack, is_scheduler_started_,
                      updateRet>>
      BY <1>15 DEF GetRegistersFromCpu, GetRegisters, GetRegistersAborts,
                   SetRegisters
    <2> QED
      BY <1>1, <1>4, <2>1, <2>2
  <1>16. CASE UNCHANGED allVars
    BY <1>1, <1>4, <1>16 DEF allVars, frontendVars
  <1> QED
    BY <1>5, <1>6, <1>7, <1>8, <1>9, <1>10, <1>15, <1>16
    DEF FrontendNext, HaltedNext
---------------------------------------------------------------------------
(* The answers.                                                            *)

\* Registers that are answered are those on the stack of the thread with the
\* ID, or the zeros that a failed read leaves.
LEMMA GetRegistersFresh ==
  ASSUME FrontendInv, NEW tid \in QueryIds, NEW inRange \in BOOLEAN,
         GetRegisters(tid, inRange)
  PROVE  RegistersFresh'
  <1> SUFFICES ASSUME GoodReply', NEW t \in Members(forest'),
                      IdOf(t) = reply'.tid
               PROVE  /\ reply'.sp = tcb'[t].sp
                      /\ \/ reply'.context = stack'[tcb'[t].sp]
                         \/ "context" \in faults' /\ reply'.context = Zeros
    BY DEF RegistersFresh
  <1>1. PICK p \in 1 .. Len(vector), read \in ContextReads(ThreadById(tid)) :
          /\ p = ThreadById(tid)
          /\ faults' = faults \cup Failed(read, "context")
          /\ reply' = IF inRange
                      THEN Reply("get", tid, 0, read.context,
                                 vector[p].body.sp)
                      ELSE Reply("get", tid, -1, NoContext, 0)
    BY GetRegistersFacts
  <1>2. pc = "idle" /\ is_scheduler_started_ /\ IInv /\ CollectionInv
    BY GetRegistersFacts
  <1>3. forest' = forest /\ tcb' = tcb /\ stack' = stack /\ fresh' = fresh
    BY DEF GetRegisters, targetVars
  <1>4. /\ reply'.tid = tid /\ reply'.sp = vector[p].body.sp
        /\ reply'.context = read.context
    <2>1. inRange
      BY <1>1 DEF GoodReply, Reply
    <2> QED
      BY <1>1, <2>1 DEF Reply
  <1>5. fresh /\ LinksIntact /\ "tcb" \notin faults
    BY <1>1, <1>3 DEF GoodReply, LinksIntact
  <1>6. PICK i \in 1 .. count : vector[i].addr = t
    <2>1. t \in ListedAddrs
      BY <1>2, <1>3, <1>5 DEF IInv, SnapshotComplete, UpToDate
    <2> QED
      BY <2>1 DEF ListedAddrs
  <1>7. i = p
    <2>1. i \in 1 .. Len(vector)
      BY <1>2 DEF IInv, TypeOK, ThreadsTypeOK
    <2>2. vector[i].id = tid
      BY <1>2, <1>4, <1>6, <2>1 DEF CollectionInv, IdsOfAddresses
    <2> QED
      BY <1>1, <1>2, <1>5, <2>2, FoundById
  <1>8. vector[p].body = tcb[t]
    BY <1>2, <1>5, <1>6, <1>7 DEF CollectionInv, NoForeignData
  <1>9. \/ vector[p].context \in {NoContext, stack[tcb[t].sp]}
        \/ "context" \in faults /\ vector[p].context = Zeros
    BY <1>5, <1>7, <1>8 DEF FrontendInv, CachesFresh
  <1>10. \/ vector[p].context # NoContext /\ read.context = vector[p].context
         \/ read.context = stack[tcb[t].sp]
         \/ ~read.ok /\ read.context = Zeros
    BY <1>1, <1>8 DEF ContextReads
  <1>11. ~read.ok => "context" \in faults'
    BY <1>1 DEF Failed
  <1> QED
    BY <1>1, <1>3, <1>4, <1>8, <1>9, <1>10, <1>11

\* A search by ID fails only when no object has the ID.
LEMMA NotFound ==
  ASSUME ThreadsTypeOK, NEW tid, ThreadById(tid) = 0, NEW i \in 1 .. count
  PROVE  vector[i].id # tid
  <1> DEFINE S == {j \in 1 .. Len(vector) : vector[j].id = tid}
  <1>1. Len(vector) \in Nat /\ i \in 1 .. Len(vector)
    BY DEF ThreadsTypeOK
  <1>2. S \subseteq 1 .. Len(vector) /\ FirstOf(S) = 0
    BY DEF ThreadById
  <1>3. S = {}
    <2> HIDE DEF S
    <2> SUFFICES ASSUME S # {} PROVE FALSE
      OBVIOUS
    <2>1. FirstOf(S) \in S
      BY <1>1, <1>2, FirstOfProperties
    <2> QED
      BY <1>1, <1>2, <2>1
  <1> QED
    BY <1>1, <1>3

LEMMA NextAnswers ==
  ASSUME FrontendInv, [FrontendNext]_allVars
  PROVE  RegistersFresh' /\ NoAnswerYet'
  <1>1. CASE TargetRunsAndHalts \/ UpdateUnavailable \/ UpdateNotStarted
               \/ UpdateStarted
    <2>1. reply' = NoReply
      BY <1>1
      DEF TargetRunsAndHalts, TargetRuns, UpdateUnavailable, UpdateNotStarted,
          UpdateStarted, UpdateThreads, vars, walkVars
    <2> QED
      BY <2>1 DEF RegistersFresh, GoodReply, NoAnswerYet, NoReply, Reply
  <1>2. CASE UpdateContinues
    <2>1. pc \in {"walk", "current"} /\ reply' = reply
      BY <1>2
      DEF UpdateContinues, frontendVars, WalkStep, Visit, Exhausted,
          NextSibling, WalkDone, UpdateCurrentThread
    <2>2. reply' = NoReply
      BY <2>1 DEF FrontendInv, NoAnswerYet
    <2>3. reply'.call = "none"
      BY <2>2 DEF NoReply, Reply
    <2> QED
      BY <2>1, <2>2, <2>3
      DEF RegistersFresh, GoodReply, NoAnswerYet
  <1>3. CASE \E tid \in QueryIds : GetRegistersFromCpu(tid) \/ SetRegisters(tid)
    <2>1. /\ pc' = "idle"
          /\ reply'.call = "set" \/ reply'.ret = -1
      BY <1>3 DEF GetRegistersFromCpu, SetRegisters, Reply, vars, walkVars
    <2> QED
      BY <2>1 DEF RegistersFresh, GoodReply, NoAnswerYet
  <1>4. CASE \E tid \in QueryIds, inRange \in BOOLEAN : GetRegisters(tid, inRange)
    <2>1. pc' = "idle"
      BY <1>4 DEF GetRegisters
    <2>2. RegistersFresh'
      BY <1>4, GetRegistersFresh
    <2> QED
      BY <2>1, <2>2 DEF NoAnswerYet
  <1>5. CASE \E tid \in QueryIds : GetRegistersAborts(tid)
    <2>0. PICK tid \in QueryIds : GetRegistersAborts(tid)
      BY <1>5
    <2>1. reply'.call = "abort" /\ pc' \in Aborted
      <3>1. reply' = Reply("abort", tid, 0, NoContext, 0)
        BY <2>0 DEF GetRegistersAborts
      <3>2. reply'.call = "abort"
        BY <3>1 DEF Reply
      <3>3. pc' \in Aborted
        BY <2>0 DEF GetRegistersAborts, Aborted
      <3> QED
        BY <3>2, <3>3
    <2> QED
      BY <2>1 DEF RegistersFresh, GoodReply, NoAnswerYet, Aborted
  <1>6. CASE UNCHANGED <<vars, stack, reply>>
    <2>1. /\ vector' = vector /\ count' = count /\ pc' = pc
          /\ faults' = faults /\ fresh' = fresh /\ forest' = forest
          /\ tcb' = tcb /\ stack' = stack /\ reply' = reply
      BY <1>6 DEF vars, targetVars, threadsVars, walkVars
    <2> QED
      BY <2>1 DEF FrontendInv, RegistersFresh, GoodReply, NoAnswerYet
  <1>7. SymbolsLoaded \/ UNCHANGED allVars => UNCHANGED <<vars, stack, reply>>
    BY DEF SymbolsLoaded, allVars, frontendVars
  <1> QED
    BY <1>1, <1>2, <1>3, <1>4, <1>5, <1>6, <1>7
    DEF FrontendNext, HaltedNext

LEMMA NextNothingShown ==
  ASSUME FrontendInv, [FrontendNext]_allVars
  PROVE  NothingBeforeStart'
  <1> SUFFICES ASSUME ~is_scheduler_started_'
               PROVE  /\ count' = 0 /\ current' = 0
                      /\ reply'.ret = 0 => reply'.call = "none"
    BY DEF NothingBeforeStart
  <1>1. CollectionPart'
    BY NextCollectionPart
  <1>2. count' = 0 /\ current' = 0
    BY <1>1 DEF CollectionPart, EmptyCollection
  <1>3. CASE UpdateStarted
    BY <1>3 DEF UpdateStarted
  <1>4. CASE TargetRunsAndHalts \/ UpdateUnavailable \/ UpdateNotStarted
    <2>1. reply' = NoReply
      BY <1>4 DEF TargetRunsAndHalts, UpdateUnavailable, UpdateNotStarted
    <2>2. reply'.call = "none"
      BY <2>1 DEF NoReply, Reply
    <2> QED
      BY <1>2, <2>2
  <1>5. CASE UNCHANGED <<is_scheduler_started_, reply>>
    BY <1>2, <1>5 DEF FrontendInv, NothingBeforeStart
  <1>6. CASE \E tid \in QueryIds : GetRegistersFromCpu(tid) \/ SetRegisters(tid)
    <2>1. reply'.ret = -1
      BY <1>6 DEF GetRegistersFromCpu, SetRegisters, AskCpu, Reply
    <2> QED
      BY <1>2, <2>1
  <1>7. /\ \A tid \in QueryIds, inRange \in BOOLEAN : ~GetRegisters(tid, inRange)
        /\ \A tid \in QueryIds : ~GetRegistersAborts(tid)
    <2>1. ~is_scheduler_started_ \/ is_scheduler_started_' # is_scheduler_started_
      OBVIOUS
    <2> QED
      BY <2>1 DEF GetRegisters, GetRegistersAborts, AskCpu
  <1>8. SymbolsLoaded \/ UpdateContinues \/ UNCHANGED allVars =>
          UNCHANGED <<is_scheduler_started_, reply>>
    BY DEF SymbolsLoaded, UpdateContinues, allVars, frontendVars
  <1> QED
    BY <1>2, <1>3, <1>4, <1>5, <1>6, <1>7, <1>8
    DEF FrontendNext, HaltedNext

\* An update that succeeds has seen the metadata, and then each one does.
LEMMA NextAvailable ==
  ASSUME FrontendInv, [FrontendNext]_allVars
  PROVE  SucceedsWhenAvailable' /\ (updateRet = 0 => updateRet' = 0)
  <1>1. MetadataTypeOK /\ SucceedsWhenAvailable
    BY DEF FrontendInv, FrontendTypeOK
  <1>2. CASE UpdateUnavailable
    <2>1. Parse(FALSE) /\ updateRet' = -1
      BY <1>2 DEF UpdateUnavailable
    <2>2. ~(was_parsed /\ is_available)
      BY <1>1, <2>1, ParseFacts
    <2> QED
      BY <1>1, <2>1, <2>2 DEF SucceedsWhenAvailable
  <1>3. CASE UpdateNotStarted \/ UpdateStarted
    <2>1. Parse(TRUE) /\ updateRet' = 0
      BY <1>3 DEF UpdateNotStarted, UpdateStarted
    <2> QED
      BY <1>1, <2>1, ParseFacts DEF SucceedsWhenAvailable
  <1>4. CASE UNCHANGED <<was_parsed, is_available, updateRet>>
    BY <1>1, <1>4 DEF SucceedsWhenAvailable
  <1> QED
    BY <1>2, <1>3, <1>4
    DEF FrontendNext, HaltedNext, TargetRunsAndHalts, SymbolsLoaded,
        ResolveSymbol,
        UpdateContinues, GetRegistersFromCpu, GetRegisters, GetRegistersAborts,
        SetRegisters, allVars, metadataVars, frontendVars
---------------------------------------------------------------------------
(* Theorems.                                                               *)

LEMMA InitFrontendInv == FrontendInit => FrontendInv
  <1> SUFFICES ASSUME FrontendInit PROVE FrontendInv
    OBVIOUS
  <1>1. TypeOK /\ CollectionInv
    BY InitType, InitCollection DEF FrontendInit
  <1>2. /\ count = 0 /\ current = 0 /\ pc = "idle" /\ frames = <<>>
        /\ fresh = FALSE /\ faults = {} /\ vector = <<>>
        /\ is_scheduler_started_ = FALSE /\ updateRet = 1 /\ reply = NoReply
        /\ started \in BOOLEAN /\ stack \in Stacks
    BY DEF FrontendInit, Init, ThreadsInit
  <1>3. MetadataTypeOK
    <2>1. MetadataInit
      BY DEF FrontendInit
    <2>2. loaded \in 0 .. FieldCount /\ examined \in Nat
      BY <2>1 DEF MetadataInit, FieldCount
    <2>3. was_parsed \in BOOLEAN /\ is_available \in BOOLEAN
      BY <2>1 DEF MetadataInit
    <2> QED
      BY <2>1, <2>2, <2>3 DEF MetadataInit, MetadataTypeOK
  <1>4. FrontendTypeOK
    BY <1>1, <1>2, <1>3, NoReplyType DEF FrontendTypeOK, TypeOK
  <1>5. CollectionPart
    BY <1>1, <1>2 DEF CollectionPart, EmptyCollection, CollectionInv
  <1>6. CachesFresh /\ CurrentRead /\ ObjectsAreThreads
    BY <1>2 DEF CachesFresh, CurrentRead, ObjectsAreThreads
  <1>7. NoAnswerYet /\ SucceedsWhenAvailable
    BY <1>2 DEF NoAnswerYet, SucceedsWhenAvailable
  <1>8. RegistersFresh /\ NothingBeforeStart
    BY <1>2 DEF RegistersFresh, GoodReply, NothingBeforeStart, NoReply, Reply
  <1> QED
    BY <1>4, <1>5, <1>6, <1>7, <1>8 DEF FrontendInv

\* FrontendInv holds in every reachable state.
THEOREM FrontendInvariant == FrontendSpec => []FrontendInv
  <1>1. FrontendInv /\ [FrontendNext]_allVars => FrontendInv'
    BY NextFrontendType, NextCollectionPart, NextAnswers, NextNothingShown,
       NextAvailable
    DEF FrontendInv
  <1> QED
    BY <1>1, InitFrontendInv, PTL DEF FrontendSpec

\* The state of the front end, its collection and its metadata stays well
\* formed, and what it answers is a context or none.
THEOREM FrontendTypeCorrect == FrontendSpec => []FrontendTypeOK
  <1>1. FrontendInv => FrontendTypeOK
    BY DEF FrontendInv
  <1> QED
    BY <1>1, FrontendInvariant, PTL

\* The registers that get_thread_registers() returns for a thread of the
\* target are what its stack holds now, whatever is cached in stale or reused
\* objects, or the zeros of an object whose stack could not be read.
THEOREM AnswersAreFresh == FrontendSpec => []RegistersFresh
  <1>1. FrontendInv => RegistersFresh
    BY DEF FrontendInv
  <1> QED
    BY <1>1, FrontendInvariant, PTL

\* After an update the IDs and the count enumerate each thread of the target,
\* and every ID leads back to its object.
THEOREM EnumerationIsFaithful == FrontendSpec => []EnumerationFaithful
  <1>1. FrontendInv => EnumerationFaithful
    <2> SUFFICES ASSUME FrontendInv, UpToDate, is_scheduler_started_
                 PROVE  /\ {vector[i].addr : i \in 1 .. GetThreadsCount}
                             = Members(forest)
                        /\ \A i \in 0 .. GetThreadsCount - 1 :
                             DescribedBy(GetThreadId(i)) = i + 1
      BY DEF EnumerationFaithful
    <2>1. IInv /\ CollectionInv /\ LinksIntact
      BY AtRest DEF UpToDate
    <2>2. GetThreadsCount = count /\ count \in Nat
      BY <2>1 DEF GetThreadsCount, IInv, TypeOK, ThreadsTypeOK
    <2>3. {vector[i].addr : i \in 1 .. count} = Members(forest)
      BY <2>1 DEF IInv, SnapshotComplete, ListedAddrs
    <2>4. ASSUME NEW i \in 0 .. count - 1
          PROVE  DescribedBy(GetThreadId(i)) = i + 1
      <3>1. i + 1 \in 1 .. count
        BY <2>2
      <3>2. ThreadById(vector[i + 1].id) = i + 1
        BY <2>1, <3>1, FoundById
      <3> QED
        BY <3>2 DEF DescribedBy, GetThreadId
    <2> QED
      BY <2>2, <2>3, <2>4
  <1> QED
    BY <1>1, FrontendInvariant, PTL

\* While no scheduler is seen to run, no thread is shown and no query is
\* answered from the target.
THEOREM NothingShownBeforeStart == FrontendSpec => []NothingBeforeStart
  <1>1. FrontendInv => NothingBeforeStart
    BY DEF FrontendInv
  <1> QED
    BY <1>1, FrontendInvariant, PTL

\* Once an update has succeeded none fails.
THEOREM UpdatesKeepSucceeding == FrontendSpec => AvailabilityStays
  <1>1. FrontendInv /\ [FrontendNext]_allVars =>
          [updateRet = 0 => updateRet' = 0]_allVars
    BY NextAvailable
  <1> QED
    BY <1>1, FrontendInvariant, PTL DEF FrontendSpec, AvailabilityStays

\* Where the target's current thread is always a thread and its lists can be
\* read, the registers of the running thread are never answered from its
\* stack: an unaligned word in current_thread could share an ID with a thread
\* without being recognised as it.
THEOREM RunningIsFromCpu ==
  ASSUME CurrentWords \subseteq Thread, ~LinkFaults
  PROVE  FrontendSpec => []RunningFromCpu
  <1> DEFINE Inv == FrontendInv /\ RunningFromCpu
  <1>1. FrontendInit => RunningFromCpu
    BY DEF FrontendInit, RunningFromCpu, GoodReply, NoReply, Reply
  <1>2. ASSUME FrontendInv, RunningFromCpu, [FrontendNext]_allVars
        PROVE  RunningFromCpu'
    <2>1. CASE UNCHANGED <<vars, reply>>
      <3>1. /\ faults' = faults /\ fresh' = fresh /\ reply' = reply
            /\ currentWord' = currentWord
        BY <2>1 DEF vars, targetVars, walkVars
      <3> QED
        BY <1>2, <3>1 DEF RunningFromCpu, GoodReply
    <2>2. CASE UpdateContinues
      <3>1. pc \in {"walk", "current"} /\ reply' = reply
        BY <2>2
        DEF UpdateContinues, frontendVars, WalkStep, Visit, Exhausted,
            NextSibling, WalkDone, UpdateCurrentThread
      <3>2. reply' = NoReply
        BY <1>2, <3>1 DEF FrontendInv, NoAnswerYet
      <3> QED
        BY <3>2 DEF RunningFromCpu, GoodReply, NoReply, Reply
    <2>3. ASSUME NEW tid \in QueryIds, NEW inRange \in BOOLEAN,
                 GetRegisters(tid, inRange), GoodReply'
          PROVE  reply'.tid # IdOf(currentWord')
      <3>1. PICK p \in 1 .. Len(vector), read \in ContextReads(ThreadById(tid)) :
              /\ vector[p].id = tid
              /\ faults' = faults \cup Failed(read, "context")
              /\ reply' = IF inRange
                          THEN Reply("get", tid, 0, read.context,
                                     vector[p].body.sp)
                          ELSE Reply("get", tid, -1, NoContext, 0)
        BY <1>2, <2>3, GetRegistersFacts
      <3>2. /\ pc = "idle" /\ is_scheduler_started_ /\ CollectionInv /\ TypeOK
            /\ ~IsCurrent(tid)
        BY <1>2, <2>3, GetRegistersFacts DEF IInv
      <3>3. reply'.tid = tid
        BY <3>1 DEF Reply
      <3>4. currentWord' = currentWord /\ fresh' = fresh
        BY <2>3 DEF GetRegisters, targetVars
      <3>5. current = ThreadByAddr(currentWord)
        BY <1>2, <2>3, <3>1, <3>2, <3>4 DEF FrontendInv, CurrentRead, GoodReply
      <3> SUFFICES ASSUME tid = IdOf(currentWord) PROVE FALSE
        BY <3>3, <3>4
      <3>6. vector[p].addr \in Thread /\ currentWord \in Thread
        BY <1>2, <3>2 DEF FrontendInv, ObjectsAreThreads, TypeOK
      <3>7. vector[p].addr = currentWord
        BY <3>1, <3>2, <3>6, IdsDiffer DEF CollectionInv, IdsOfAddresses
      <3> DEFINE S == {i \in 1 .. Len(vector) : vector[i].addr = currentWord}
      <3>8. Len(vector) \in Nat /\ p \in S /\ S \subseteq 1 .. Len(vector)
        BY <3>2, <3>7 DEF TypeOK, ThreadsTypeOK
      <3>9. current \in S
        BY <3>5, <3>8, FirstOfProperties DEF ThreadByAddr
      <3>10. current # 0 /\ vector[current].id = tid
        BY <3>2, <3>9 DEF CollectionInv, IdsOfAddresses
      <3> QED
        BY <3>2, <3>10 DEF IsCurrent
    <2>4. CASE ~GoodReply'
      BY <2>4 DEF RunningFromCpu
    <2>5. CASE TargetRunsAndHalts \/ UpdateUnavailable \/ UpdateNotStarted
                 \/ UpdateStarted
      <3>1. reply' = NoReply
        BY <2>5 DEF TargetRunsAndHalts, UpdateUnavailable, UpdateNotStarted,
                    UpdateStarted
      <3> QED
        BY <3>1 DEF RunningFromCpu, GoodReply, NoReply, Reply
    <2>6. CASE \E tid \in QueryIds :
                 \/ GetRegistersFromCpu(tid)
                 \/ GetRegistersAborts(tid)
                 \/ SetRegisters(tid)
      <3>1. PICK tid, ret :
              \/ reply' = Reply("get", tid, -1, NoContext, 0)
              \/ reply' = Reply("abort", tid, 0, NoContext, 0)
              \/ reply' = Reply("set", tid, ret, NoContext, 0)
        BY <2>6 DEF GetRegistersFromCpu, GetRegistersAborts, SetRegisters
      <3>2. reply'.call # "get" \/ reply'.ret = -1
        BY <3>1 DEF Reply
      <3> QED
        BY <3>2 DEF RunningFromCpu, GoodReply
    <2>7. SymbolsLoaded \/ UNCHANGED allVars => UNCHANGED <<vars, reply>>
      BY DEF SymbolsLoaded, allVars, frontendVars
    <2> QED
      BY <1>2, <2>1, <2>2, <2>3, <2>4, <2>5, <2>6, <2>7
      DEF FrontendNext, HaltedNext, RunningFromCpu
  <1> QED
    BY <1>1, <1>2, FrontendInvariant, PTL DEF FrontendSpec
=============================================================================
