------------------------ MODULE FrontendView_proofs ------------------------
(***************************************************************************)
(* Proof that the front end implements DebugView: every step of Frontend   *)
(* is a step that the promise to a debugger allows, or changes nothing of  *)
(* what a debugger sees.                                                   *)
(***************************************************************************)
EXTENDS FrontendView, Frontend_proofs

(***************************************************************************)
(* What the promise needs beyond FrontendInv.  No context is read while    *)
(* the lists are walked, and no thread's context is too large.             *)
(***************************************************************************)
NoContextsYet == Updating => \A i \in 1 .. count : vector[i].context = NoContext

ContextsFit ==
  \A i \in 1 .. Len(vector) : ContextWords >= InRegisters(vector[i].body.fp)

ViewInv ==
  /\ pc # "crashed"
  /\ AllRead
  /\ NoContextsYet
  /\ ContextsFit

---------------------------------------------------------------------------
(* ViewInv is inductive.                                                   *)

LEMMA WhileUpdating ==
  ASSUME FrontendInv, Updating
  PROVE  is_scheduler_started_ /\ IInv /\ CollectionInv
  BY DEF FrontendInv, CollectionPart, EmptyCollection, Aborted, Updating

LEMMA SmallContextsFit == ContextWords >= InRegisters(FALSE)
  BY DEF ContextWords, InRegisters

LEMMA VisitView ==
  ASSUME Readable, FrontendInv, ViewInv, Visit
  PROVE  NoContextsYet' /\ ContextsFit'
  <1>1. IInv /\ CollectionInv /\ TypeOK /\ ThreadsTypeOK /\ Updating
    BY WhileUpdating DEF Visit, Updating, IInv, TypeOK
  <1>2. LinksIntact'
    BY <1>1, LinksStayIntact DEF Readable, CollectionInv, NoLinkFaults, Next, WalkStep
  <1>3. PICK t \in Thread : t = ThreadOf(Top.it)
    BY <1>1, <1>2, VisitedThread
  <1>4. PICK object \in ThreadObject : NewThread(object)
    BY <1>1, <1>3, VisitCollects
  <1>5. /\ count' = count + 1
        /\ vector'[count + 1] = object
        /\ \A i \in 1 .. count : vector'[i] = vector[i]
        /\ count \in Nat
    BY <1>1, <1>4, NewThreadProperties DEF ThreadsTypeOK
  <1>6. object.body = tcb[t]
    BY <1>1, <1>3, <1>5, VisitReadsAll DEF Readable
  <1>7. NoContextsYet'
    <2>1. vector'[count + 1].context = NoContext
      BY <1>1, NewHasNoContext
    <2> QED
      BY <1>1, <1>5, <2>1 DEF ViewInv, NoContextsYet
  <1>8. ContextWords >= InRegisters(object.body.fp)
    BY <1>1, <1>6 DEF Readable, TypeOK
  <1>9. \A i \in 1 .. Len(vector') :
          vector'[i] = object \/ (i \in 1 .. Len(vector) /\ vector'[i] = vector[i])
    BY <1>1, <1>4, <1>5 DEF NewThread, ThreadsTypeOK
  <1>10. ContextsFit'
    BY <1>8, <1>9 DEF ViewInv, ContextsFit
  <1> QED
    BY <1>7, <1>10

LEMMA NextView ==
  ASSUME Readable, FrontendInv, ViewInv, [FrontendNext]_allVars
  PROVE  ViewInv'
  <1>1. CASE UpdateContinues
    <2>1. Updating /\ WalkStep
      BY <1>1 DEF UpdateContinues, WalkStep, Visit, Exhausted, NextSibling,
                  WalkDone, UpdateCurrentThread, Updating
    <2>2. IInv /\ CollectionInv /\ LinksIntact
      BY <2>1, WhileUpdating DEF CollectionInv, NoLinkFaults, Readable
    <2>3. ~Exhausted
      BY <2>2, RoomForAll DEF Readable
    <2>4. AllRead'
      BY <2>1, NextAllRead DEF ViewInv, Next
    <2>5. CASE Visit
      BY <2>4, <2>5, VisitView DEF ViewInv, Visit
    <2>6. CASE ~Visit
      <3>1. vector' = vector /\ count' = count /\ pc' # "crashed"
        BY <2>1, <2>3, <2>6
        DEF WalkStep, NextSibling, WalkDone, UpdateCurrentThread, SetCurrent,
            threadsVars, Updating
      <3> QED
        BY <2>1, <2>4, <3>1 DEF ViewInv, NoContextsYet, ContextsFit
    <2> QED
      BY <2>5, <2>6
  <1>2. CASE UpdateStarted
    <2>1. AllRead'
      BY <1>2, NextAllRead DEF UpdateStarted, ViewInv, Next
    <2>2. vector' = vector /\ count' = 0 /\ pc' = "walk"
      BY <1>2 DEF UpdateStarted, UpdateThreads, Clear
    <2> QED
      BY <2>1, <2>2 DEF ViewInv, NoContextsYet, ContextsFit
  <1>3. CASE UpdateNotStarted
    BY <1>3
    DEF UpdateNotStarted, Clear, ViewInv, AllRead, NoContextsYet, ContextsFit,
        Updating
  <1>4. CASE \E tid \in QueryIds, inRange \in BOOLEAN : GetRegisters(tid, inRange)
    <2>1. PICK tid \in QueryIds, inRange \in BOOLEAN : GetRegisters(tid, inRange)
      BY <1>4
    <2>2. PICK p \in 1 .. Len(vector), read \in ContextReads(ThreadById(tid)) :
            /\ read.context \in Context
            /\ SetContext(p, read.context)
            /\ faults' = faults \cup Failed(read, "context")
      BY <2>1, GetRegistersFacts
    <2>3. ThreadsTypeOK
      BY DEF FrontendInv, FrontendTypeOK
    <2>4. /\ Len(vector') = Len(vector)
          /\ \A i \in 1 .. Len(vector) : vector'[i].body = vector[i].body
      BY <2>2, <2>3, SetContextFacts
    <2>5. pc = "idle" /\ pc' = pc
      BY <2>1 DEF GetRegisters
    <2> QED
      BY <2>2, <2>4, <2>5
      DEF ViewInv, AllRead, Failed, NoContextsYet, ContextsFit, Updating
  <1>5. CASE \E tid \in QueryIds : GetRegistersAborts(tid)
    BY <1>5
    DEF GetRegistersAborts, threadsVars, ViewInv, AllRead, NoContextsYet,
        ContextsFit, Updating
  <1>6. ASSUME UNCHANGED <<threadsVars, pc, faults>>
        PROVE  ViewInv'
    BY <1>6
    DEF threadsVars, ViewInv, AllRead, NoContextsYet, ContextsFit, Updating
  <1>7. TargetRunsAndHalts => UNCHANGED <<threadsVars, pc, faults>>
    BY DEF TargetRunsAndHalts, TargetRuns
  <1>8. \/ SymbolsLoaded \/ UpdateUnavailable \/ UNCHANGED allVars
        \/ \E tid \in QueryIds : GetRegistersFromCpu(tid) \/ SetRegisters(tid)
        => UNCHANGED <<threadsVars, pc, faults>>
    BY DEF SymbolsLoaded, UpdateUnavailable, GetRegistersFromCpu, SetRegisters,
           allVars, vars, walkVars
  <1> QED
    BY <1>1, <1>2, <1>3, <1>4, <1>5, <1>6, <1>7, <1>8
    DEF FrontendNext, HaltedNext

LEMMA InitView ==
  ASSUME FrontendInit
  PROVE  ViewInv
  BY DEF FrontendInit, Init, ThreadsInit, ViewInv, AllRead, NoContextsYet,
         ContextsFit, Updating

---------------------------------------------------------------------------
(* What a debugger sees of a state.                                        *)

\* The target as the debugger knows it, whatever the target holds.
LEMMA TargetIsTarget ==
  ASSUME Readable, NEW f \in Forests, NEW blocks \in Tcbs,
         NEW word \in CurrentWords, NEW flag \in BOOLEAN, NEW memory \in Stacks
  PROVE  [threads |-> {IdOf(t) : t \in Members(f)},
          running |-> IdOf(word),
          started |-> flag,
          saved |-> [id \in ThreadIds |-> memory[blocks[4 * id].sp]]]
           \in Promise!Target
  <1>1. {IdOf(t) : t \in Members(f)} \subseteq ThreadIds
    BY MembersAreThreads, RunTimeDataAssumption DEF ThreadIds
  <1>2. IdOf(word) \in ThreadIds
    BY DEF Readable, ThreadIds
  <1>3. ASSUME NEW id \in ThreadIds
        PROVE  memory[blocks[4 * id].sp] \in Context
    <2>1. PICK t \in Thread : id = IdOf(t)
      BY DEF ThreadIds
    <2>2. 4 * id = t
      BY <2>1, ThreadAddresses DEF IdOf, Addr
    <2>3. blocks[t].sp \in Addr
      BY RunTimeDataAssumption DEF Body
    <2> QED
      BY <2>2, <2>3, FrontendAssumption
  <1> QED
    BY <1>1, <1>2, <1>3 DEF Promise!Target

\* The saved registers of a thread are those on its stack.
LEMMA SavedOfThread ==
  ASSUME NEW t \in Thread
  PROVE  DebugTarget.saved[IdOf(t)] = stack[tcb[t].sp]
  <1>1. 4 * IdOf(t) = t
    BY ThreadAddresses DEF IdOf, Addr
  <1> QED
    BY <1>1 DEF DebugTarget, ThreadIds

\* The only position that a search can stop at.
LEMMA FirstOfOne ==
  ASSUME NEW n \in Nat, NEW S, S \subseteq 1 .. n, NEW p \in S,
         \A q \in S : q = p
  PROVE  FirstOf(S) = p
  BY FirstOfProperties

\* IDs in the collection are those of different threads.
LEMMA ListedThreads ==
  ASSUME IInv, CollectionInv, LinksIntact, NEW i \in 1 .. count
  PROVE  /\ vector[i].addr \in Thread
         /\ vector[i].id = IdOf(vector[i].addr)
         /\ vector[i].id \in ThreadIds
         /\ \A j \in 1 .. count : vector[j].id = vector[i].id => j = i
  <1>1. i \in 1 .. Len(vector) /\ \A j \in 1 .. count : j \in 1 .. Len(vector)
    BY DEF IInv, TypeOK, ThreadsTypeOK
  <1>2. \A j \in 1 .. count :
          vector[j].addr \in Thread /\ vector[j].id = IdOf(vector[j].addr)
    BY <1>1 DEF CollectionInv, IdsOfAddresses, ListedAreThreads, ListedAddrs
  <1>3. \A j \in 1 .. count : vector[j].id = vector[i].id => j = i
    BY <1>2, IdsDiffer DEF IInv, ListedOnce
  <1> QED
    BY <1>2, <1>3 DEF ThreadIds

\* The context shown of a listed ID is that of its object; of another, none.
LEMMA SeenOfListed ==
  ASSUME IInv, CollectionInv, LinksIntact, NEW i \in 1 .. count
  PROVE  SeenOf(vector[i].id) = vector[i].context
  <1> DEFINE S == {j \in 1 .. count : vector[j].id = vector[i].id}
  <1>1. count \in Nat
    BY DEF IInv, TypeOK, ThreadsTypeOK
  <1>2. \A j \in S : j = i
    BY ListedThreads
  <1>3. S \subseteq 1 .. count /\ i \in S
    OBVIOUS
  <1>4. FirstOf(S) = i
    <2> HIDE DEF S
    <2> QED
      BY <1>1, <1>2, <1>3, FirstOfOne
  <1> QED
    BY <1>4 DEF SeenOf

ListedIds == {vector[i].id : i \in 1 .. count}

LEMMA SeenOfUnlisted ==
  ASSUME NEW id, id \notin ListedIds
  PROVE  SeenOf(id) = NoContext
  <1>1. {j \in 1 .. count : vector[j].id = id} = {}
    BY DEF ListedIds
  <1> QED
    BY <1>1 DEF SeenOf, FirstOf

\* Between two updates the view is the collection.
Collected ==
  [threads |-> ListedIds,
   running |-> IF current # 0 THEN vector[current].id ELSE IdNone,
   seen |-> [id \in ThreadIds |-> SeenOf(id)]]

LEMMA ViewAtRest ==
  ThreadsTypeOK /\ NothingBeforeStart /\ ~Updating => DebuggerView = Collected
  <1> SUFFICES ASSUME ThreadsTypeOK, NothingBeforeStart, ~Updating
               PROVE  DebuggerView = Collected
    OBVIOUS
  <1>1. GetThreadsCount = count /\ count \in Nat
    BY DEF GetThreadsCount, NothingBeforeStart, ThreadsTypeOK
  <1>2. {GetThreadId(i) : i \in 0 .. GetThreadsCount - 1} = ListedIds
    <2>1. \A i \in 0 .. count - 1 : GetThreadId(i) \in ListedIds
      BY <1>1 DEF GetThreadId, ListedIds
    <2>2. ASSUME NEW i \in 1 .. count
          PROVE  \E j \in 0 .. count - 1 : vector[i].id = GetThreadId(j)
      <3>1. i - 1 \in 0 .. count - 1 /\ (i - 1) + 1 = i
        BY <1>1
      <3> QED
        BY <3>1 DEF GetThreadId
    <2> QED
      BY <1>1, <2>1, <2>2 DEF ListedIds
  <1>3. GetCurrentThreadId = IF current # 0 THEN vector[current].id ELSE IdNone
    BY DEF GetCurrentThreadId, NothingBeforeStart
  <1> QED
    BY <1>2, <1>3 DEF DebuggerView, Collected

LEMMA ViewAfterwards ==
  (ThreadsTypeOK /\ NothingBeforeStart /\ ~Updating => DebuggerView = Collected)'
  BY ViewAtRest, PTL

LEMMA ViewWhileUpdating == Updating => DebuggerView = Promise!Nothing
  BY DEF DebuggerView, Promise!Nothing

\* Nothing listed, nothing seen.
LEMMA ViewOfNothing ==
  ASSUME ThreadsTypeOK, NothingBeforeStart, count = 0, current = 0
  PROVE  DebuggerView = Promise!Nothing
  <1>1. CASE ~Updating
    <2>1. ListedIds = {}
      BY DEF ListedIds
    <2>2. \A id \in ThreadIds : SeenOf(id) = NoContext
      BY <2>1, SeenOfUnlisted
    <2> QED
      BY <1>1, <2>1, <2>2, ViewAtRest DEF Collected, Promise!Nothing
  <1> QED
    BY <1>1, ViewWhileUpdating

LEMMA SameView ==
  ASSUME UNCHANGED <<threadsVars, is_scheduler_started_>>, Updating' = Updating
  PROVE  DebuggerView' = DebuggerView
  <1>1. /\ vector' = vector /\ count' = count /\ current' = current
        /\ is_scheduler_started_' = is_scheduler_started_
    BY DEF threadsVars
  <1>2. \A id : SeenOf(id)' = SeenOf(id)
    BY <1>1 DEF SeenOf
  <1>3. GetThreadsCount' = GetThreadsCount /\ GetCurrentThreadId' = GetCurrentThreadId
    BY <1>1 DEF GetThreadsCount, GetCurrentThreadId
  <1>4. \A i : GetThreadId(i)' = GetThreadId(i)
    BY <1>1 DEF GetThreadId
  <1> QED
    BY <1>2, <1>3, <1>4 DEF DebuggerView

LEMMA SameTarget ==
  ASSUME UNCHANGED <<targetVars, started, stack>>
  PROVE  DebugTarget' = DebugTarget
  BY DEF targetVars, DebugTarget

---------------------------------------------------------------------------
(* The steps.                                                              *)

LEMMA RestsWithView ==
  ASSUME Readable, FrontendInv, ~Updating
  PROVE  ThreadsTypeOK /\ DebuggerView = Collected
  BY ViewAtRest DEF FrontendInv, FrontendTypeOK

LEMMA TargetRunsView ==
  ASSUME Readable, TargetRunsAndHalts
  PROVE  Promise!TargetRuns
  <1>1. /\ forest' \in Forests /\ tcb' \in Tcbs /\ currentWord' \in CurrentWords
        /\ started' \in BOOLEAN /\ stack' \in Stacks
        /\ pc = "idle" /\ pc' = pc /\ fresh' = FALSE /\ reply' = NoReply
        /\ UNCHANGED <<threadsVars, is_scheduler_started_>>
    BY DEF TargetRunsAndHalts, TargetRuns
  <1>2. DebugTarget' \in Promise!Target
    BY <1>1, TargetIsTarget DEF DebugTarget
  <1>3. Updating = FALSE /\ Updating' = FALSE
    BY <1>1 DEF Updating
  <1>4. DebuggerView' = DebuggerView
    BY <1>1, <1>3, SameView
  <1>5. DebugAnswer' = Promise!NoAnswer
    BY <1>1 DEF DebugAnswer, NoReply, Reply, Promise!NoAnswer
  <1> QED
    BY <1>1, <1>2, <1>3, <1>4, <1>5 DEF Promise!TargetRuns

LEMMA UpdateView ==
  ASSUME Readable, FrontendInv, UpdateStarted \/ UpdateNotStarted
  PROVE  Promise!BeginUpdate
  <1>1. /\ pc = "idle" /\ fresh' = TRUE /\ reply' = NoReply
        /\ count' = 0 /\ current' = 0 /\ vector' = vector
        /\ UNCHANGED <<targetVars, started, stack>>
    BY DEF UpdateStarted, UpdateNotStarted, UpdateThreads, Clear
  <1>2. DebugTarget' = DebugTarget
    BY <1>1, SameTarget
  <1>3. Updating = FALSE
    BY <1>1 DEF Updating
  <1>4. Updating' \in BOOLEAN /\ (Updating' => DebugTarget.started)
    <2>1. CASE UpdateStarted
      <3>1. started = TRUE
        BY <2>1 DEF UpdateStarted, StartedReads
      <3>2. DebugTarget.started = started
        BY DEF DebugTarget
      <3>3. Updating' \in BOOLEAN
        BY DEF Updating
      <3> QED
        BY <3>1, <3>2, <3>3
    <2>2. CASE UpdateNotStarted
      BY <2>2 DEF UpdateNotStarted, Updating
    <2> QED
      BY <2>1, <2>2
  <1>5. DebuggerView' = Promise!Nothing
    <2>1. CASE UpdateStarted
      <3>1. Updating'
        BY <2>1 DEF UpdateStarted, UpdateThreads, Updating
      <3> QED
        BY <3>1 DEF DebuggerView, Promise!Nothing
    <2>2. CASE UpdateNotStarted
      <3>1. /\ ~Updating' /\ GetThreadsCount' = 0 /\ GetCurrentThreadId' = IdNone
        BY <1>1, <2>2
        DEF UpdateNotStarted, Updating, GetThreadsCount, GetCurrentThreadId
      <3>2. \A id : SeenOf(id)' = NoContext
        BY <1>1 DEF SeenOf, FirstOf
      <3> QED
        BY <3>1, <3>2 DEF DebuggerView, Promise!Nothing
    <2> QED
      BY <2>1, <2>2
  <1>6. DebugAnswer' = Promise!NoAnswer
    BY <1>1 DEF DebugAnswer, NoReply, Reply, Promise!NoAnswer
  <1> QED
    BY <1>1, <1>2, <1>3, <1>4, <1>5, <1>6 DEF Promise!BeginUpdate

\* The end of an update shows the threads, and the one that runs.
LEMMA UpdateEndsView ==
  ASSUME Readable, FrontendInv, FrontendInv', ViewInv, UpdateContinues,
         UpdateCurrentThread
  PROVE  Promise!EndUpdate
  <1>1. /\ pc = "current" /\ pc' = "idle"
        /\ vector' = vector /\ count' = count
        /\ current' = ThreadByAddr(currentWord)
        /\ reply' = reply /\ fresh' = fresh
        /\ UNCHANGED <<targetVars, started, stack>>
    BY DEF UpdateCurrentThread, UpdateContinues, Readable, frontendVars, SetCurrent
  <1>2. Updating = TRUE /\ Updating' = FALSE
    BY <1>1 DEF Updating
  <1>3. /\ IInv /\ CollectionInv /\ LinksIntact /\ ListedAddrs = Members(forest)
        /\ TypeOK /\ ThreadsTypeOK
    BY <1>1, <1>2, WhileUpdating
    DEF CollectionInv, NoLinkFaults, Readable, IInv, TypeOK
  <1>4. DebugTarget' = DebugTarget /\ DebugAnswer' = DebugAnswer
    BY <1>1, SameTarget DEF DebugAnswer
  <1>5. DebuggerView' =
          [threads |-> ListedIds,
           running |-> IF current' # 0 THEN vector[current'].id ELSE IdNone,
           seen |-> [id \in ThreadIds |-> SeenOf(id)]]
    <2>1. ThreadsTypeOK' /\ NothingBeforeStart'
      BY DEF FrontendInv, FrontendTypeOK
    <2>2. \A id : SeenOf(id)' = SeenOf(id)
      BY <1>1 DEF SeenOf
    <2>3. ListedIds' = ListedIds
      BY <1>1 DEF ListedIds
    <2> QED
      BY <1>1, <1>2, <2>1, <2>2, <2>3, ViewAfterwards DEF Collected
  <1>6. \A id \in ThreadIds : SeenOf(id) = NoContext
    <2>1. \A i \in 1 .. count : SeenOf(vector[i].id) = NoContext
      BY <1>2, <1>3, SeenOfListed DEF ViewInv, NoContextsYet
    <2> QED
      BY <2>1, SeenOfUnlisted DEF ListedIds
  <1>7. ListedIds = {IdOf(t) : t \in Members(forest)}
    <2>1. \A i \in 1 .. count : vector[i].id = IdOf(vector[i].addr)
      BY <1>3, ListedThreads
    <2> QED
      BY <1>3, <2>1 DEF ListedIds, ListedAddrs
  <1> DEFINE S == {i \in 1 .. Len(vector) : vector[i].addr = currentWord}
  <1>8. Len(vector) \in Nat /\ S \subseteq 1 .. Len(vector) /\ current' = FirstOf(S)
    BY <1>1, <1>3 DEF ThreadsTypeOK, ThreadByAddr
  <1>9. current' # 0 => vector[current'].id = IdOf(currentWord)
    <2>1. current' # 0 => current' \in S
      BY <1>8, FirstOfProperties
    <2> QED
      BY <1>3, <2>1 DEF CollectionInv, IdsOfAddresses
  <1>10. IdOf(currentWord) \in ListedIds => current' # 0
    <2> SUFFICES ASSUME NEW i \in 1 .. count, vector[i].id = IdOf(currentWord)
                 PROVE  current' # 0
      BY DEF ListedIds
    <2>1. i \in 1 .. Len(vector)
      BY <1>3 DEF ThreadsTypeOK
    <2>2. currentWord \in Thread
      BY <1>3 DEF Readable, TypeOK
    <2>3. vector[i].addr = currentWord
      BY <1>3, <2>2, ListedThreads, IdsDiffer
    <2>4. FirstOf(S) \in S
      <3>1. S # {}
        BY <2>1, <2>3
      <3> QED
        BY <1>8, <3>1, FirstOfProperties
    <2> QED
      BY <1>8, <2>4
  <1>11. DebuggerView' \in Promise!Views
    <2> DEFINE v == DebuggerView'
    <2>1. v = [threads |-> v.threads, running |-> v.running, seen |-> v.seen]
      BY <1>5
    <2>2. v.threads = DebugTarget.threads
      BY <1>5, <1>7 DEF DebugTarget
    <2>3. v.running \in {DebugTarget.running, IdNone}
      BY <1>5, <1>9 DEF DebugTarget
    <2>4. v.seen = Promise!Nothing.seen
      BY <1>5, <1>6 DEF Promise!Nothing
    <2>5. DebugTarget.running \in DebugTarget.threads => v.running = DebugTarget.running
      BY <1>5, <1>7, <1>9, <1>10 DEF DebugTarget
    <2> HIDE DEF v
    <2>6. v \in Promise!Views
      BY <2>1, <2>2, <2>3, <2>4, <2>5 DEF Promise!Views
    <2> QED
      BY <2>6 DEF v
  <1> QED
    BY <1>1, <1>2, <1>4, <1>11 DEF Promise!EndUpdate

\* What a call that touches nothing of the collection leaves as it was.
LEMMA NothingTouched ==
  ASSUME UNCHANGED <<vars, started, stack, is_scheduler_started_>>
  PROVE  /\ DebugTarget' = DebugTarget
         /\ DebuggerView' = DebuggerView
         /\ Updating' = Updating
         /\ fresh' = fresh
  <1>1. /\ UNCHANGED <<threadsVars, is_scheduler_started_>>
        /\ UNCHANGED <<targetVars, started, stack>>
        /\ pc' = pc /\ fresh' = fresh
    BY DEF vars, walkVars
  <1>2. Updating' = Updating
    BY <1>1 DEF Updating
  <1> QED
    BY <1>1, <1>2, SameTarget, SameView

LEMMA FailedUpdateView ==
  ASSUME UpdateUnavailable
  PROVE  Promise!NothingDone
  <1>1. DebugAnswer' = Promise!NoAnswer
    BY DEF UpdateUnavailable, DebugAnswer, NoReply, Reply, Promise!NoAnswer
  <1> QED
    BY <1>1, NothingTouched DEF UpdateUnavailable, Updating, Promise!NothingDone

LEMMA SetRegistersView ==
  ASSUME NEW tid \in QueryIds, SetRegisters(tid)
  PROVE  Promise!NothingDone
  <1>1. reply'.call = "set"
    BY DEF SetRegisters, Reply
  <1>2. DebugAnswer' = Promise!NoAnswer
    BY <1>1 DEF DebugAnswer, Promise!NoAnswer
  <1> QED
    BY <1>2, NothingTouched DEF SetRegisters, Updating, Promise!NothingDone

\* A refusal is for the running thread, for nobody, or because nothing is shown.
LEMMA FromCpuView ==
  ASSUME Readable, FrontendInv, NEW tid \in QueryIds, GetRegistersFromCpu(tid)
  PROVE  Promise!AskRunning(tid)
  <1>1. ~Updating /\ AskCpu(tid)
    BY DEF GetRegistersFromCpu, Updating
  <1>2. reply' = Reply("get", tid, -1, NoContext, 0)
    BY DEF GetRegistersFromCpu
  <1>3. DebugAnswer' = Promise!Refused(tid)
    BY <1>2 DEF DebugAnswer, Reply, Promise!Refused
  <1>4. tid \in {DebuggerView.running, IdNone} \/ DebuggerView = Promise!Nothing
    <2>1. CASE ~is_scheduler_started_
      <3>1. ThreadsTypeOK /\ NothingBeforeStart /\ count = 0 /\ current = 0
        BY <2>1 DEF FrontendInv, FrontendTypeOK, NothingBeforeStart
      <3> QED
        BY <3>1, ViewOfNothing
    <2>2. CASE IsCurrent(tid)
      BY <1>1, <2>2, RestsWithView DEF Collected, IsCurrent
    <2> QED
      BY <1>1, <2>1, <2>2 DEF AskCpu
  <1> QED
    BY <1>1, <1>3, <1>4, NothingTouched
    DEF GetRegistersFromCpu, Promise!AskRunning

\* An assertion fails only for an ID that the debugger does not see.
LEMMA AbortView ==
  ASSUME Readable, FrontendInv, ViewInv, NEW tid \in QueryIds,
         GetRegistersAborts(tid)
  PROVE  Promise!AskUnlisted(tid)
  <1>1. /\ pc = "idle" /\ fresh' = fresh
        /\ reply' = Reply("abort", tid, 0, NoContext, 0)
        /\ UNCHANGED <<threadsVars, is_scheduler_started_>>
        /\ UNCHANGED <<targetVars, started, stack>>
    BY DEF GetRegistersAborts
  <1>2. Updating = FALSE /\ Updating' = FALSE
    <2>1. pc' \in Aborted
      BY DEF GetRegistersAborts, Aborted
    <2>2. pc \notin {"walk", "current"} /\ pc' \notin {"walk", "current"}
      BY <1>1, <2>1 DEF Aborted
    <2>3. (pc \in {"walk", "current"}) = FALSE
      BY <2>2
    <2>4. (pc' \in {"walk", "current"}) = FALSE
      BY <2>2
    <2> QED
      BY <2>3, <2>4 DEF Updating
  <1>3. DebugTarget' = DebugTarget /\ DebuggerView' = DebuggerView
    BY <1>1, <1>2, SameTarget, SameView
  <1>4. DebugAnswer' = Promise!Failed(tid)
    BY <1>1 DEF DebugAnswer, Reply, Promise!Failed
  <1>5. ThreadsTypeOK /\ DebuggerView = Collected
    BY <1>2, RestsWithView
  <1>6. tid \notin ListedIds
    <2> DEFINE S == {i \in 1 .. Len(vector) : vector[i].id = tid}
    <2>1. Len(vector) \in Nat /\ ThreadById(tid) = FirstOf(S)
      BY <1>5 DEF ThreadsTypeOK, ThreadById
    <2>2. ThreadById(tid) # 0 => ThreadById(tid) \in 1 .. Len(vector)
      BY <2>1, FirstOfProperties
    <2>3. ThreadById(tid) = 0
      <3>1. ThreadById(tid) # 0 =>
              ContextWords >= InRegisters(vector[ThreadById(tid)].body.fp)
        BY <2>2 DEF ViewInv, ContextsFit
      <3>2. ThreadById(tid) # 0 =>
              ContextWords < InRegisters(vector[ThreadById(tid)].body.fp)
        BY DEF GetRegistersAborts
      <3>3. \A fp : ContextWords \in Int /\ InRegisters(fp) \in Int
        BY DEF ContextWords, InRegisters
      <3> QED
        BY <3>1, <3>2, <3>3
    <2> QED
      BY <1>5, <2>3, NotFound DEF ListedIds
  <1> QED
    BY <1>1, <1>2, <1>3, <1>4, <1>5, <1>6 DEF Collected, Promise!AskUnlisted

\* An answered query keeps one context, and changes no other.
LEMMA AnswerView ==
  ASSUME Readable, FrontendInv, FrontendInv', ViewInv, NEW tid \in QueryIds,
         NEW inRange \in BOOLEAN, GetRegisters(tid, inRange)
  PROVE  Promise!AskListed(tid) \/ Promise!AskUnlisted(tid)
  <1>1. PICK p \in 1 .. Len(vector), read \in ContextReads(ThreadById(tid)) :
          /\ p = ThreadById(tid)
          /\ vector[p].id = tid
          /\ read.context \in Context
          /\ SetContext(p, read.context)
          /\ reply' = IF inRange
                      THEN Reply("get", tid, 0, read.context,
                                 vector[p].body.sp)
                      ELSE Reply("get", tid, -1, NoContext, 0)
    BY GetRegistersFacts
  <1>2. /\ is_scheduler_started_ /\ pc = "idle" /\ IInv /\ CollectionInv
        /\ ~IsCurrent(tid) /\ TypeOK /\ ThreadsTypeOK
    BY GetRegistersFacts DEF IInv, TypeOK
  <1>3. LinksIntact
    BY <1>2 DEF CollectionInv, NoLinkFaults, Readable
  <1>4. /\ UNCHANGED <<targetVars, started, stack>> /\ fresh' = fresh
        /\ pc' = pc /\ tid # IdNone
    BY DEF GetRegisters, AskCpu
  <1>5. Updating = FALSE /\ Updating' = FALSE
    BY <1>2, <1>4 DEF Updating
  <1>6. /\ Len(vector') = Len(vector) /\ count' = count /\ current' = current
        /\ \A i \in 1 .. Len(vector) :
             /\ vector'[i].id = vector[i].id
             /\ vector'[i].context = IF i = p THEN read.context
                                     ELSE vector[i].context
    BY <1>1, <1>2, SetContextFacts
  <1>7. \A i \in 1 .. count : i \in 1 .. Len(vector)
    BY <1>2 DEF ThreadsTypeOK
  <1>8. ListedIds' = ListedIds
    BY <1>6, <1>7 DEF ListedIds
  <1>9. DebugTarget' = DebugTarget
    BY <1>4, SameTarget
  <1>10. DebugAnswer' \in {Promise!Answer(tid, read.context), Promise!Refused(tid)}
    BY <1>1 DEF DebugAnswer, Reply, Promise!Answer, Promise!Refused
  <1>11. DebuggerView = Collected
    BY <1>5, RestsWithView
  <1>12. DebuggerView' = Collected'
    BY <1>5, ViewAfterwards DEF FrontendInv, FrontendTypeOK
  <1>13. Collected'.running = Collected.running
    <2>1. current \in 0 .. Len(vector)
      BY <1>2 DEF ThreadsTypeOK
    <2> QED
      BY <1>6, <2>1 DEF Collected
  <1>14. \A id : {j \in 1 .. count' : vector'[j].id = id}
                  = {j \in 1 .. count : vector[j].id = id}
    BY <1>6, <1>7
  <1>15. CASE p \in 1 .. count
    <2>1. /\ tid \in ListedIds /\ tid \in ThreadIds
          /\ SeenOf(tid) = vector[p].context
          /\ \A i \in 1 .. count : vector[i].id = tid => i = p
      BY <1>1, <1>2, <1>3, <1>15, ListedThreads, SeenOfListed DEF ListedIds
    <2>2. ASSUME NEW id \in ThreadIds
          PROVE  SeenOf(id)' = IF id = tid THEN read.context ELSE SeenOf(id)
      <3> DEFINE S == {j \in 1 .. count : vector[j].id = id}
      <3>1. S \subseteq 1 .. count /\ count \in Nat
        BY <1>2 DEF ThreadsTypeOK
      <3>2. FirstOf(S) # 0 => FirstOf(S) \in S
        BY <3>1, FirstOfProperties
      <3>3. SeenOf(id)' = IF FirstOf(S) = 0 THEN NoContext
                          ELSE vector'[FirstOf(S)].context
        BY <1>14 DEF SeenOf
      <3>4. SeenOf(id) = IF FirstOf(S) = 0 THEN NoContext
                         ELSE vector[FirstOf(S)].context
        BY DEF SeenOf
      <3>5. CASE id = tid
        <4>1. FirstOf(S) = p
          BY <1>15, <2>1, <3>1, <3>5, <1>1, FirstOfOne
        <4> QED
          BY <1>6, <3>3, <3>5, <4>1
      <3>6. CASE id # tid
        <4>1. p \notin S
          BY <1>1, <3>6
        <4> HIDE DEF S
        <4>2. FirstOf(S) # 0 =>
                /\ FirstOf(S) \in 1 .. Len(vector)
                /\ FirstOf(S) # p
          BY <1>7, <3>1, <3>2, <4>1
        <4> QED
          BY <1>6, <3>3, <3>4, <3>6, <4>2
      <3> QED
        BY <3>5, <3>6
    <2>3. Collected' = [Collected EXCEPT !.seen[tid] = read.context]
      <3>1. Collected'.seen = [Collected.seen EXCEPT ![tid] = read.context]
        BY <2>2 DEF Collected
      <3>2. Collected'.threads = Collected.threads
        BY <1>8 DEF Collected
      <3>3. /\ Collected' = [threads |-> Collected'.threads,
                             running |-> Collected'.running,
                             seen |-> Collected'.seen]
            /\ Collected = [threads |-> Collected.threads,
                            running |-> Collected.running,
                            seen |-> Collected.seen]
        BY DEF Collected
      <3> QED
        BY <1>13, <3>1, <3>2, <3>3
    <2>4. tid \in DebuggerView.threads \ {DebuggerView.running}
      BY <1>2, <1>4, <1>11, <2>1 DEF Collected, IsCurrent
    <2>5. DebuggerView.seen[tid] = vector[p].context
      BY <1>11, <2>1 DEF Collected
    <2>6. read.context \in Promise!Shown(tid)
      <3>1. CASE vector[p].context # NoContext
        BY <1>1, <2>5, <3>1 DEF ContextReads, Promise!Shown
      <3>2. CASE vector[p].context = NoContext /\ ~fresh
        BY <1>1, <2>5, <3>2 DEF Promise!Shown
      <3>3. CASE vector[p].context = NoContext /\ fresh
        <4>1. "tcb" \notin faults
          BY DEF ViewInv, AllRead, Readable
        <4>2. vector[p].body = tcb[vector[p].addr]
          BY <1>2, <1>3, <1>15, <3>3, <4>1 DEF CollectionInv, NoForeignData
        <4>3. vector[p].addr \in Thread /\ tid = IdOf(vector[p].addr)
          BY <1>1, <1>2, <1>3, <1>15, ListedThreads
        <4>4. DebugTarget.saved[tid] = stack[vector[p].body.sp]
          BY <4>2, <4>3, SavedOfThread
        <4>5. read.context \in {stack[vector[p].body.sp], Zeros}
          BY <1>1, <3>3 DEF ContextReads
        <4> QED
          BY <2>5, <3>3, <4>4, <4>5 DEF Promise!Shown
      <3> QED
        BY <3>1, <3>2, <3>3
    <2>7. Promise!AskListed(tid)
      BY <1>4, <1>5, <1>9, <1>10, <1>11, <1>12, <2>3, <2>4, <2>6
      DEF Promise!AskListed
    <2> QED
      BY <2>7
  <1>16. CASE p \notin 1 .. count
    <2>1. tid \notin ListedIds
      <3> SUFFICES ASSUME NEW i \in 1 .. count, vector[i].id = tid PROVE FALSE
        BY DEF ListedIds
      <3>1. ThreadById(tid) = i
        BY <1>2, <1>3, FoundById
      <3> QED
        BY <1>1, <1>16, <3>1
    <2>2. \A id : SeenOf(id)' = SeenOf(id)
      <3> TAKE id
      <3> DEFINE S == {j \in 1 .. count : vector[j].id = id}
      <3>1. S \subseteq 1 .. count /\ count \in Nat
        BY <1>2 DEF ThreadsTypeOK
      <3>2. FirstOf(S) # 0 => FirstOf(S) \in S
        BY <3>1, FirstOfProperties
      <3>3. SeenOf(id)' = IF FirstOf(S) = 0 THEN NoContext
                          ELSE vector'[FirstOf(S)].context
        BY <1>14 DEF SeenOf
      <3>4. SeenOf(id) = IF FirstOf(S) = 0 THEN NoContext
                         ELSE vector[FirstOf(S)].context
        BY DEF SeenOf
      <3> HIDE DEF S
      <3> QED
        BY <1>6, <1>7, <1>16, <3>1, <3>2, <3>3, <3>4
    <2>3. Collected' = Collected
      BY <1>8, <1>13, <2>2 DEF Collected
    <2>4. tid \notin DebuggerView.threads
      BY <1>11, <2>1 DEF Collected
    <2> QED
      BY <1>1, <1>4, <1>5, <1>9, <1>10, <1>11, <1>12, <2>3, <2>4
      DEF Promise!AskUnlisted
  <1> QED
    BY <1>15, <1>16

LEMMA NextPromise ==
  ASSUME Readable, FrontendInv, FrontendInv', ViewInv, [FrontendNext]_allVars
  PROVE  [Promise!DebugNext]_(Promise!viewVars)
  <1>1. CASE TargetRunsAndHalts
    BY <1>1, TargetRunsView DEF Promise!DebugNext
  <1>2. CASE UpdateStarted \/ UpdateNotStarted
    BY <1>2, UpdateView DEF Promise!DebugNext
  <1>3. CASE UpdateUnavailable
    BY <1>3, FailedUpdateView DEF Promise!DebugNext
  <1>4. CASE UpdateContinues
    <2>1. CASE UpdateCurrentThread
      BY <1>4, <2>1, UpdateEndsView DEF Promise!DebugNext
    <2>2. CASE ~UpdateCurrentThread
      <3>1. Updating /\ WalkStep
        BY <1>4, <2>2 DEF UpdateContinues, WalkStep, Visit, Exhausted,
                          NextSibling, WalkDone, Updating
      <3>2. ~Exhausted
        BY <3>1, WhileUpdating, RoomForAll
        DEF CollectionInv, NoLinkFaults, Readable
      <3>3. /\ Updating' /\ fresh' = fresh /\ reply' = reply
            /\ UNCHANGED <<targetVars, started, stack>>
        BY <1>4, <2>2, <3>1, <3>2
        DEF UpdateContinues, frontendVars, WalkStep, Visit, NextSibling, WalkDone,
            Updating
      <3>4. DebuggerView' = DebuggerView
        BY <3>1, <3>3 DEF DebuggerView
      <3>5. DebugTarget' = DebugTarget /\ DebugAnswer' = DebugAnswer
        BY <3>3, SameTarget DEF DebugAnswer
      <3>6. Updating' = Updating
        BY <3>1, <3>3 DEF Updating
      <3> QED
        BY <3>3, <3>4, <3>5, <3>6 DEF Promise!viewVars
    <2> QED
      BY <2>1, <2>2
  <1>5. CASE \E tid \in QueryIds : GetRegistersFromCpu(tid)
    BY <1>5, FromCpuView DEF Promise!DebugNext
  <1>6. CASE \E tid \in QueryIds, inRange \in BOOLEAN : GetRegisters(tid, inRange)
    BY <1>6, AnswerView DEF Promise!DebugNext
  <1>7. CASE \E tid \in QueryIds : GetRegistersAborts(tid)
    BY <1>7, AbortView DEF Promise!DebugNext
  <1>8. CASE \E tid \in QueryIds : SetRegisters(tid)
    BY <1>8, SetRegistersView DEF Promise!DebugNext
  <1>9. CASE SymbolsLoaded \/ UNCHANGED allVars
    <2>1. /\ UNCHANGED <<vars, started, stack, is_scheduler_started_>>
          /\ reply' = reply
      BY <1>9 DEF SymbolsLoaded, allVars, frontendVars
    <2> QED
      BY <2>1, NothingTouched DEF DebugAnswer, Promise!viewVars
  <1> QED
    BY <1>1, <1>2, <1>3, <1>4, <1>5, <1>6, <1>7, <1>8, <1>9
    DEF FrontendNext, HaltedNext

LEMMA InitPromise ==
  ASSUME Readable, FrontendInit, FrontendInv
  PROVE  Promise!DebugInit
  <1>1. /\ forest \in Forests /\ tcb \in Tcbs /\ currentWord \in CurrentWords
        /\ started \in BOOLEAN /\ stack \in Stacks
        /\ fresh = FALSE /\ pc = "idle" /\ reply = NoReply
        /\ count = 0 /\ current = 0
    BY DEF FrontendInit, Init, ThreadsInit
  <1>2. DebugTarget \in Promise!Target
    BY <1>1, TargetIsTarget DEF DebugTarget
  <1>3. DebuggerView = Promise!Nothing
    BY <1>1, ViewOfNothing DEF FrontendInv, FrontendTypeOK
  <1>4. Updating = FALSE
    BY <1>1 DEF Updating
  <1>5. DebugAnswer = Promise!NoAnswer
    BY <1>1 DEF DebugAnswer, NoReply, Reply, Promise!NoAnswer
  <1> QED
    BY <1>1, <1>2, <1>3, <1>4, <1>5 DEF Promise!DebugInit

(***************************************************************************)
(* Theorem.                                                                *)
(***************************************************************************)

\* The calls of frontend.h show a debugger a fixed view from one update to the
\* next, for any forests, stacks and sequences of calls: every behaviour of
\* the front end is one of the promise, under the mapping of FrontendView.
THEOREM FrontendKeepsPromise ==
  ASSUME Readable
  PROVE  FrontendSpec => ImplementsDebugView
  <1>1. FrontendInit => ViewInv /\ Promise!DebugInit
    BY InitFrontendInv, InitView, InitPromise
  <1>2. FrontendInv /\ ViewInv /\ [FrontendNext]_allVars => ViewInv'
    BY NextView
  <1>3. FrontendInv /\ FrontendInv' /\ ViewInv /\ [FrontendNext]_allVars =>
          [Promise!DebugNext]_(Promise!viewVars)
    BY NextPromise
  <1> QED
    BY <1>1, <1>2, <1>3, FrontendInvariant, PTL
    DEF FrontendSpec, ImplementsDebugView, Promise!DebugSpec
============================================================================
