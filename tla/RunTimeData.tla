---------------------------- MODULE RunTimeData ----------------------------
(***************************************************************************)
(* include/drtm/run-time-data.h: update_threads() walks the thread lists   *)
(* of the target and rebuilds the local collection of threads.             *)
(*                                                                         *)
(* The target is halted while update_threads() runs, and runs freely       *)
(* between two calls.  Each call of iterate_threads() is a stack frame     *)
(* with the owner of the list it iterates and its iterator; end is         *)
(* ListOf(ta).  Every read of the target may fail: a failed link read      *)
(* leaves the iterator 0, a failed read of a member leaves what the code   *)
(* had in the variable it reads into.                                      *)
(***************************************************************************)
EXTENDS TargetTree, Threads, FiniteSets

CONSTANTS
  Forests,        \* the thread lists the target may hold
  Tcbs,           \* the thread control blocks it may hold, by address
  CurrentWords,   \* the addresses its current_thread variable may hold
  TcbFaults,      \* sets of members of a control block whose read may fail
  LeftoverBytes,  \* what an incomplete read of a name may leave in b
  LinkFaults,     \* whether the read of a link may fail
  CurrentFaults,  \* whether the read of current_thread may fail
  JunkWords,      \* words at addresses that are not a link of a list
  JunkBody,       \* what is read as a control block where there is none
  MaxDepth,       \* frames of iterate_threads() the host stack has room for
  MaxObjects      \* thread objects the host heap has room for

\* The members of a control block that the walk reads.
TcbFields == {"name", "prio_assigned", "prio_inherited", "state", "sp", "exc"}

ASSUME RunTimeDataAssumption ==
  /\ \A f \in Forests : IsForest(f)
  /\ Tcbs \subseteq [Thread -> Body]
  /\ CurrentWords \subseteq Addr
  /\ TcbFaults \subseteq SUBSET TcbFields
  /\ LeftoverBytes \subseteq Byte
  /\ LinkFaults \in BOOLEAN
  /\ CurrentFaults \in BOOLEAN
  /\ JunkWords \subseteq Addr
  /\ JunkBody \in Body
  /\ MaxDepth \in Nat \ {0}
  /\ MaxObjects \in Nat

VARIABLES
  forest, tcb, currentWord,  \* the target's memory
  pc,      \* "idle", "walk", "current", or "crashed" when the host is
  frames,  \* the active calls of iterate_threads(), outermost first
  faults,  \* (history) kinds of reads that failed since the last clear()
  fresh    \* (history) the target did not run since then

targetVars == <<forest, tcb, currentWord>>
walkVars == <<pc, frames, faults, fresh>>
vars == <<targetVars, threadsVars, walkVars>>

Faults == {"link", "tcb", "current", "started", "context"}
Frame == [ta: Addr, it: Addr]
Top == frames[Len(frames)]

---------------------------------------------------------------------------
(* Reads of the target: the possible outcomes.                             *)

WordsAt(a) == LET links == LinkWords(forest, a)
              IN  IF links = {} THEN JunkWords ELSE links

\* The read of the link of a node.
LinkReads(node) ==
  [ok: {TRUE}, word: WordsAt(LinkOf(node))]
    \cup (IF LinkFaults THEN {[ok |-> FALSE, word |-> 0]} ELSE {})

\* Mutants: the children of every thread are those of the top list; the
\* iterator does not advance.
BeginAtTop(ta) == LinkReads(ListOf(0))
Stay(it) == [ok: {TRUE}, word: {it}]

\* children_threads_iter_begin(ta).
IterBegin(ta) == LinkReads(ListOf(ta))

\* children_threads_iter_next(it).
IterNext(it) == LinkReads(it)

TcbAt(ta) == IF ta \in Thread THEN tcb[ta] ELSE JunkBody

\* Mutant: the inherited priority is stored as the assigned one.
FillSwapped(old, m, bad, b, junk) ==
  [m EXCEPT !.prio_assigned = m.prio_inherited]

(***************************************************************************)
(* The members of an object when the reads of those in bad fail and the    *)
(* others are as in m.  The three bytes are read into one variable, which  *)
(* the loop over the name left at b: a byte that cannot be read is the     *)
(* last one that could.  A name or a stack pointer that cannot be read     *)
(* stays as it was; junk says what EXC_RETURN then looks like.  An         *)
(* EXC_RETURN that cannot be read is 0, which is not the FP pattern.  A    *)
(* name that breaks off is taken for the name: what there is, is its own.  *)
(***************************************************************************)
Fill(old, m, bad, b, junk) ==
  LET assigned == IF "prio_assigned" \in bad THEN b ELSE m.prio_assigned
      inherited == IF "prio_inherited" \in bad THEN assigned
                   ELSE m.prio_inherited
  IN  [name |-> IF "name" \in bad THEN old.name ELSE m.name,
       prio_assigned |-> assigned,
       prio_inherited |-> inherited,
       state |-> IF "state" \in bad THEN inherited ELSE m.state,
       sp |-> IF "sp" \in bad THEN old.sp ELSE m.sp,
       fp |-> IF "exc" \in bad THEN FALSE
              ELSE IF "sp" \in bad THEN junk ELSE m.fp]

\* The outcomes of filling an object from the control block at ta.
BodyReads(object, ta) ==
  {[ok |-> bad = {}, body |-> Fill(object.body, TcbAt(ta), bad, b, junk)] :
     bad \in TcbFaults, b \in LeftoverBytes, junk \in BOOLEAN}

Failed(read, kind) == IF read.ok THEN {} ELSE {kind}

\* The calls left when the innermost one returns and its caller goes on at it.
Resumed(calls, it) ==
  LET n == Len(calls) - 1
  IN  [SubSeq(calls, 1, n) EXCEPT ![n].it = it]

---------------------------------------------------------------------------
(* Steps.                                                                  *)

\* The target runs: threads come, go, change state, and are scheduled.
TargetRuns ==
  /\ pc = "idle"
  /\ forest' \in Forests
  /\ tcb' \in Tcbs
  /\ currentWord' \in CurrentWords
  /\ fresh' = FALSE
  /\ UNCHANGED <<threadsVars, pc, frames, faults>>

\* update_threads() clears the collection and enters iterate_threads(0, 0).
UpdateThreads ==
  /\ pc = "idle"
  /\ pc' = "walk"
  /\ Clear
  /\ fresh' = TRUE
  /\ \E begin \in IterBegin(0) :
       /\ frames' = <<[ta |-> 0, it |-> begin.word]>>
       /\ faults' = Failed(begin, "link")
  /\ UNCHANGED targetVars

\* One turn of the loop, down to the begin() of the recursive call.
Visit ==
  /\ pc = "walk"
  /\ Top.it # ListOf(Top.ta)
  /\ Len(frames) < MaxDepth
  /\ count < MaxObjects
  /\ LET ta == ThreadOf(Top.it)
         th == WithAddr(NewObject, ta)
     IN  \E m \in BodyReads(th, ta), begin \in IterBegin(ta) :
           /\ NewThread([th EXCEPT !.body = m.body])
           /\ frames' = Append(frames, [ta |-> ta, it |-> begin.word])
           /\ faults' = faults \cup Failed(m, "tcb") \cup Failed(begin, "link")
  /\ UNCHANGED <<targetVars, pc, fresh>>

\* A turn for which the host has no stack or no heap left.
Exhausted ==
  /\ pc = "walk"
  /\ Top.it # ListOf(Top.ta)
  /\ Len(frames) = MaxDepth \/ count = MaxObjects
  /\ pc' = "crashed"
  /\ UNCHANGED <<targetVars, threadsVars, frames, faults, fresh>>

\* The loop ends; the caller advances its iterator.
NextSibling ==
  /\ pc = "walk"
  /\ Top.it = ListOf(Top.ta)
  /\ Len(frames) > 1
  /\ LET n == Len(frames) - 1
     IN  \E next \in IterNext(frames[n].it) :
           /\ frames' = Resumed(frames, next.word)
           /\ faults' = faults \cup Failed(next, "link")
  /\ UNCHANGED <<targetVars, threadsVars, pc, fresh>>

\* The outermost loop ends.
WalkDone ==
  /\ pc = "walk"
  /\ Top.it = ListOf(Top.ta)
  /\ Len(frames) = 1
  /\ pc' = "current"
  /\ frames' = <<>>
  /\ UNCHANGED <<targetVars, threadsVars, faults, fresh>>

\* Mutant: the search for the current thread is repeated until it is found.
UpdateUntilFound ==
  /\ pc = "current"
  /\ IF ThreadByAddr(currentWord) = 0 THEN UNCHANGED vars
     ELSE /\ pc' = "idle"
          /\ SetCurrent(ThreadByAddr(currentWord))
          /\ UNCHANGED <<targetVars, frames, faults, fresh>>

\* update_current_thread(), and the return of update_threads().
UpdateCurrentThread ==
  /\ pc = "current"
  /\ pc' = "idle"
  /\ \/ /\ SetCurrent(ThreadByAddr(currentWord))
        /\ UNCHANGED faults
     \/ /\ CurrentFaults
        /\ faults' = faults \cup {"current"}
        /\ UNCHANGED threadsVars
  /\ UNCHANGED <<targetVars, frames, fresh>>

---------------------------------------------------------------------------
Init ==
  /\ ThreadsInit
  /\ forest \in Forests
  /\ tcb \in Tcbs
  /\ currentWord \in CurrentWords
  /\ pc = "idle"
  /\ frames = <<>>
  /\ faults = {}
  /\ fresh = FALSE

\* The steps of a call of update_threads() that has begun.
WalkStep == Visit \/ Exhausted \/ NextSibling \/ WalkDone \/ UpdateCurrentThread

Next == TargetRuns \/ UpdateThreads \/ WalkStep

\* Nothing makes the debugger ask for an update, but once asked the plug-in,
\* which has the only thread of control, runs to its end.
Fairness == WF_vars(WalkStep)

Spec == Init /\ [][Next]_vars /\ Fairness

---------------------------------------------------------------------------
(* Properties.                                                             *)

TypeOK ==
  /\ ThreadsTypeOK
  /\ forest \in Forests
  /\ tcb \in Tcbs
  /\ currentWord \in CurrentWords
  /\ pc \in {"idle", "walk", "current", "crashed"}
  /\ frames \in Seq(Frame)
  /\ (pc = "walk") => frames # <<>>
  /\ faults \subseteq Faults
  /\ fresh \in BOOLEAN

\* Every link was read since the collection was cleared.
LinksIntact == "link" \notin faults

\* The collection is the result of a finished update, for the memory that
\* the target still has.
UpToDate == pc = "idle" /\ fresh /\ LinksIntact

\* No iterator ever leaves the circle of nodes it walks: each is a node of
\* the list it iterates, or its end, whatever was visited below it.
IteratorsOnList ==
  LinksIntact =>
    \A k \in 1 .. Len(frames) :
      \E i \in 0 .. Len(forest[frames[k].ta]) :
        frames[k].it = NodeAt(forest, frames[k].ta, i)

\* No thread is listed twice, during the walk and after it, although the
\* objects of earlier, longer lists are still in the vector.
ListedOnce ==
  LinksIntact =>
    \A i, j \in 1 .. count : vector[i].addr = vector[j].addr => i = j

\* A finished update lists exactly the threads of the target: the recursion
\* misses no branch and invents no thread.
SnapshotComplete == UpToDate => ListedAddrs = Members(forest)

\* What is shown of a listed thread is its own: a member whose read failed
\* never shows what a reused object held for another thread.  The layout with
\* FP registers is not taken for a thread without them, unless its SP could
\* not be read either and EXC_RETURN was looked for at a wrong address.
NoForeignData ==
  fresh /\ LinksIntact =>
    \A i \in 1 .. count :
      LET own == tcb[vector[i].addr]
          shown == vector[i].body
          bytes == LeftoverBytes \cup {own.prio_assigned, own.prio_inherited}
      IN  /\ "tcb" \notin faults => shown = own
          /\ shown.name \in {NoName, own.name}
          /\ shown.prio_assigned \in bytes
          /\ shown.prio_inherited \in bytes
          /\ shown.state \in bytes \cup {own.state}
          /\ shown.sp \in {0, own.sp}
          /\ shown.fp => own.fp \/ shown.sp = 0

\* The current object is that of the thread which the target says is running:
\* no other thread is ever taken for it.  When that thread is in the lists, the
\* object is its listed one, not a stale one with its address; when it is not,
\* the object is none or a stale one of that very thread.
CurrentCorrect ==
  UpToDate /\ "current" \notin faults =>
    /\ current # 0 => vector[current].addr = currentWord
    /\ currentWord \in Members(forest) => current \in 1 .. count

\* When the current thread cannot be read none is current: not the one of an
\* earlier update.
NoOldCurrent == "current" \in faults => current = 0

\* A listed thread is found by its ID, at its own listed object.
LookupFindsListed ==
  LinksIntact =>
    \A i \in 1 .. count : ThreadById(vector[i].id) = i

\* The recursion of the walk is as deep as the tree of threads at most, and
\* it makes no more objects than there are threads: a host with room for the
\* target's threads runs out of room only after a link could not be read.
Bounded == pc = "crashed" => ~LinksIntact

\* An update that has begun returns: the recursion and the search end.
UpdateReturns == pc \in {"walk", "current"} ~> pc = "idle"

\* Objects are reused from one update to the next: however many updates,
\* there are never more than the target has threads.
PoolBounded == ~LinkFaults => Len(vector) <= Cardinality(Thread)

(***************************************************************************)
(* The inductive invariant behind ListedOnce and SnapshotComplete.  While  *)
(* all links can be read, the frames are a path from the top list down.    *)
(* The iterator of a frame has a position in its list: what comes before   *)
(* is listed, what comes after is not, and the thread there is listed when *)
(* it is the owner of the next frame's list.  A thread is listed after its *)
(* parent, and once its frame is gone all its children are listed.         *)
(***************************************************************************)
AtPosition(k, i) ==
  LET list == forest[frames[k].ta]
      below == k < Len(frames)
  IN  /\ frames[k].it = NodeAt(forest, frames[k].ta, i)
      /\ \A j \in 1 .. Len(list) :
           list[j] \in ListedAddrs <=> j < i \/ (below /\ j = i)
      /\ below => i <= Len(list) /\ list[i] = frames[k + 1].ta

FramesInv ==
  /\ frames[1].ta = 0
  /\ \A k, m \in 1 .. Len(frames) : frames[k].ta = frames[m].ta => k = m
  /\ \A k \in 1 .. Len(frames) :
       /\ frames[k].ta \in {0} \cup ListedAddrs
       /\ \E i \in 1 .. Len(forest[frames[k].ta]) + 1 : AtPosition(k, i)

ParentsFirst ==
  \A p \in Thread \ ListedAddrs : Children(forest, p) \cap ListedAddrs = {}

BranchesDone ==
  \A p \in ListedAddrs :
    \/ \E k \in 1 .. Len(frames) : frames[k].ta = p
    \/ Children(forest, p) \subseteq ListedAddrs

WalkInv ==
  /\ FramesInv
  /\ ListedAddrs \subseteq Members(forest)
  /\ ParentsFirst
  /\ BranchesDone

IInv ==
  /\ TypeOK
  /\ pc \in {"idle", "current"} => frames = <<>>
  /\ ListedOnce
  /\ LinksIntact =>
       /\ pc \in {"walk", "crashed"} => WalkInv
       /\ pc = "current" => ListedAddrs = Members(forest)
  /\ SnapshotComplete
============================================================================
