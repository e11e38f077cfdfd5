------------------------- MODULE RunTimeData_proofs -------------------------
(***************************************************************************)
(* Proofs about update_threads(), for any layout of the target's memory,   *)
(* any number of threads, any lists they may form, and any read failing:   *)
(* the lemmas about the lists of the target and about the collection, the  *)
(* type invariant, and that IInv is an inductive invariant, so that a      *)
(* finished update lists exactly the threads of the target, each once;     *)
(* then what the collection says of the target, whatever is stale in it.   *)
(***************************************************************************)
EXTENDS RunTimeData, FiniteSetTheorems, SequenceTheorems,
        WellFoundedInduction, TLAPS

---------------------------------------------------------------------------
(* The lists of a target: what a link holds, where a list ends.            *)

\* No address computation on a thread wraps around, and get() inverts the
\* computation of a thread's node.
LEMMA ThreadAddresses ==
  ASSUME NEW t \in Thread
  PROVE  /\ t \in Addr \ {0}
         /\ t % 4 = 0
         /\ NodeOf(t) = t + ListNodeOffset
         /\ NodeOf(t) \in Addr
         /\ ListOf(t) = t + ChildrenNodeOffset
         /\ ListOf(t) \in Addr
         /\ ThreadOf(NodeOf(t)) = t
         /\ LinkOf(NodeOf(t)) = t + ListNodeOffset + NextOffset
         /\ LinkOf(ListOf(t)) = t + ChildrenNodeOffset + NextOffset
  BY LayoutAssumption, AddrSpaceAssumption
  DEF Addr, NodeOf, ListOf, ThreadOf, LinkOf, Wrap

\* The head of the top list.
LEMMA TopAddresses ==
  /\ ListOf(0) = TopThreadsList
  /\ ListOf(0) \in Addr
  /\ LinkOf(ListOf(0)) = TopThreadsList + NextOffset
  BY LayoutAssumption, AddrSpaceAssumption DEF Addr, ListOf, LinkOf, Wrap

LEMMA LayoutNats ==
  /\ ListNodeOffset \in Nat /\ ChildrenNodeOffset \in Nat /\ NextOffset \in Nat
  /\ TopThreadsList \in Nat
  /\ 0 \notin Thread
  BY LayoutAssumption, AddrSpaceAssumption DEF Addr

\* The address arithmetic wraps around into the address space.
LEMMA ThreadOfInAddr ==
  ASSUME NEW it \in Addr
  PROVE  ThreadOf(it) \in Addr
  BY LayoutAssumption, AddrSpaceAssumption DEF Addr, ThreadOf, Wrap

\* The heads and the nodes of threads are all at different addresses.
LEMMA HeadsDiffer ==
  ASSUME NEW p \in Owner, NEW q \in Owner, ListOf(p) = ListOf(q)
  PROVE  p = q
  <1>1. CASE p = 0 /\ q = 0
    BY <1>1
  <1>2. CASE p \in Thread /\ q \in Thread
    BY <1>2, ThreadAddresses, LayoutNats DEF Addr
  <1>3. CASE p = 0 /\ q \in Thread
    BY <1>3, ThreadAddresses, TopAddresses, LayoutAssumption
  <1>4. CASE p \in Thread /\ q = 0
    BY <1>4, ThreadAddresses, TopAddresses, LayoutAssumption
  <1> QED
    BY <1>1, <1>2, <1>3, <1>4 DEF Owner

LEMMA NodesDiffer ==
  ASSUME NEW t \in Thread, NEW u \in Thread, NodeOf(t) = NodeOf(u)
  PROVE  t = u
  BY ThreadAddresses, LayoutNats DEF Addr

LEMMA NodeIsNoHead ==
  ASSUME NEW t \in Thread, NEW p \in Owner
  PROVE  NodeOf(t) # ListOf(p)
  <1>1. CASE p = 0
    BY <1>1, ThreadAddresses, TopAddresses, LayoutAssumption
  <1>2. CASE p \in Thread
    BY <1>2, ThreadAddresses, LayoutAssumption
  <1> QED
    BY <1>1, <1>2 DEF Owner

---------------------------------------------------------------------------
(* Forests.                                                                *)

LEMMA ForestTypes ==
  ASSUME NEW f, IsForest(f), NEW p \in Owner
  PROVE  /\ f[p] \in Seq(Thread)
         /\ Len(f[p]) \in Nat
         /\ \A i \in 1 .. Len(f[p]) : f[p][i] \in Thread
  BY DEF IsForest

\* Every node of a circle is the head or the node of a thread.
LEMMA NodeAtCases ==
  ASSUME NEW f, IsForest(f), NEW p \in Owner, NEW i \in Nat
  PROVE  /\ i \in 1 .. Len(f[p]) => /\ f[p][i] \in Thread
                                    /\ NodeAt(f, p, i) = NodeOf(f[p][i])
         /\ i \notin 1 .. Len(f[p]) => NodeAt(f, p, i) = ListOf(p)
         /\ NodeAt(f, p, i) \in Addr
  <1>1. CASE i \in 1 .. Len(f[p])
    BY <1>1, ForestTypes, ThreadAddresses DEF NodeAt
  <1>2. CASE i \notin 1 .. Len(f[p])
    BY <1>2, ThreadAddresses, TopAddresses DEF NodeAt, Owner
  <1> QED
    BY <1>1, <1>2

\* A circle ends at the position after the last element, and nowhere before.
LEMMA EndOfList ==
  ASSUME NEW f, IsForest(f), NEW p \in Owner, NEW i \in 1 .. Len(f[p]) + 1
  PROVE  NodeAt(f, p, i) = ListOf(p) <=> i = Len(f[p]) + 1
  <1>1. Len(f[p]) \in Nat
    BY ForestTypes
  <1>2. CASE i \in 1 .. Len(f[p])
    BY <1>1, <1>2, NodeAtCases, NodeIsNoHead
  <1>3. CASE i = Len(f[p]) + 1
    BY <1>1, <1>3, NodeAtCases
  <1> QED
    BY <1>1, <1>2, <1>3

\* The address of the link of a node does not wrap around either.
LEMMA NodeLink ==
  ASSUME NEW f, IsForest(f), NEW p \in Owner, NEW i \in Nat
  PROVE  /\ NodeAt(f, p, i) \in Nat
         /\ LinkOf(NodeAt(f, p, i)) = NodeAt(f, p, i) + NextOffset
  <1> DEFINE Linked(node) == /\ node \in Nat
                             /\ LinkOf(node) = node + NextOffset
  <1>1. \A t \in Thread : Linked(NodeOf(t)) /\ Linked(ListOf(t))
    <2> TAKE t \in Thread
    <2>1. NodeOf(t) = t + ListNodeOffset /\ ListOf(t) = t + ChildrenNodeOffset
      BY ThreadAddresses
    <2>2. /\ LinkOf(NodeOf(t)) = t + ListNodeOffset + NextOffset
          /\ LinkOf(ListOf(t)) = t + ChildrenNodeOffset + NextOffset
          /\ t \in Nat
      BY ThreadAddresses, AddrSpaceAssumption DEF Addr
    <2> QED
      BY <2>1, <2>2, LayoutNats
  <1>2. Linked(ListOf(0))
    BY TopAddresses, LayoutNats
  <1>3. CASE i \in 1 .. Len(f[p])
    BY <1>1, <1>3, NodeAtCases
  <1>4. CASE i \notin 1 .. Len(f[p])
    BY <1>1, <1>2, <1>4, NodeAtCases DEF Owner
  <1> QED
    BY <1>3, <1>4

\* Two nodes with the same link address are the same position of one circle.
LEMMA LinksDiffer ==
  ASSUME NEW f, IsForest(f), NEW p \in Owner, NEW q \in Owner,
         NEW i \in 0 .. Len(f[p]), NEW j \in 0 .. Len(f[q]),
         LinkOf(NodeAt(f, p, i)) = LinkOf(NodeAt(f, q, j))
  PROVE  p = q /\ i = j
  <1>0. Len(f[p]) \in Nat /\ Len(f[q]) \in Nat
    BY ForestTypes
  <1>1. NodeAt(f, p, i) = NodeAt(f, q, j)
    BY <1>0, NodeLink, LayoutNats
  <1>2. CASE i = 0 /\ j = 0
    BY <1>0, <1>1, <1>2, NodeAtCases, HeadsDiffer
  <1>3. CASE i > 0 /\ j > 0
    <2>1. f[p][i] = f[q][j]
      BY <1>0, <1>1, <1>3, NodeAtCases, NodesDiffer
    <2> QED
      BY <1>0, <1>3, <2>1 DEF IsForest, NoSharing
  <1>4. CASE i = 0 /\ j > 0
    BY <1>0, <1>1, <1>4, NodeAtCases, NodeIsNoHead
  <1>5. CASE i > 0 /\ j = 0
    BY <1>0, <1>1, <1>5, NodeAtCases, NodeIsNoHead
  <1> QED
    BY <1>0, <1>2, <1>3, <1>4, <1>5

\* The link of a node holds the address of the next node of its circle, and
\* nothing else.
LEMMA LinkIsNext ==
  ASSUME NEW f, IsForest(f), NEW p \in Owner, NEW i \in 0 .. Len(f[p])
  PROVE  LinkWords(f, LinkOf(NodeAt(f, p, i))) = {NodeAt(f, p, i + 1)}
  <1>1. \A q \in Owner : \A j \in 0 .. Len(f[q]) :
          LinkOf(NodeAt(f, q, j)) = LinkOf(NodeAt(f, p, i)) => q = p /\ j = i
    BY LinksDiffer
  <1> QED
    BY <1>1 DEF LinkWords

\* All words that links hold are addresses.
LEMMA LinkWordsInAddr ==
  ASSUME NEW f, IsForest(f), NEW a
  PROVE  LinkWords(f, a) \subseteq Addr
  <1>1. \A q \in Owner : \A j \in 0 .. Len(f[q]) : NodeAt(f, q, j + 1) \in Addr
    BY ForestTypes, NodeAtCases
  <1> QED
    BY <1>1 DEF LinkWords

\* A thread has one place in a forest, and that is not in its own list.
LEMMA OnePlace ==
  ASSUME NEW f, IsForest(f), NEW p \in Owner, NEW q \in Owner,
         NEW i \in 1 .. Len(f[p]), NEW j \in 1 .. Len(f[q]),
         f[p][i] = f[q][j]
  PROVE  p = q /\ i = j
  BY DEF IsForest, NoSharing

\* A set of threads that has the top threads, and with a thread its children,
\* has them all.
LEMMA RootedInduction ==
  ASSUME NEW f, IsForest(f), NEW S, S \subseteq Members(f),
         Children(f, 0) \subseteq S,
         \A p \in S : Children(f, p) \subseteq S
  PROVE  S = Members(f)
  BY DEF IsForest, Rooted

---------------------------------------------------------------------------
(* The collection: where its searches stop, and its operations.            *)

\* A first-match loop stops at the first match, and nowhere without one.
LEMMA FirstOfProperties ==
  ASSUME NEW n \in Nat, NEW S, S \subseteq 1 .. n
  PROVE  /\ FirstOf(S) \in 0 .. n
         /\ S = {} => FirstOf(S) = 0
         /\ S # {} => /\ FirstOf(S) \in S
                      /\ \A i \in S : FirstOf(S) <= i
  <1>1. CASE S = {}
    BY <1>1 DEF FirstOf
  <1>2. CASE S # {}
    <2> DEFINE Less == {ss \in Nat \X Nat : ss[1] < ss[2]}
    <2>0. IsWellFoundedOn(Less, Nat)
      BY NatLessThanWellFounded DEF OpToRel
    <2> HIDE DEF Less
    <2>1. \A i \in S : i \in Nat /\ i \in 1 .. n
      OBVIOUS
    <2>2. \E m \in S : \A i \in S : ~(<<i, m>> \in Less)
      <3>1. S \subseteq Nat
        BY <2>1
      <3> QED
        BY <1>2, <2>0, <3>1, WFMin
    <2>3. PICK m \in S : \A i \in S : <<i, m>> \notin Less
      BY <2>2
    <2>4. \A i \in S : m <= i
      <3> SUFFICES ASSUME NEW i \in S PROVE m <= i
        OBVIOUS
      <3>1. <<i, m>> \in Nat \X Nat
        BY <2>1
      <3>2. ~(i < m)
        BY <2>3, <3>1 DEF Less
      <3> QED
        BY <2>1, <3>2
    <2>5. FirstOf(S) \in S /\ \A i \in S : FirstOf(S) <= i
      <3>1. FirstOf(S) = CHOOSE x \in S : \A y \in S : x =< y
        BY <1>2 DEF FirstOf, Min
      <3> QED
        BY <2>4, <3>1
    <2>6. FirstOf(S) \in 0 .. n
      <3>1. \A i \in S : i \in 0 .. n
        OBVIOUS
      <3> QED
        BY <2>5, <3>1, Zenon
    <2> QED
      BY <1>2, <2>5, <2>6
  <1> QED
    BY <1>1, <1>2

---------------------------------------------------------------------------
(* Operations.                                                             *)

\* A cleared object, which is what new_thread() starts from.
LEMMA NewObjectType ==
  /\ NewObject = ClearedThread
  /\ NewObject \in ThreadObject
  <1>1. NewObject = ClearedThread
    BY DEF NewObject, Cleared
  <1>2. ClearedBody \in Body
    BY AddrSpaceAssumption DEF ClearedBody, Body, Addr, Byte
  <1> QED
    BY <1>1, <1>2, AddrSpaceAssumption DEF ClearedThread, ThreadObject, Addr

LEMMA WithAddrType ==
  ASSUME NEW object \in ThreadObject, NEW a \in Addr
  PROVE  /\ WithAddr(object, a) \in ThreadObject
         /\ WithAddr(object, a).addr = a
         /\ WithAddr(object, a).body = object.body
  <1>1. a \div 4 \in Nat
    BY AddrSpaceAssumption DEF Addr
  <1> QED
    BY <1>1 DEF WithAddr, IdOf, ThreadObject

\* The new object is the last one of the collection; the ones before it stay.
LEMMA NewThreadProperties ==
  ASSUME ThreadsTypeOK, NEW object \in ThreadObject, NewThread(object)
  PROVE  /\ ThreadsTypeOK'
         /\ count' = count + 1
         /\ vector'[count + 1] = object
         /\ \A i \in 1 .. count : vector'[i] = vector[i]
         /\ ListedAddrs' = ListedAddrs \cup {object.addr}
  <1> USE DEF ThreadsTypeOK
  <1>1. count \in Nat /\ Len(vector) \in Nat
    OBVIOUS
  <1>2. CASE count < Len(vector)
    <2>1. vector' = [vector EXCEPT ![count + 1] = object]
      BY <1>2 DEF NewThread
    <2> QED
      BY <1>1, <1>2, <2>1 DEF NewThread, ListedAddrs
  <1>3. CASE count = Len(vector)
    <2>1. vector' = Append(vector, object)
      BY <1>1, <1>3 DEF NewThread
    <2> QED
      BY <1>1, <1>3, <2>1 DEF NewThread, ListedAddrs
  <1> QED
    BY <1>1, <1>2, <1>3

LEMMA ClearProperties ==
  ASSUME ThreadsTypeOK, Clear
  PROVE  ThreadsTypeOK' /\ count' = 0 /\ ListedAddrs' = {}
  BY DEF ThreadsTypeOK, Clear, ListedAddrs

\* A search by address returns an object of the vector, or the null pointer.
LEMMA ThreadByAddrRange ==
  ASSUME ThreadsTypeOK, NEW a
  PROVE  ThreadByAddr(a) \in 0 .. Len(vector)
  <1>1. {i \in 1 .. Len(vector) : vector[i].addr = a} \subseteq 1 .. Len(vector)
    OBVIOUS
  <1>2. Len(vector) \in Nat
    BY DEF ThreadsTypeOK
  <1> QED
    BY <1>1, <1>2, FirstOfProperties DEF ThreadByAddr

---------------------------------------------------------------------------
(* Reads.                                                                  *)

LEMMA ForestIsForest ==
  ASSUME forest \in Forests
  PROVE  IsForest(forest)
  BY RunTimeDataAssumption

LEMMA LinkReadsType ==
  ASSUME forest \in Forests, NEW node, NEW read \in LinkReads(node)
  PROVE  read.ok \in BOOLEAN /\ read.word \in Addr
  <1>1. WordsAt(LinkOf(node)) \subseteq Addr
    BY ForestIsForest, LinkWordsInAddr, RunTimeDataAssumption DEF WordsAt
  <1>2. 0 \in Addr
    BY AddrSpaceAssumption DEF Addr
  <1>3. CASE read \in [ok: {TRUE}, word: WordsAt(LinkOf(node))]
    BY <1>1, <1>3
  <1>4. CASE read \in {[ok |-> FALSE, word |-> 0]}
    <2>1. read = [ok |-> FALSE, word |-> 0]
      BY <1>4
    <2>2. read.ok = FALSE
      BY <2>1, Zenon
    <2> QED
      BY <1>2, <2>1, <2>2
  <1>5. \/ read \in [ok: {TRUE}, word: WordsAt(LinkOf(node))]
        \/ read \in {[ok |-> FALSE, word |-> 0]}
    BY Zenon DEF LinkReads
  <1> QED
    BY <1>3, <1>4, <1>5

\* A link that was read holds the address of the next node.
LEMMA LinkReadIsNext ==
  ASSUME forest \in Forests, NEW p \in Owner, NEW i \in 0 .. Len(forest[p]),
         NEW read \in LinkReads(NodeAt(forest, p, i)), read.ok
  PROVE  read.word = NodeAt(forest, p, i + 1)
  <1>1. LinkWords(forest, LinkOf(NodeAt(forest, p, i)))
          = {NodeAt(forest, p, i + 1)}
    BY ForestIsForest, LinkIsNext
  <1>2. WordsAt(LinkOf(NodeAt(forest, p, i))) = {NodeAt(forest, p, i + 1)}
    BY <1>1 DEF WordsAt
  <1>3. \/ read \in [ok: {TRUE}, word: WordsAt(LinkOf(NodeAt(forest, p, i)))]
        \/ read \in {[ok |-> FALSE, word |-> 0]}
    BY Zenon DEF LinkReads
  <1>4. CASE read = [ok |-> FALSE, word |-> 0]
    <2>1. read.ok = FALSE
      BY <1>4, Zenon
    <2> QED
      BY <2>1
  <1> QED
    BY <1>2, <1>3, <1>4

\* Whatever cannot be read, an object is filled with members of their types.
LEMMA FillType ==
  ASSUME NEW old \in Body, NEW m \in Body, NEW bad, NEW b \in Byte,
         NEW junk \in BOOLEAN
  PROVE  Fill(old, m, bad, b, junk) \in Body
  BY DEF Fill, Body, Byte

LEMMA BodyReadsType ==
  ASSUME tcb \in Tcbs, NEW object \in ThreadObject, NEW ta,
         NEW read \in BodyReads(object, ta)
  PROVE  [object EXCEPT !.body = read.body] \in ThreadObject
  <1>1. TcbAt(ta) \in Body
    BY RunTimeDataAssumption DEF TcbAt
  <1>2. object.body \in Body
    BY DEF ThreadObject
  <1>3. PICK bad \in TcbFaults, b \in LeftoverBytes, junk \in BOOLEAN :
          read = [ok |-> bad = {},
                  body |-> Fill(object.body, TcbAt(ta), bad, b, junk)]
    BY DEF BodyReads
  <1>4. read.body \in Body
    BY <1>1, <1>2, <1>3, FillType, RunTimeDataAssumption
  <1> QED
    BY <1>4 DEF ThreadObject

\* The object that a turn of the loop adds to the collection.
LEMMA VisitObject ==
  ASSUME TypeOK, NEW ta \in Addr,
         NEW m \in BodyReads(WithAddr(NewObject, ta), ta)
  PROVE  /\ [WithAddr(NewObject, ta) EXCEPT !.body = m.body] \in ThreadObject
         /\ [WithAddr(NewObject, ta) EXCEPT !.body = m.body].addr = ta
  <1>1. /\ WithAddr(NewObject, ta) \in ThreadObject
        /\ WithAddr(NewObject, ta).addr = ta
    BY NewObjectType, WithAddrType
  <1>2. tcb \in Tcbs
    BY DEF TypeOK
  <1> QED
    BY <1>1, <1>2, BodyReadsType DEF ThreadObject

---------------------------------------------------------------------------
(* Type correctness.                                                       *)

LEMMA InitType == Init => TypeOK
  <1> SUFFICES ASSUME Init PROVE TypeOK
    OBVIOUS
  <1>1. ThreadsTypeOK
    BY DEF Init, ThreadsInit, ThreadsTypeOK
  <1>2. frames \in Seq(Frame) /\ faults \subseteq Faults
    BY DEF Init
  <1>3. fresh \in BOOLEAN
    BY DEF Init
  <1> QED
    BY <1>1, <1>2, <1>3 DEF Init, TypeOK

LEMMA FailedType ==
  ASSUME NEW read, NEW kind \in Faults
  PROVE  Failed(read, kind) \subseteq Faults
  BY DEF Failed

LEMMA TopType ==
  ASSUME TypeOK, frames # <<>>
  PROVE  Len(frames) \in Nat \ {0} /\ Top \in Frame
  <1>1. frames \in Seq(Frame) /\ frames # <<>>
    BY DEF TypeOK
  <1> HIDE DEF Frame
  <1> QED
    BY <1>1 DEF Top

\* Only the iterator of the caller changes when a call returns.
LEMMA ResumedProperties ==
  ASSUME NEW s \in Seq(Frame), Len(s) > 1, NEW w \in Addr
  PROVE  /\ Resumed(s, w) \in Seq(Frame)
         /\ Len(Resumed(s, w)) = Len(s) - 1
         /\ \A k \in 1 .. Len(s) - 1 :
              /\ Resumed(s, w)[k].ta = s[k].ta
              /\ Resumed(s, w)[k].it = IF k = Len(s) - 1 THEN w ELSE s[k].it
  <1> DEFINE n == Len(s) - 1
             init == SubSeq(s, 1, n)
             last == [ta |-> s[n].ta, it |-> w]
  <1>1. /\ n \in 1 .. Len(s)
        /\ init \in Seq(Frame)
        /\ Len(init) = n
        /\ \A k \in 1 .. n : init[k] = s[k]
    OBVIOUS
  <1>2. s[n] \in Frame
    BY <1>1
  <1>3. last \in Frame
    BY <1>2 DEF Frame
  <1>4. Resumed(s, w) = [init EXCEPT ![n] = last]
    <2>1. Resumed(s, w) = [init EXCEPT ![n] = [init[n] EXCEPT !.it = w]]
      BY Zenon DEF Resumed
    <2> HIDE DEF init, n
    <2>2. init[n] = s[n]
      BY <1>1
    <2>3. [s[n] EXCEPT !.it = w] = last
      BY <1>2 DEF Frame
    <2> QED
      BY <2>1, <2>2, <2>3, Zenon
  <1> HIDE DEF init, n
  <1>5. n \in Nat /\ n = Len(s) - 1
    BY DEF n
  <1>6. last.ta = s[n].ta /\ last.it = w
    OBVIOUS
  <1> HIDE DEF last
  <1> QED
    BY <1>1, <1>2, <1>3, <1>4, <1>5, <1>6

LEMMA NextType ==
  ASSUME TypeOK, [Next]_vars
  PROVE  TypeOK'
  <1> USE DEF TypeOK
  <1>1. CASE TargetRuns
    BY <1>1 DEF TargetRuns, threadsVars, ThreadsTypeOK
  <1>2. CASE UpdateThreads
    <2>1. PICK begin \in IterBegin(0) :
            /\ frames' = <<[ta |-> 0, it |-> begin.word]>>
            /\ faults' = Failed(begin, "link")
      BY <1>2 DEF UpdateThreads
    <2>2. begin.word \in Addr /\ 0 \in Addr
      BY LinkReadsType, AddrSpaceAssumption DEF IterBegin, Addr
    <2>3. frames' \in Seq(Frame) /\ frames' # <<>>
      BY <2>1, <2>2 DEF Frame
    <2>4. faults' \subseteq Faults
      BY <2>1, FailedType DEF Faults
    <2>5. ThreadsTypeOK'
      BY <1>2, ClearProperties DEF UpdateThreads
    <2> QED
      BY <1>2, <2>3, <2>4, <2>5 DEF UpdateThreads, targetVars
  <1>3. CASE Visit
    <2> DEFINE ta == ThreadOf(Top.it)
               th == WithAddr(NewObject, ta)
    <2>1. ta \in Addr
      BY <1>3, TopType, ThreadOfInAddr DEF Visit, Frame
    <2>2. PICK m \in BodyReads(th, ta), begin \in IterBegin(ta) :
            /\ NewThread([th EXCEPT !.body = m.body])
            /\ frames' = Append(frames, [ta |-> ta, it |-> begin.word])
            /\ faults' = faults \cup Failed(m, "tcb") \cup Failed(begin, "link")
      BY <1>3 DEF Visit
    <2>3. begin.word \in Addr
      BY LinkReadsType DEF IterBegin
    <2>4. frames' \in Seq(Frame) /\ frames' # <<>>
      <3>1. [ta |-> ta, it |-> begin.word] \in Frame
        BY <2>1, <2>3 DEF Frame
      <3> QED
        BY <2>2, <3>1
    <2>5. faults' \subseteq Faults
      BY <2>2, FailedType DEF Faults
    <2>6. ThreadsTypeOK'
      BY <2>1, <2>2, VisitObject, NewThreadProperties
    <2> QED
      BY <1>3, <2>4, <2>5, <2>6 DEF Visit, targetVars
  <1>4. CASE Exhausted
    BY <1>4 DEF Exhausted, targetVars, threadsVars, ThreadsTypeOK
  <1>5. CASE NextSibling
    <2> DEFINE n == Len(frames) - 1
    <2>1. PICK next \in IterNext(frames[n].it) :
            /\ frames' = Resumed(frames, next.word)
            /\ faults' = faults \cup Failed(next, "link")
      BY <1>5 DEF NextSibling
    <2>2. n \in 1 .. Len(frames)
      BY <1>5, TopType DEF NextSibling
    <2>3. next.word \in Addr
      BY LinkReadsType DEF IterNext
    <2>4. frames' \in Seq(Frame) /\ frames' # <<>>
      <3>1. Len(frames) > 1
        BY <1>5 DEF NextSibling
      <3>2. frames' \in Seq(Frame) /\ Len(frames') = n
        BY <2>1, <2>3, <3>1, ResumedProperties
      <3> QED
        BY <2>2, <3>2
    <2>5. faults' \subseteq Faults
      BY <2>1, FailedType DEF Faults
    <2> QED
      BY <1>5, <2>4, <2>5 DEF NextSibling, targetVars, threadsVars, ThreadsTypeOK
  <1>6. CASE WalkDone
    BY <1>6 DEF WalkDone, targetVars, threadsVars, ThreadsTypeOK
  <1>7. CASE UpdateCurrentThread
    <2>1. ThreadsTypeOK'
      BY <1>7, ThreadByAddrRange
      DEF UpdateCurrentThread, SetCurrent, threadsVars, ThreadsTypeOK
    <2>2. faults' \subseteq Faults
      BY <1>7 DEF UpdateCurrentThread, Faults
    <2> QED
      BY <1>7, <2>1, <2>2 DEF UpdateCurrentThread, targetVars
  <1>8. CASE UNCHANGED vars
    BY <1>8 DEF vars, targetVars, threadsVars, walkVars, ThreadsTypeOK
  <1> QED
    BY <1>1, <1>2, <1>3, <1>4, <1>5, <1>6, <1>7, <1>8 DEF Next, WalkStep

\* The collection, the iterators and the stack frames of the walk stay well
\* formed, whichever reads fail: count_ never exceeds the objects there are,
\* and current_ is null or one of them.
THEOREM TypeCorrect == Spec => []TypeOK
  BY InitType, NextType, PTL DEF Spec

---------------------------------------------------------------------------
(* The walk: IInv is inductive.                                            *)

LEMMA MembersAreThreads ==
  ASSUME NEW f, IsForest(f)
  PROVE  /\ Members(f) \subseteq Thread
         /\ \A p \in Owner : Children(f, p) \subseteq Members(f)
         /\ \A p \in Owner : \A i \in 1 .. Len(f[p]) :
              f[p][i] \in Children(f, p) /\ f[p][i] \in Members(f)
  BY ForestTypes DEF Members, Children

\* The owner of the list of every frame is the top list or a listed thread.
LEMMA FrameOwners ==
  ASSUME TypeOK, WalkInv, NEW k \in 1 .. Len(frames)
  PROVE  /\ frames[k].ta \in Owner
         /\ Len(forest[frames[k].ta]) \in Nat
         /\ \A j \in 1 .. Len(forest[frames[k].ta]) :
              forest[frames[k].ta][j] \in Thread
  <1>1. IsForest(forest)
    BY ForestIsForest DEF TypeOK
  <1>2. frames[k].ta \in Owner
    BY <1>1, MembersAreThreads DEF WalkInv, FramesInv, Owner
  <1> QED
    BY <1>1, <1>2, ForestTypes

\* The innermost frame has reached the end of its list just when every thread
\* of that list is listed.
LEMMA TopAtEnd ==
  ASSUME TypeOK, pc = "walk", WalkInv, Top.it = ListOf(Top.ta)
  PROVE  Children(forest, Top.ta) \subseteq ListedAddrs
  <1> DEFINE n == Len(frames)
             list == forest[frames[n].ta]
  <1>1. n \in 1 .. Len(frames) /\ Top = frames[n]
    BY TopType DEF TypeOK, Top
  <1>2. PICK i \in 1 .. Len(list) + 1 : AtPosition(n, i)
    BY <1>1 DEF WalkInv, FramesInv
  <1>3. frames[n].it = NodeAt(forest, frames[n].ta, i)
    BY <1>2 DEF AtPosition
  <1>4. i = Len(list) + 1
    BY <1>1, <1>3, EndOfList, FrameOwners, ForestIsForest DEF TypeOK
  <1>5. \A j \in 1 .. Len(list) : list[j] \in ListedAddrs
    BY <1>1, <1>2, <1>4, FrameOwners DEF AtPosition
  <1> QED
    BY <1>1, <1>5 DEF Children

\* Otherwise its iterator is at the node of a thread not listed so far.
LEMMA TopAtThread ==
  ASSUME TypeOK, pc = "walk", WalkInv, Top.it # ListOf(Top.ta)
  PROVE  \E i \in 1 .. Len(forest[Top.ta]) :
           /\ AtPosition(Len(frames), i)
           /\ ThreadOf(Top.it) = forest[Top.ta][i]
           /\ forest[Top.ta][i] \in Thread \ ListedAddrs
  <1> DEFINE n == Len(frames)
             list == forest[frames[n].ta]
  <1>0. IsForest(forest)
    BY ForestIsForest DEF TypeOK
  <1>1. n \in 1 .. Len(frames) /\ n \in Nat /\ Top = frames[n]
    BY TopType DEF TypeOK, Top
  <1>2. PICK i \in 1 .. Len(list) + 1 : AtPosition(n, i)
    BY <1>1 DEF WalkInv, FramesInv
  <1>3. frames[n].it = NodeAt(forest, frames[n].ta, i)
    BY <1>2 DEF AtPosition
  <1>4. i \in 1 .. Len(list)
    BY <1>0, <1>1, <1>3, EndOfList, FrameOwners
  <1>5. list[i] \in Thread /\ frames[n].it = NodeOf(list[i])
    BY <1>0, <1>1, <1>3, <1>4, FrameOwners, NodeAtCases
  <1>6. ThreadOf(frames[n].it) = list[i]
    BY <1>5, ThreadAddresses
  <1>7. list[i] \notin ListedAddrs
    BY <1>1, <1>2, <1>4, FrameOwners DEF AtPosition
  <1> QED
    BY <1>1, <1>2, <1>4, <1>5, <1>6, <1>7

---------------------------------------------------------------------------
(* The steps of the walk.                                                  *)

\* The first link of the top list leads to its first thread.
LEMMA UpdateThreadsWalk ==
  ASSUME TypeOK, UpdateThreads, LinksIntact'
  PROVE  WalkInv'
  <1>0. IsForest(forest) /\ 0 \in Owner /\ Len(forest[0]) \in Nat
    BY ForestIsForest, ForestTypes DEF TypeOK, Owner
  <1>1. ListedAddrs' = {}
    BY ClearProperties DEF TypeOK, UpdateThreads
  <1>2. forest' = forest
    BY DEF UpdateThreads, targetVars
  <1>3. PICK begin \in IterBegin(0) :
          /\ frames' = <<[ta |-> 0, it |-> begin.word]>>
          /\ faults' = Failed(begin, "link")
    BY DEF UpdateThreads
  <1>4. begin.ok
    BY <1>3 DEF LinksIntact, Failed
  <1>5. begin \in LinkReads(NodeAt(forest, 0, 0))
    BY <1>0, NodeAtCases DEF IterBegin
  <1>6. begin.word = NodeAt(forest, 0, 1)
    BY <1>0, <1>4, <1>5, LinkReadIsNext DEF TypeOK
  <1>7. /\ Len(frames') = 1
        /\ frames'[1].ta = 0
        /\ frames'[1].it = NodeAt(forest', 0, 1)
    BY <1>2, <1>3, <1>6
  <1>8. AtPosition(1, 1)'
    BY <1>0, <1>1, <1>2, <1>7 DEF AtPosition
  <1>9. FramesInv'
    BY <1>0, <1>2, <1>7, <1>8 DEF FramesInv
  <1> QED
    BY <1>1, <1>9 DEF WalkInv, ParentsFirst, BranchesDone

\* A visit adds the thread at the iterator, which was not listed, and goes on
\* at the first of its children, none of which is listed either.
LEMMA VisitWalk ==
  ASSUME TypeOK, ListedOnce, Visit, WalkInv, LinksIntact, LinksIntact'
  PROVE  WalkInv' /\ ListedOnce'
  <1>0. IsForest(forest) /\ forest' = forest
    BY ForestIsForest DEF TypeOK, Visit, targetVars
  <1>1. PICK n \in Nat \ {0}, p \in {Top.ta}, t \in {ThreadOf(Top.it)} :
          /\ n = Len(frames)
          /\ Top = frames[n]
          /\ p = Top.ta
          /\ t = ThreadOf(Top.it)
    BY TopType DEF TypeOK, Visit, Top
  <1>2. PICK i \in 1 .. Len(forest[p]) :
          /\ AtPosition(n, i)
          /\ t = forest[p][i]
          /\ t \in Thread \ ListedAddrs
    BY <1>1, TopAtThread DEF Visit
  <1>3. p \in Owner /\ Len(forest[p]) \in Nat
    BY <1>1, FrameOwners
  <1>4. t \in Owner /\ Len(forest[t]) \in Nat /\ t \in Addr /\ t # 0
    BY <1>0, <1>2, ForestTypes, ThreadAddresses DEF Owner
  <1>5. PICK m \in BodyReads(WithAddr(NewObject, t), t), begin \in IterBegin(t) :
          /\ NewThread([WithAddr(NewObject, t) EXCEPT !.body = m.body])
          /\ frames' = Append(frames, [ta |-> t, it |-> begin.word])
          /\ faults' = faults \cup Failed(m, "tcb") \cup Failed(begin, "link")
    <2> DEFINE Visits(ta) ==
          \E m \in BodyReads(WithAddr(NewObject, ta), ta), begin \in IterBegin(ta) :
            /\ NewThread([WithAddr(NewObject, ta) EXCEPT !.body = m.body])
            /\ frames' = Append(frames, [ta |-> ta, it |-> begin.word])
            /\ faults' = faults \cup Failed(m, "tcb") \cup Failed(begin, "link")
    <2>1. Visits(ThreadOf(Top.it))
      BY DEF Visit
    <2>2. t = ThreadOf(Top.it)
      BY <1>1
    <2> HIDE DEF Visits
    <2>3. Visits(t)
      BY <2>1, <2>2
    <2> QED
      BY <2>3 DEF Visits
  <1>6. begin.word = NodeAt(forest, t, 1)
    <2>1. begin.ok
      BY <1>5 DEF LinksIntact, Failed
    <2>2. begin \in LinkReads(NodeAt(forest, t, 0))
      BY <1>0, <1>4, NodeAtCases DEF IterBegin
    <2> QED
      BY <1>4, <2>1, <2>2, LinkReadIsNext DEF TypeOK
  <1>7. /\ count \in Nat
        /\ count' = count + 1
        /\ vector'[count + 1].addr = t
        /\ \A j \in 1 .. count : vector'[j] = vector[j]
        /\ ListedAddrs' = ListedAddrs \cup {t}
    <2> DEFINE object == [WithAddr(NewObject, t) EXCEPT !.body = m.body]
    <2>1. object \in ThreadObject /\ object.addr = t
      BY <1>4, VisitObject
    <2>2. NewThread(object) /\ ThreadsTypeOK
      BY <1>5 DEF TypeOK
    <2> HIDE DEF object
    <2> QED
      BY <2>1, <2>2, NewThreadProperties DEF ThreadsTypeOK
  <1>8. /\ Len(frames') = n + 1
        /\ \A k \in 1 .. n : frames'[k] = frames[k]
        /\ frames'[n + 1].ta = t
        /\ frames'[n + 1].it = NodeAt(forest, t, 1)
    BY <1>1, <1>5, <1>6 DEF TypeOK
  <1>9. ListedOnce'
    <2>1. \A j \in 1 .. count : vector[j].addr # t
      BY <1>2 DEF ListedAddrs
    <2> QED
      BY <1>7, <2>1 DEF ListedOnce
  \* The threads of a list are in no other, and in no other place of it.
  <1>10. \A q \in Owner : \A j \in 1 .. Len(forest[q]) :
           forest[q][j] = t => q = p /\ j = i
    BY <1>0, <1>2, <1>3, OnePlace
  <1>11. t # p /\ \A k \in 1 .. n : frames[k].ta # t
    BY <1>1, <1>2, <1>4 DEF WalkInv, FramesInv
  <1>12. FramesInv'
    <2>1. frames'[1].ta = 0
      BY <1>1, <1>8 DEF WalkInv, FramesInv
    <2>2. \A k, l \in 1 .. Len(frames') : frames'[k].ta = frames'[l].ta => k = l
      <3> SUFFICES ASSUME NEW k \in 1 .. n + 1, NEW l \in 1 .. n + 1,
                          frames'[k].ta = frames'[l].ta
                   PROVE  k = l
        BY <1>8
      <3>1. CASE k \in 1 .. n /\ l \in 1 .. n
        BY <1>1, <1>8, <3>1 DEF WalkInv, FramesInv
      <3>2. CASE k = n + 1 \/ l = n + 1
        BY <1>1, <1>8, <1>11, <3>2
      <3> QED
        BY <3>1, <3>2
    <2>3. \A k \in 1 .. Len(frames') : frames'[k].ta \in {0} \cup ListedAddrs'
      BY <1>1, <1>7, <1>8 DEF WalkInv, FramesInv
    <2>4. ASSUME NEW k \in 1 .. n - 1
          PROVE  \E j \in 1 .. Len(forest'[frames'[k].ta]) + 1 : AtPosition(k, j)'
      <3>1. k \in 1 .. n /\ n \in 1 .. n /\ k # n /\ k + 1 \in 1 .. n
        OBVIOUS
      <3>2. PICK j \in 1 .. Len(forest[frames[k].ta]) + 1 : AtPosition(k, j)
        BY <1>1, <3>1 DEF WalkInv, FramesInv
      <3>3. frames[k].ta \in Owner
        BY <1>1, <3>1, FrameOwners
      <3>4. frames[k].ta # p
        BY <1>1, <3>1 DEF WalkInv, FramesInv
      <3>5. \A l \in 1 .. Len(forest[frames[k].ta]) : forest[frames[k].ta][l] # t
        BY <1>10, <3>3, <3>4
      <3>6. frames'[k] = frames[k] /\ frames'[k + 1] = frames[k + 1]
        BY <1>8, <3>1
      <3>7. k < Len(frames) /\ k < Len(frames')
        BY <1>1, <1>8
      <3>8. AtPosition(k, j)'
        BY <1>0, <1>7, <3>2, <3>5, <3>6, <3>7 DEF AtPosition
      <3> QED
        BY <1>0, <3>2, <3>6, <3>8
    <2>5. AtPosition(n, i)'
      <3>1. frames'[n] = frames[n] /\ frames[n].ta = p
        BY <1>1, <1>8
      <3>2. n < Len(frames') /\ ~(n < Len(frames))
        BY <1>1, <1>8
      <3>3. \A l \in 1 .. Len(forest[p]) :
              forest[p][l] \in ListedAddrs' <=> l < i \/ l = i
        BY <1>2, <1>3, <1>7, <1>10, <3>1, <3>2 DEF AtPosition
      <3> QED
        BY <1>0, <1>2, <1>3, <1>8, <3>1, <3>2, <3>3 DEF AtPosition
    <2>6. AtPosition(n + 1, 1)'
      <3>1. \A l \in 1 .. Len(forest[t]) : forest[t][l] \notin ListedAddrs'
        BY <1>2, <1>4, <1>7, <1>10, <1>11
        DEF WalkInv, ParentsFirst, Children
      <3>2. ~(n + 1 < Len(frames'))
        BY <1>1, <1>8
      <3> QED
        BY <1>0, <1>4, <1>8, <3>1, <3>2 DEF AtPosition
    <2>7. \A k \in 1 .. Len(frames') :
            \E j \in 1 .. Len(forest'[frames'[k].ta]) + 1 : AtPosition(k, j)'
      <3> TAKE k \in 1 .. Len(frames')
      <3>1. CASE k \in 1 .. n - 1
        BY <2>4, <3>1
      <3>2. CASE k = n
        BY <1>0, <1>1, <1>3, <1>8, <2>5, <3>2
      <3>3. CASE k = n + 1
        BY <1>0, <1>4, <1>8, <2>6, <3>3
      <3> QED
        BY <1>1, <1>8, <3>1, <3>2, <3>3
    <2> QED
      BY <2>1, <2>2, <2>3, <2>7 DEF FramesInv
  <1>13. ListedAddrs' \subseteq Members(forest')
    BY <1>0, <1>2, <1>3, <1>7, MembersAreThreads DEF WalkInv
  <1>14. ParentsFirst'
    <2>1. p \in {0} \cup ListedAddrs
      BY <1>1 DEF WalkInv, FramesInv
    <2>2. \A q \in Thread \ ListedAddrs' : q \in Owner /\ q # p
      BY <1>7, <2>1, LayoutNats DEF Owner
    <2>3. \A q \in Thread \ ListedAddrs' : t \notin Children(forest, q)
      BY <1>10, <2>2 DEF Children
    <2> QED
      BY <1>0, <1>7, <2>3 DEF WalkInv, ParentsFirst
  <1>15. BranchesDone'
    <2> SUFFICES ASSUME NEW q \in ListedAddrs'
                 PROVE  \/ \E k \in 1 .. Len(frames') : frames'[k].ta = q
                        \/ Children(forest, q) \subseteq ListedAddrs'
      BY <1>0 DEF BranchesDone
    <2>1. CASE q = t
      BY <1>1, <1>8, <2>1
    <2>2. CASE q \in ListedAddrs
      BY <1>1, <1>7, <1>8, <2>2 DEF WalkInv, BranchesDone
    <2> QED
      BY <1>7, <2>1, <2>2
  <1> QED
    BY <1>9, <1>12, <1>13, <1>14, <1>15 DEF WalkInv

\* When a call returns, all threads of its list are listed, and its caller goes
\* on at the next thread of its own.
LEMMA NextSiblingWalk ==
  ASSUME TypeOK, NextSibling, WalkInv, LinksIntact'
  PROVE  WalkInv'
  <1>0. IsForest(forest) /\ forest' = forest /\ ListedAddrs' = ListedAddrs
    BY ForestIsForest
    DEF TypeOK, NextSibling, targetVars, threadsVars, ListedAddrs
  <1>1. PICK n \in Nat \ {0}, p \in {frames[Len(frames) - 1].ta} :
          /\ Len(frames) = n + 1
          /\ p = frames[n].ta
          /\ Top = frames[n + 1]
    BY TopType DEF TypeOK, NextSibling, Top
  <1>2. n \in 1 .. Len(frames) /\ n + 1 \in 1 .. Len(frames) /\ n < Len(frames)
    BY <1>1
  <1>3. p \in Owner /\ Len(forest[p]) \in Nat
    BY <1>1, <1>2, FrameOwners
  <1>4. PICK i \in 1 .. Len(forest[p]) + 1 : AtPosition(n, i)
    BY <1>1, <1>2 DEF WalkInv, FramesInv
  <1>5. i \in 0 .. Len(forest[p]) /\ frames[n].it = NodeAt(forest, p, i)
    BY <1>1, <1>2, <1>3, <1>4 DEF AtPosition
  <1>6. PICK next \in IterNext(frames[n].it) :
          /\ frames' = Resumed(frames, next.word)
          /\ faults' = faults \cup Failed(next, "link")
    <2>1. n = Len(frames) - 1
      BY <1>1
    <2> QED
      BY <2>1 DEF NextSibling
  <1>7. next.word = NodeAt(forest, p, i + 1)
    <2>1. next.ok
      BY <1>6 DEF LinksIntact, Failed
    <2>2. next \in LinkReads(NodeAt(forest, p, i))
      BY <1>5 DEF IterNext
    <2> QED
      BY <1>3, <1>5, <2>1, <2>2, LinkReadIsNext DEF TypeOK
  <1>8. /\ Len(frames') = n
        /\ \A k \in 1 .. n :
             /\ frames'[k].ta = frames[k].ta
             /\ frames'[k].it = IF k = n THEN next.word ELSE frames[k].it
    <2>1. next.word \in Addr
      BY LinkReadsType DEF TypeOK, IterNext
    <2>2. frames \in Seq(Frame) /\ Len(frames) > 1
      BY <1>1 DEF TypeOK
    <2>3. n = Len(frames) - 1
      BY <1>1
    <2> QED
      BY <1>6, <2>1, <2>2, <2>3, ResumedProperties
  <1>9. FramesInv'
    <2>1. \A k, l \in 1 .. Len(frames') : frames'[k].ta = frames'[l].ta => k = l
      BY <1>1, <1>8 DEF WalkInv, FramesInv
    <2>2. \A k \in 1 .. Len(frames') : frames'[k].ta \in {0} \cup ListedAddrs'
      <3>1. \A k \in 1 .. n : frames[k].ta \in {0} \cup ListedAddrs
        BY <1>1 DEF WalkInv, FramesInv
      <3> QED
        BY <1>0, <1>8, <3>1
    <2>3. ASSUME NEW k \in 1 .. n - 1
          PROVE  \E j \in 1 .. Len(forest'[frames'[k].ta]) + 1 : AtPosition(k, j)'
      <3>1. k \in 1 .. n /\ k + 1 \in 1 .. n /\ k # n
        OBVIOUS
      <3>2. k \in 1 .. Len(frames) /\ k < Len(frames) /\ k < Len(frames')
        BY <1>1, <1>8
      <3>3. PICK j \in 1 .. Len(forest[frames[k].ta]) + 1 : AtPosition(k, j)
        BY <3>2 DEF WalkInv, FramesInv
      <3>4. /\ frames'[k].ta = frames[k].ta
            /\ frames'[k].it = frames[k].it
            /\ frames'[k + 1].ta = frames[k + 1].ta
        BY <1>8, <3>1
      <3>5. AtPosition(k, j)'
        BY <1>0, <3>2, <3>3, <3>4 DEF AtPosition
      <3> QED
        BY <1>0, <3>3, <3>4, <3>5
    <2>4. AtPosition(n, i + 1)'
      <3>1. ~(n < Len(frames'))
        BY <1>8
      <3>2. frames'[n].ta = p /\ frames'[n].it = NodeAt(forest, p, i + 1)
        BY <1>1, <1>7, <1>8
      <3>3. \A l \in 1 .. Len(forest[p]) : forest[p][l] \in ListedAddrs <=> l < i + 1
        BY <1>1, <1>2, <1>3, <1>4 DEF AtPosition
      <3> QED
        BY <1>0, <3>1, <3>2, <3>3 DEF AtPosition
    <2>5. \A k \in 1 .. Len(frames') :
            \E j \in 1 .. Len(forest'[frames'[k].ta]) + 1 : AtPosition(k, j)'
      <3> TAKE k \in 1 .. Len(frames')
      <3>1. CASE k \in 1 .. n - 1
        BY <2>3, <3>1
      <3>2. CASE k = n
        BY <1>0, <1>1, <1>3, <1>5, <1>8, <2>4, <3>2
      <3> QED
        BY <1>8, <3>1, <3>2
    <2>6. frames'[1].ta = 0
      BY <1>8 DEF WalkInv, FramesInv
    <2> QED
      BY <2>1, <2>2, <2>5, <2>6 DEF FramesInv
  <1>10. BranchesDone'
    <2> SUFFICES ASSUME NEW q \in ListedAddrs
                 PROVE  \/ \E k \in 1 .. Len(frames') : frames'[k].ta = q
                        \/ Children(forest, q) \subseteq ListedAddrs
      BY <1>0 DEF BranchesDone
    <2>1. CASE q = frames[n + 1].ta
      <3>1. Children(forest, Top.ta) \subseteq ListedAddrs
        BY TopAtEnd DEF NextSibling
      <3> QED
        BY <1>1, <2>1, <3>1
    <2>2. CASE q # frames[n + 1].ta
      BY <1>1, <1>8, <2>2 DEF WalkInv, BranchesDone
    <2> QED
      BY <2>1, <2>2
  <1> QED
    BY <1>0, <1>9, <1>10 DEF WalkInv, ParentsFirst

\* When the outermost call returns, the listed threads have the top threads and,
\* with every thread, its children.
LEMMA WalkDoneComplete ==
  ASSUME TypeOK, WalkDone, WalkInv
  PROVE  ListedAddrs = Members(forest)
  <1>0. IsForest(forest)
    BY ForestIsForest DEF TypeOK
  <1>1. Len(frames) = 1 /\ Top = frames[1] /\ frames[1].ta = 0
    BY DEF WalkDone, Top, WalkInv, FramesInv
  <1>2. Children(forest, 0) \subseteq ListedAddrs
    BY <1>1, TopAtEnd DEF WalkDone
  <1>3. \A q \in ListedAddrs : q # 0
    BY <1>0, MembersAreThreads, LayoutNats DEF WalkInv
  <1>4. \A q \in ListedAddrs : Children(forest, q) \subseteq ListedAddrs
    BY <1>1, <1>3 DEF WalkInv, BranchesDone
  <1> QED
    BY <1>0, <1>2, <1>4, RootedInduction DEF WalkInv

---------------------------------------------------------------------------
(* The invariant.                                                          *)

LEMMA WalkUnchanged ==
  ASSUME vector' = vector, count' = count, frames' = frames, forest' = forest
  PROVE  WalkInv => WalkInv'
  <1>1. ListedAddrs' = ListedAddrs
    BY DEF ListedAddrs
  <1>2. \A k, i : AtPosition(k, i)' <=> AtPosition(k, i)
    BY <1>1 DEF AtPosition
  <1>3. FramesInv => FramesInv'
    BY <1>1, <1>2 DEF FramesInv
  <1> QED
    BY <1>1, <1>3 DEF WalkInv, ParentsFirst, BranchesDone

LEMMA InitIInv == Init => IInv
  <1> SUFFICES ASSUME Init PROVE IInv
    OBVIOUS
  <1>1. pc = "idle" /\ fresh = FALSE /\ count = 0 /\ frames = <<>>
    BY DEF Init, ThreadsInit
  <1> QED
    BY <1>1, InitType DEF IInv, ListedOnce, SnapshotComplete, UpToDate

LEMMA NextIInv ==
  ASSUME IInv, [Next]_vars
  PROVE  IInv'
  <1>1. TypeOK /\ TypeOK'
    BY NextType DEF IInv
  <1>2. CASE TargetRuns
    BY <1>1, <1>2
    DEF TargetRuns, threadsVars, IInv, ListedOnce, LinksIntact, SnapshotComplete,
        UpToDate
  <1>3. CASE UpdateThreads
    <2>1. pc' = "walk" /\ count' = 0
      BY <1>3 DEF UpdateThreads, Clear
    <2> QED
      BY <1>1, <1>3, <2>1, UpdateThreadsWalk
      DEF IInv, ListedOnce, SnapshotComplete, UpToDate
  <1>4. CASE Visit
    <2>1. pc = "walk" /\ pc' = "walk" /\ (LinksIntact' => LinksIntact)
      BY <1>4 DEF Visit, LinksIntact
    <2>2. LinksIntact' => WalkInv' /\ ListedOnce'
      BY <1>1, <1>4, <2>1, VisitWalk DEF IInv
    <2> QED
      BY <1>1, <2>1, <2>2 DEF IInv, ListedOnce, SnapshotComplete, UpToDate
  <1>5. CASE Exhausted
    <2>1. /\ pc = "walk" /\ pc' = "crashed" /\ faults' = faults
          /\ vector' = vector /\ count' = count
          /\ frames' = frames /\ forest' = forest
      BY <1>5 DEF Exhausted, targetVars, threadsVars
    <2> QED
      BY <1>1, <2>1, WalkUnchanged
      DEF IInv, ListedOnce, LinksIntact, SnapshotComplete, UpToDate
  <1>6. CASE NextSibling
    <2>1. /\ pc = "walk" /\ pc' = "walk" /\ (LinksIntact' => LinksIntact)
          /\ ListedOnce => ListedOnce'
      BY <1>6 DEF NextSibling, threadsVars, LinksIntact, ListedOnce
    <2>2. LinksIntact' => WalkInv'
      BY <1>1, <1>6, <2>1, NextSiblingWalk DEF IInv
    <2> QED
      BY <1>1, <2>1, <2>2 DEF IInv, SnapshotComplete, UpToDate
  <1>7. CASE WalkDone
    <2>1. /\ pc = "walk" /\ pc' = "current" /\ (LinksIntact' => LinksIntact)
          /\ frames' = <<>>
          /\ ListedOnce => ListedOnce'
          /\ ListedAddrs' = ListedAddrs /\ forest' = forest
      BY <1>7
      DEF WalkDone, targetVars, threadsVars, LinksIntact, ListedOnce, ListedAddrs
    <2>2. LinksIntact' => ListedAddrs' = Members(forest')
      BY <1>1, <1>7, <2>1, WalkDoneComplete DEF IInv
    <2> QED
      BY <1>1, <2>1, <2>2 DEF IInv, SnapshotComplete, UpToDate
  <1>8. CASE UpdateCurrentThread
    <2>1. vector' = vector /\ count' = count
      BY <1>8 DEF UpdateCurrentThread, SetCurrent, threadsVars
    <2>2. /\ pc = "current" /\ pc' = "idle" /\ (LinksIntact' => LinksIntact)
          /\ frames' = frames
          /\ ListedAddrs' = ListedAddrs /\ forest' = forest
          /\ ListedOnce => ListedOnce'
      BY <1>8, <2>1
      DEF UpdateCurrentThread, targetVars, LinksIntact, ListedOnce, ListedAddrs
    <2> QED
      BY <1>1, <2>2 DEF IInv, SnapshotComplete, UpToDate
  <1>9. CASE UNCHANGED vars
    <2>1. /\ pc' = pc /\ frames' = frames /\ faults' = faults /\ fresh' = fresh
          /\ vector' = vector /\ count' = count /\ forest' = forest
      BY <1>9 DEF vars, targetVars, threadsVars, walkVars
    <2>2. ListedAddrs' = ListedAddrs
      BY <2>1 DEF ListedAddrs
    <2> QED
      BY <1>1, <2>1, <2>2, WalkUnchanged
      DEF IInv, ListedOnce, LinksIntact, SnapshotComplete, UpToDate
  <1> QED
    BY <1>2, <1>3, <1>4, <1>5, <1>6, <1>7, <1>8, <1>9 DEF Next, WalkStep

THEOREM Inductive == Spec => []IInv
  BY InitIInv, NextIInv, PTL DEF Spec

\* While no link read fails, update_threads() never lists a thread twice, for
\* any lists the target may hold, during the walk and after it.
THEOREM NeverListedTwice == Spec => []ListedOnce
  <1>1. IInv => ListedOnce
    BY DEF IInv
  <1> QED
    BY <1>1, Inductive, PTL

\* An update whose link reads all succeed lists exactly the threads of the
\* target: iterate_threads() reaches every branch and adds nothing else.
THEOREM UpdateIsComplete == Spec => []SnapshotComplete
  <1>1. IInv => SnapshotComplete
    BY DEF IInv
  <1> QED
    BY <1>1, Inductive, PTL

\* While no link read fails, every iterator of the recursion is a node of the
\* list it iterates or the end of it, however deep the calls below it went.
THEOREM IteratorsStayOnList == Spec => []IteratorsOnList
  <1>1. IInv => IteratorsOnList
    <2> SUFFICES ASSUME IInv, LinksIntact, NEW k \in 1 .. Len(frames)
                 PROVE  \E i \in 0 .. Len(forest[frames[k].ta]) :
                          frames[k].it = NodeAt(forest, frames[k].ta, i)
      BY DEF IteratorsOnList
    <2>1. TypeOK /\ WalkInv /\ IsForest(forest)
      BY ForestIsForest DEF IInv, TypeOK
    <2>2. frames[k].ta \in Owner /\ Len(forest[frames[k].ta]) \in Nat
      BY <2>1, FrameOwners
    <2>3. PICK i \in 1 .. Len(forest[frames[k].ta]) + 1 : AtPosition(k, i)
      BY <2>1 DEF WalkInv, FramesInv
    <2>4. frames[k].it = NodeAt(forest, frames[k].ta, i)
      BY <2>3 DEF AtPosition
    <2>5. CASE i \in 1 .. Len(forest[frames[k].ta])
      BY <2>2, <2>4, <2>5
    \* The head is at both ends of the circle.
    <2>6. CASE i = Len(forest[frames[k].ta]) + 1
      <3>1. NodeAt(forest, frames[k].ta, i) = NodeAt(forest, frames[k].ta, 0)
        BY <2>1, <2>2, <2>6, NodeAtCases
      <3> QED
        BY <2>2, <2>4, <3>1
    <2> QED
      BY <2>2, <2>3, <2>5, <2>6
  <1> QED
    BY <1>1, Inductive, PTL

---------------------------------------------------------------------------
(***************************************************************************)
(* What the collection says of the target, for every forest of threads and *)
(* whatever is stale in the vector: lookups find the listed objects, the   *)
(* current thread is the right one or none, no object shows the members of *)
(* another thread, and no more objects are allocated than there are        *)
(* threads.                                                                *)
(***************************************************************************)
(***************************************************************************)
(* The invariant, relative to IInv.  IDs are those of the addresses, and   *)
(* the listed addresses are aligned, so listed IDs are as different as     *)
(* addresses.  No thread is current from the clear to the end of the walk. *)
(***************************************************************************)
IdsOfAddresses == \A i \in 1 .. Len(vector) : vector[i].id = IdOf(vector[i].addr)

ListedAreThreads == LinksIntact => ListedAddrs \subseteq Thread

NoneCurrentYet ==
  pc \in {"walk", "current", "crashed"} => current = 0 /\ "current" \notin faults

NoLinkFaults == ~LinkFaults => LinksIntact

CollectionInv ==
  /\ IdsOfAddresses
  /\ ListedAreThreads
  /\ NoneCurrentYet
  /\ NoLinkFaults
  /\ NoOldCurrent
  /\ CurrentCorrect
  /\ NoForeignData
  /\ PoolBounded

---------------------------------------------------------------------------
\* The thread a turn of the loop comes to, while the links can be read.
LEMMA VisitedThread ==
  ASSUME IInv, Visit, LinksIntact'
  PROVE  LinksIntact /\ ThreadOf(Top.it) \in Thread \ ListedAddrs
  <1>1. LinksIntact /\ pc = "walk" /\ Top.it # ListOf(Top.ta)
    BY DEF Visit, LinksIntact
  <1>2. TypeOK /\ WalkInv
    BY <1>1 DEF IInv
  <1> QED
    BY <1>1, <1>2, TopAtThread

\* What a turn of the loop does to the collection.
LEMMA VisitCollects ==
  ASSUME TypeOK, Visit, NEW ta, ta = ThreadOf(Top.it)
  PROVE  \E m \in BodyReads(WithAddr(NewObject, ta), ta), object \in ThreadObject :
           /\ NewThread(object)
           /\ object.addr = ta
           /\ object.id = IdOf(ta)
           /\ object.body = m.body
           /\ faults \subseteq faults'
           /\ ~m.ok => "tcb" \in faults'
  <1>1. ta \in Addr
    BY TopType, ThreadOfInAddr DEF Visit, Frame, TypeOK
  <1>2. PICK m \in BodyReads(WithAddr(NewObject, ta), ta),
             begin \in IterBegin(ta) :
          /\ NewThread([WithAddr(NewObject, ta) EXCEPT !.body = m.body])
          /\ faults' = faults \cup Failed(m, "tcb") \cup Failed(begin, "link")
    BY DEF Visit
  <1> DEFINE object == [WithAddr(NewObject, ta) EXCEPT !.body = m.body]
  <1>3. object \in ThreadObject /\ object.addr = ta
    BY <1>1, VisitObject
  <1>4. /\ WithAddr(NewObject, ta).id = IdOf(ta)
        /\ WithAddr(NewObject, ta) \in ThreadObject
    BY <1>1, NewObjectType, WithAddrType DEF WithAddr, ThreadObject
  <1>5. object.id = IdOf(ta) /\ object.body = m.body
    BY <1>4 DEF ThreadObject
  <1>6. faults \subseteq faults' /\ (~m.ok => "tcb" \in faults')
    BY <1>2 DEF Failed
  <1> HIDE DEF object
  <1> QED
    BY <1>2, <1>3, <1>5, <1>6 DEF object

\* What an object shows of a thread whose members were read into it after it
\* was cleared: the members, or what NoForeignData allows.
Shows(own, shown, bad) ==
  LET bytes == LeftoverBytes \cup {own.prio_assigned, own.prio_inherited}
  IN  /\ bad = {} => shown = own
      /\ shown.name \in {NoName, own.name}
      /\ shown.prio_assigned \in bytes
      /\ shown.prio_inherited \in bytes
      /\ shown.state \in bytes \cup {own.state}
      /\ shown.sp \in {0, own.sp}
      /\ shown.fp => own.fp \/ shown.sp = 0

LEMMA FillShows ==
  ASSUME NEW own \in Body, NEW bad, NEW b \in LeftoverBytes,
         NEW junk \in BOOLEAN
  PROVE  Shows(own, Fill(ClearedBody, own, bad, b, junk), bad)
  <1> DEFINE shown == Fill(ClearedBody, own, bad, b, junk)
  <1>1. bad = {} => shown = own
    BY DEF Fill, Body
  <1>2. /\ shown.name \in {NoName, own.name}
        /\ shown.sp \in {0, own.sp}
    BY DEF Fill, ClearedBody
  <1>3. /\ shown.prio_assigned \in {b, own.prio_assigned}
        /\ shown.prio_inherited \in {b, own.prio_assigned, own.prio_inherited}
        /\ shown.state
             \in {b, own.prio_assigned, own.prio_inherited, own.state}
    BY DEF Fill
  <1>4. shown.fp => own.fp \/ shown.sp = 0
    BY DEF Fill, ClearedBody
  <1> QED
    BY <1>1, <1>2, <1>3, <1>4 DEF Shows

\* A read of a control block into a new object shows nothing else.
LEMMA BodyReadsShow ==
  ASSUME TypeOK, NEW t \in Thread, NEW m \in BodyReads(WithAddr(NewObject, t), t)
  PROVE  \E bad : m.ok = (bad = {}) /\ Shows(tcb[t], m.body, bad)
  <1>1. tcb[t] \in Body
    BY RunTimeDataAssumption DEF TypeOK
  <1>2. WithAddr(NewObject, t).body = ClearedBody
    BY NewObjectType DEF WithAddr, ClearedThread
  <1>3. PICK bad \in TcbFaults, b \in LeftoverBytes, junk \in BOOLEAN :
          m = [ok |-> bad = {},
               body |-> Fill(ClearedBody, tcb[t], bad, b, junk)]
    BY <1>2 DEF BodyReads, TcbAt
  <1> QED
    BY <1>1, <1>3, FillShows

---------------------------------------------------------------------------
\* The address space has room for finitely many control blocks.
LEMMA FewThreads == IsFiniteSet(Thread) /\ Cardinality(Thread) \in Nat
  <1>1. Thread \subseteq 1 .. AddrSpace - 1
    BY LayoutAssumption
  <1>2. IsFiniteSet(1 .. AddrSpace - 1)
    BY AddrSpaceAssumption, FS_Interval
  <1>3. IsFiniteSet(Thread)
    BY <1>1, <1>2, FS_Subset
  <1> QED
    BY <1>3, FS_CardinalityType

\* Values that differ and are in a finite set are no more than it has elements.
LEMMA FewDistinct ==
  ASSUME NEW S, IsFiniteSet(S), NEW n \in Nat, NEW g,
         \A i \in 1 .. n : g[i] \in S,
         \A i, j \in 1 .. n : g[i] = g[j] => i = j
  PROVE  n <= Cardinality(S)
  <1> DEFINE f == [i \in 1 .. n |-> g[i]]
  <1>1. f \in Injection(1 .. n, S)
    <2>1. f \in [1 .. n -> S] /\ DOMAIN f = 1 .. n
      OBVIOUS
    <2>2. \A i, j \in 1 .. n : f[i] = f[j] => i = j
      OBVIOUS
    <2> HIDE DEF f
    <2> QED
      BY <2>1, <2>2 DEF Injection, IsInjective
  <1>2. Cardinality(1 .. n) <= Cardinality(S)
    BY <1>1, FS_Injection
  <1>3. Cardinality(1 .. n) = n
    BY FS_Interval
  <1> QED
    BY <1>2, <1>3

\* No more objects are listed than there are threads.
LEMMA FewListed ==
  ASSUME NEW n \in Nat, NEW v,
         \A i \in 1 .. n : v[i].addr \in Thread,
         \A i, j \in 1 .. n : v[i].addr = v[j].addr => i = j
  PROVE  n <= Cardinality(Thread)
  <1> DEFINE g == [i \in 1 .. n |-> v[i].addr]
  <1>1. \A i \in 1 .. n : g[i] \in Thread
    OBVIOUS
  <1>2. \A i, j \in 1 .. n : g[i] = g[j] => i = j
    OBVIOUS
  <1> HIDE DEF g
  <1> QED
    BY <1>1, <1>2, FewThreads, FewDistinct

\* Without link faults no link read fails.
LEMMA LinkReadsOk ==
  ASSUME ~LinkFaults, NEW node, NEW read \in LinkReads(node)
  PROVE  Failed(read, "link") = {}
  BY DEF LinkReads, Failed

LEMMA LinksStayIntact ==
  ASSUME [Next]_vars, NoLinkFaults
  PROVE  NoLinkFaults'
  <1> SUFFICES ASSUME ~LinkFaults, LinksIntact PROVE LinksIntact'
    BY DEF NoLinkFaults
  <1>1. CASE UpdateThreads
    <2>1. PICK begin \in IterBegin(0) : faults' = Failed(begin, "link")
      BY <1>1 DEF UpdateThreads
    <2> QED
      BY <2>1, LinkReadsOk DEF IterBegin, LinksIntact
  <1>2. CASE Visit
    <2>0. PICK t : t = ThreadOf(Top.it)
      OBVIOUS
    <2>1. PICK m \in BodyReads(WithAddr(NewObject, t), t), begin \in IterBegin(t) :
            faults' = faults \cup Failed(m, "tcb") \cup Failed(begin, "link")
      BY <1>2, <2>0 DEF Visit
    <2> QED
      BY <2>1, LinkReadsOk DEF IterBegin, LinksIntact, Failed
  <1>3. CASE NextSibling
    <2>1. PICK next \in IterNext(frames[Len(frames) - 1].it) :
            faults' = faults \cup Failed(next, "link")
      BY <1>3 DEF NextSibling
    <2> QED
      BY <2>1, LinkReadsOk DEF IterNext, LinksIntact
  <1>4. CASE UpdateCurrentThread
    BY <1>4 DEF UpdateCurrentThread, LinksIntact
  <1>5. CASE faults' = faults
    BY <1>5 DEF LinksIntact
  <1> QED
    BY <1>1, <1>2, <1>3, <1>4, <1>5
    DEF Next, WalkStep, TargetRuns, Exhausted, WalkDone, vars, walkVars

---------------------------------------------------------------------------
LEMMA VisitCollection ==
  ASSUME IInv, IInv', CollectionInv, Visit
  PROVE  CollectionInv'
  <1>1. TypeOK /\ TypeOK' /\ ThreadsTypeOK /\ ThreadsTypeOK'
    BY DEF IInv, TypeOK
  <1>2. PICK t : t = ThreadOf(Top.it)
    OBVIOUS
  <1>3. PICK m \in BodyReads(WithAddr(NewObject, t), t), object \in ThreadObject :
          /\ NewThread(object)
          /\ object.addr = t /\ object.id = IdOf(t) /\ object.body = m.body
          /\ faults \subseteq faults' /\ (~m.ok => "tcb" \in faults')
    BY <1>1, <1>2, VisitCollects
  <1>4. /\ pc = "walk" /\ pc' = "walk"
        /\ current' = current /\ tcb' = tcb /\ fresh' = fresh
        /\ LinksIntact' => LinksIntact /\ t \in Thread \ ListedAddrs
    BY <1>2, <1>3, VisitedThread DEF Visit, NewThread, targetVars
  <1>5. /\ count' = count + 1
        /\ vector'[count + 1] = object
        /\ \A i \in 1 .. count : vector'[i] = vector[i]
        /\ ListedAddrs' = ListedAddrs \cup {t}
    BY <1>1, <1>3, NewThreadProperties
  <1>6. count \in Nat /\ Len(vector) \in Nat /\ count <= Len(vector)
    BY <1>1 DEF ThreadsTypeOK
  <1>7. /\ count < Len(vector) => Len(vector') = Len(vector)
        /\ count = Len(vector) => Len(vector') = count'
        /\ \A i \in 1 .. Len(vector') : i # count + 1 =>
             i \in 1 .. Len(vector) /\ vector'[i] = vector[i]
    <2>1. CASE count < Len(vector)
      <3>1. vector' = [vector EXCEPT ![count + 1] = object]
        BY <1>3, <2>1 DEF NewThread
      <3> QED
        BY <1>1, <1>6, <2>1, <3>1 DEF ThreadsTypeOK
    <2>2. CASE count = Len(vector)
      <3>1. vector' = Append(vector, object)
        BY <1>3, <1>6, <2>2 DEF NewThread
      <3> QED
        BY <1>1, <1>5, <1>6, <2>2, <3>1 DEF ThreadsTypeOK
    <2> QED
      BY <1>6, <2>1, <2>2
  <1>8. IdsOfAddresses'
    BY <1>3, <1>5, <1>7 DEF CollectionInv, IdsOfAddresses
  <1>9. ListedAreThreads'
    BY <1>4, <1>5 DEF CollectionInv, ListedAreThreads
  <1>10. NoneCurrentYet' /\ NoOldCurrent'
    <2>1. "current" \notin faults'
      <3>1. PICK mm, begin :
              faults' = faults \cup Failed(mm, "tcb") \cup Failed(begin, "link")
        BY DEF Visit
      <3> QED
        BY <1>4, <3>1 DEF CollectionInv, NoneCurrentYet, Failed
    <2> QED
      BY <1>4, <2>1 DEF CollectionInv, NoneCurrentYet, NoOldCurrent
  <1>11. CurrentCorrect'
    BY <1>4 DEF CurrentCorrect, UpToDate
  <1>12. NoForeignData'
    <2> SUFFICES ASSUME fresh', LinksIntact', NEW i \in 1 .. count'
                 PROVE  LET bad == IF "tcb" \in faults' THEN {0} ELSE {}
                        IN  Shows(tcb'[vector'[i].addr], vector'[i].body, bad)
      BY DEF NoForeignData, Shows
    <2>1. CASE i \in 1 .. count
      <3>1. vector'[i] = vector[i] /\ tcb' = tcb /\ fresh /\ LinksIntact
        BY <1>4, <1>5, <2>1
      <3>2. NoForeignData /\ ("tcb" \in faults => "tcb" \in faults')
        BY <1>3 DEF CollectionInv
      <3> QED
        BY <2>1, <3>1, <3>2 DEF NoForeignData, Shows
    <2>2. CASE i = count + 1
      <3>1. PICK bad : m.ok = (bad = {}) /\ Shows(tcb[t], m.body, bad)
        BY <1>1, <1>4, BodyReadsShow
      <3>2. vector'[i].addr = t /\ vector'[i].body = m.body
        BY <1>3, <1>5, <2>2
      <3> QED
        BY <1>3, <1>4, <3>1, <3>2 DEF Shows
    <2> QED
      BY <1>5, <1>6, <2>1, <2>2
  <1>13. NoLinkFaults'
    BY LinksStayIntact DEF CollectionInv, Next, WalkStep
  <1>14. PoolBounded'
    <2> SUFFICES ASSUME ~LinkFaults PROVE Len(vector') <= Cardinality(Thread)
      BY DEF PoolBounded
    <2>1. CASE count < Len(vector)
      BY <1>7, <2>1 DEF CollectionInv, PoolBounded
    <2>2. CASE count = Len(vector)
      <3>1. LinksIntact'
        BY <1>13 DEF NoLinkFaults
      <3>2. \A i, j \in 1 .. count' :
              vector'[i].addr = vector'[j].addr => i = j
        BY <3>1 DEF IInv, ListedOnce
      <3>3. \A i \in 1 .. count' : vector'[i].addr \in Thread
        BY <1>9, <3>1 DEF ListedAreThreads, ListedAddrs
      <3>4. count' \in Nat
        BY <1>5, <1>6
      <3>5. count' <= Cardinality(Thread)
        BY <3>2, <3>3, <3>4, FewListed
      <3> QED
        BY <1>7, <2>2, <3>5
    <2> QED
      BY <1>6, <2>1, <2>2
  <1> QED
    BY <1>8, <1>9, <1>10, <1>11, <1>12, <1>13, <1>14 DEF CollectionInv

\* A finished update: the current thread is searched among all objects, by its
\* address, and the first one is a listed one when there is one.
LEMMA CurrentFound ==
  ASSUME IInv, IInv', UpdateCurrentThread
  PROVE  CurrentCorrect'
  <1> SUFFICES ASSUME UpToDate', "current" \notin faults'
               PROVE  /\ current' # 0 => vector'[current'].addr = currentWord'
                      /\ currentWord' \in Members(forest') =>
                           current' \in 1 .. count'
    BY DEF CurrentCorrect
  <1>1. ThreadsTypeOK
    BY DEF IInv, TypeOK
  <1>2. /\ vector' = vector /\ count' = count
        /\ currentWord' = currentWord /\ forest' = forest
        /\ current' = ThreadByAddr(currentWord)
    BY DEF UpdateCurrentThread, SetCurrent, targetVars, threadsVars
  <1>3. ListedAddrs' = Members(forest')
    BY DEF IInv, SnapshotComplete
  <1> DEFINE S == {j \in 1 .. Len(vector) : vector[j].addr = currentWord}
  <1>4. current' = FirstOf(S)
    BY <1>2 DEF ThreadByAddr
  <1>5. Len(vector) \in Nat /\ count \in 0 .. Len(vector)
    BY <1>1 DEF ThreadsTypeOK
  <1>6. S \subseteq 1 .. Len(vector)
    BY <1>5
  <1>7. current' # 0 => vector'[current'].addr = currentWord'
    <2>1. current' # 0 => current' \in S
      BY <1>4, <1>5, <1>6, FirstOfProperties
    <2> QED
      BY <1>2, <2>1
  <1>8. ASSUME currentWord \in Members(forest)
        PROVE  current' \in 1 .. count
    <2>1. PICK i \in 1 .. count : vector[i].addr = currentWord
      BY <1>2, <1>3, <1>8 DEF ListedAddrs
    <2>2. i \in S
      BY <1>5, <2>1
    <2>3. FirstOf(S) \in S /\ FirstOf(S) <= i
      BY <1>5, <1>6, <2>2, FirstOfProperties
    <2> QED
      BY <1>4, <1>5, <2>3
  <1> QED
    BY <1>2, <1>7, <1>8

LEMMA InitCollection == Init => CollectionInv
  <1> SUFFICES ASSUME Init PROVE CollectionInv
    OBVIOUS
  <1>1. /\ vector = <<>> /\ count = 0 /\ current = 0
        /\ pc = "idle" /\ faults = {} /\ fresh = FALSE
    BY DEF Init, ThreadsInit
  <1>2. Cardinality(Thread) \in Nat
    BY FewThreads
  <1> QED
    BY <1>1, <1>2
    DEF CollectionInv, IdsOfAddresses, ListedAreThreads, ListedAddrs,
        NoneCurrentYet, NoLinkFaults, LinksIntact, NoOldCurrent, CurrentCorrect,
        UpToDate, NoForeignData, PoolBounded

LEMMA NextCollection ==
  ASSUME IInv, CollectionInv, [Next]_vars
  PROVE  CollectionInv'
  <1>1. IInv' /\ NoLinkFaults'
    BY NextIInv, LinksStayIntact DEF CollectionInv
  <1>2. CASE TargetRuns
    <2>1. /\ vector' = vector /\ count' = count /\ current' = current
          /\ pc' = pc /\ faults' = faults /\ fresh' = FALSE
      BY <1>2 DEF TargetRuns, threadsVars
    <2> QED
      BY <1>1, <2>1
      DEF CollectionInv, IdsOfAddresses, ListedAreThreads, ListedAddrs,
          NoneCurrentYet, LinksIntact, NoOldCurrent, CurrentCorrect,
          UpToDate, NoForeignData, PoolBounded
  <1>3. CASE UpdateThreads
    <2>1. /\ vector' = vector /\ count' = 0 /\ current' = 0 /\ pc' = "walk"
          /\ "current" \notin faults'
      BY <1>3 DEF UpdateThreads, Clear, Failed
    <2> QED
      BY <1>1, <2>1
      DEF CollectionInv, IdsOfAddresses, ListedAreThreads, ListedAddrs,
          NoneCurrentYet, NoOldCurrent, CurrentCorrect, UpToDate, NoForeignData,
          PoolBounded
  <1>4. CASE Visit
    BY <1>1, <1>4, VisitCollection
  <1>5. CASE Exhausted \/ NextSibling \/ WalkDone
    <2>1. /\ vector' = vector /\ count' = count /\ current' = current
          /\ tcb' = tcb /\ fresh' = fresh
          /\ pc = "walk" /\ pc' \in {"walk", "current", "crashed"}
      BY <1>5 DEF Exhausted, NextSibling, WalkDone, targetVars, threadsVars
    <2>2. faults \subseteq faults' /\ ("current" \in faults' => "current" \in faults)
      BY <1>5 DEF Exhausted, NextSibling, WalkDone, Failed
    <2> QED
      BY <1>1, <2>1, <2>2
      DEF CollectionInv, IdsOfAddresses, ListedAreThreads, ListedAddrs,
          NoneCurrentYet, LinksIntact, NoOldCurrent, CurrentCorrect, UpToDate,
          NoForeignData, PoolBounded
  <1>6. CASE UpdateCurrentThread
    <2>1. /\ vector' = vector /\ count' = count /\ tcb' = tcb /\ fresh' = fresh
          /\ pc = "current" /\ pc' = "idle" /\ faults \subseteq faults'
          /\ ("current" \in faults' => "current" \in faults \/ current' = current)
      BY <1>6 DEF UpdateCurrentThread, SetCurrent, targetVars, threadsVars
    <2>2. CurrentCorrect'
      BY <1>1, <1>6, CurrentFound
    <2> QED
      BY <1>1, <2>1, <2>2
      DEF CollectionInv, IdsOfAddresses, ListedAreThreads, ListedAddrs,
          NoneCurrentYet, LinksIntact, NoOldCurrent, NoForeignData, PoolBounded
  <1>7. CASE UNCHANGED vars
    BY <1>1, <1>7
    DEF vars, targetVars, threadsVars, walkVars, CollectionInv, IdsOfAddresses,
        ListedAreThreads, ListedAddrs, NoneCurrentYet, LinksIntact, NoOldCurrent,
        CurrentCorrect, UpToDate, NoForeignData, PoolBounded
  <1> QED
    BY <1>2, <1>3, <1>4, <1>5, <1>6, <1>7 DEF Next, WalkStep

\* In every reachable state what CollectionInv says of the objects, listed and
\* stale, holds beside the invariant of the walk.
THEOREM CollectionInvariant == Spec => [](IInv /\ CollectionInv)
  <1>1. Init => IInv /\ CollectionInv
    BY InitIInv, InitCollection
  <1>2. IInv /\ CollectionInv /\ [Next]_vars => (IInv /\ CollectionInv)'
    BY NextIInv, NextCollection
  <1> QED
    BY <1>1, <1>2, PTL DEF Spec

---------------------------------------------------------------------------
\* IDs tell aligned addresses apart.
LEMMA IdsDiffer ==
  ASSUME NEW t \in Thread, NEW u \in Thread, IdOf(t) = IdOf(u)
  PROVE  t = u
  <1>1. t \in Nat /\ u \in Nat /\ t % 4 = 0 /\ u % 4 = 0
    BY ThreadAddresses DEF Addr
  <1> QED
    BY <1>1 DEF IdOf

LEMMA FoundById ==
  ASSUME IInv, CollectionInv, LinksIntact, NEW i \in 1 .. count
  PROVE  ThreadById(vector[i].id) = i
  <1> DEFINE S == {j \in 1 .. Len(vector) : vector[j].id = vector[i].id}
  <1>1. Len(vector) \in Nat /\ count \in 0 .. Len(vector)
    BY DEF IInv, TypeOK, ThreadsTypeOK
  <1>2. S \subseteq 1 .. Len(vector) /\ i \in S
    BY <1>1
  <1>3. FirstOf(S) \in S /\ FirstOf(S) <= i
    BY <1>1, <1>2, FirstOfProperties
  <1>4. PICK j : j = FirstOf(S)
    OBVIOUS
  <1>5. j \in 1 .. count /\ vector[j].id = vector[i].id
    <2>1. j \in S /\ j <= i
      BY <1>3, <1>4
    <2> QED
      BY <1>1, <2>1
  <1>6. vector[j].addr \in Thread /\ vector[i].addr \in Thread
    BY <1>5 DEF CollectionInv, ListedAreThreads, ListedAddrs
  <1>7. IdOf(vector[j].addr) = IdOf(vector[i].addr)
    BY <1>1, <1>5 DEF CollectionInv, IdsOfAddresses
  <1>8. j = i
    BY <1>5, <1>6, <1>7, IdsDiffer DEF IInv, ListedOnce
  <1> QED
    BY <1>4, <1>8 DEF ThreadById

\* A thread in the collection is found by its ID at its own object, although
\* thread() searches the stale objects as well, for any forests and any
\* history of longer and shorter lists.
THEOREM LookupIsRight == Spec => []LookupFindsListed
  <1>1. IInv /\ CollectionInv => LookupFindsListed
    BY FoundById DEF LookupFindsListed
  <1> QED
    BY <1>1, CollectionInvariant, PTL

\* After an update that could read it, the current object is never that of
\* another thread than the one that runs on the target, and it is the listed
\* one whenever that thread is listed.
THEOREM CurrentIsRight == Spec => []CurrentCorrect
  <1>1. CollectionInv => CurrentCorrect
    BY DEF CollectionInv
  <1> QED
    BY <1>1, CollectionInvariant, PTL

\* After an update that could not read it there is no current thread.
THEOREM NoCurrentIsRight == Spec => []NoOldCurrent
  <1>1. CollectionInv => NoOldCurrent
    BY DEF CollectionInv
  <1> QED
    BY <1>1, CollectionInvariant, PTL

\* Whichever members of control blocks cannot be read, an object that is used
\* for one thread never shows what it held for another.
THEOREM DataIsOwn == Spec => []NoForeignData
  <1>1. CollectionInv => NoForeignData
    BY DEF CollectionInv
  <1> QED
    BY <1>1, CollectionInvariant, PTL

\* However many updates there are, no more objects are allocated than the
\* target may have threads.
THEOREM PoolStaysBounded == Spec => []PoolBounded
  <1>1. CollectionInv => PoolBounded
    BY DEF CollectionInv
  <1> QED
    BY <1>1, CollectionInvariant, PTL

---------------------------------------------------------------------------
(* Where every member and the current thread can be read.                  *)

LEMMA MembersRead ==
  ASSUME TcbFaults = {{}}, NEW object, NEW ta, NEW m \in BodyReads(object, ta)
  PROVE  m.ok
  <1>1. PICK bad \in TcbFaults, b \in LeftoverBytes, junk \in BOOLEAN :
          m = [ok |-> bad = {},
               body |-> Fill(object.body, TcbAt(ta), bad, b, junk)]
    BY DEF BodyReads
  <1>2. m.ok = (bad = {})
    BY <1>1
  <1> QED
    BY <1>1, <1>2

\* Then a turn of the loop fills the new object with what the control block
\* holds, and no failure is seen but that of a link.
LEMMA VisitReadsAll ==
  ASSUME TypeOK, Visit, TcbFaults = {{}}, ThreadOf(Top.it) \in Thread
  PROVE  vector'[count + 1].body = tcb[ThreadOf(Top.it)]
  <1>1. PICK t \in Thread : t = ThreadOf(Top.it)
    OBVIOUS
  <1>2. PICK m \in BodyReads(WithAddr(NewObject, t), t), object \in ThreadObject :
          NewThread(object) /\ object.body = m.body
    BY <1>1, VisitCollects
  <1>3. vector'[count + 1] = object
    BY <1>2, NewThreadProperties DEF TypeOK
  <1>4. m.ok
    BY <1>2, MembersRead
  <1>5. m.body = tcb[t]
    BY <1>2, <1>4, BodyReadsShow DEF Shows
  <1> QED
    BY <1>1, <1>2, <1>3, <1>5

AllRead ==
  /\ TcbFaults = {{}} => "tcb" \notin faults
  /\ ~CurrentFaults => "current" \notin faults

LEMMA NextAllRead ==
  ASSUME AllRead, [Next]_vars
  PROVE  AllRead'
  <1>1. CASE Visit
    <2>1. PICK m \in BodyReads(WithAddr(NewObject, ThreadOf(Top.it)),
                              ThreadOf(Top.it)),
               begin \in IterBegin(ThreadOf(Top.it)) :
            faults' = faults \cup Failed(m, "tcb") \cup Failed(begin, "link")
      BY <1>1 DEF Visit
    <2>2. TcbFaults = {{}} => m.ok
      BY <2>1, MembersRead
    <2> QED
      BY <2>1, <2>2 DEF AllRead, Failed
  <1>2. CASE UpdateThreads \/ NextSibling
    <2>1. PICK read : \/ faults' = Failed(read, "link")
                      \/ faults' = faults \cup Failed(read, "link")
      BY <1>2 DEF UpdateThreads, NextSibling
    <2> QED
      BY <2>1 DEF AllRead, Failed
  <1>3. CASE UpdateCurrentThread
    BY <1>3 DEF AllRead, UpdateCurrentThread
  <1>4. CASE TargetRuns \/ Exhausted \/ WalkDone \/ UNCHANGED vars
    BY <1>4 DEF AllRead, TargetRuns, Exhausted, WalkDone, vars, walkVars
  <1> QED
    BY <1>1, <1>2, <1>3, <1>4 DEF Next, WalkStep

---------------------------------------------------------------------------
(* Room.                                                                   *)

\* Before a thread is added there is one that is not listed, and not the owner
\* of a frame: the objects and the frames are fewer than all could be.
LEMMA RoomForOneMore ==
  ASSUME IInv, CollectionInv, pc = "walk", Top.it # ListOf(Top.ta), LinksIntact
  PROVE  count < Cardinality(Thread) /\ Len(frames) <= Cardinality(Thread)
  <1>1. TypeOK /\ WalkInv /\ ThreadsTypeOK
    BY DEF IInv, TypeOK
  <1>2. PICK t \in Thread : t \notin ListedAddrs
    BY <1>1, TopAtThread
  <1>3. IsFiniteSet(Thread) /\ Cardinality(Thread) \in Nat
    BY FewThreads
  <1>4. /\ IsFiniteSet(Thread \ {t})
        /\ Cardinality(Thread \ {t}) = Cardinality(Thread) - 1
    BY <1>2, <1>3, FS_RemoveElement
  <1>5. count < Cardinality(Thread)
    <2> DEFINE g == [i \in 1 .. count |-> vector[i].addr]
    <2>1. count \in Nat
      BY <1>1 DEF ThreadsTypeOK
    <2>2. \A i \in 1 .. count : g[i] \in Thread \ {t}
      <3>1. ListedAddrs \subseteq Thread \ {t}
        BY <1>2 DEF CollectionInv, ListedAreThreads
      <3> QED
        BY <3>1 DEF ListedAddrs
    <2>3. \A i, j \in 1 .. count : g[i] = g[j] => i = j
      BY DEF IInv, ListedOnce
    <2> HIDE DEF g
    <2>4. count <= Cardinality(Thread \ {t})
      BY <1>4, <2>1, <2>2, <2>3, FewDistinct
    <2> QED
      BY <1>3, <1>4, <2>1, <2>4
  <1>6. Len(frames) <= Cardinality(Thread)
    <2> DEFINE S == (Thread \ {t}) \cup {0}
               g == [k \in 1 .. Len(frames) |-> frames[k].ta]
    <2>1. Len(frames) \in Nat
      BY <1>1, TopType DEF TypeOK
    <2>2. \A k \in 1 .. Len(frames) : g[k] \in S
      <3>1. ListedAddrs \subseteq Thread \ {t}
        BY <1>2 DEF CollectionInv, ListedAreThreads
      <3>2. \A k \in 1 .. Len(frames) : frames[k].ta \in {0} \cup ListedAddrs
        BY <1>1 DEF WalkInv, FramesInv
      <3> QED
        BY <3>1, <3>2
    <2>3. \A k, m \in 1 .. Len(frames) : g[k] = g[m] => k = m
      BY <1>1 DEF WalkInv, FramesInv
    <2>4. IsFiniteSet(S) /\ Cardinality(S) <= Cardinality(Thread)
      <3> DEFINE U == Thread \ {t}
      <3>1. IsFiniteSet(U) /\ Cardinality(U) = Cardinality(Thread) - 1
        BY <1>4
      <3> HIDE DEF U
      <3>2. /\ IsFiniteSet(U \cup {0})
            /\ Cardinality(U \cup {0})
                 = IF 0 \in U THEN Cardinality(U) ELSE Cardinality(U) + 1
        BY <3>1, FS_AddElement
      <3>3. S = U \cup {0}
        BY DEF U
      <3> HIDE DEF S
      <3> QED
        BY <1>3, <3>1, <3>2, <3>3
    <2> HIDE DEF S, g
    <2>5. Len(frames) <= Cardinality(S)
      BY <2>1, <2>2, <2>3, <2>4, FewDistinct
    <2>6. Cardinality(S) \in Nat
      BY <2>4, FS_CardinalityType
    <2> QED
      BY <1>3, <2>1, <2>4, <2>5, <2>6
  <1> QED
    BY <1>5, <1>6

\* One with room for as many, and one frame more, always has room for a turn.
LEMMA RoomForAll ==
  ASSUME IInv, CollectionInv, LinksIntact,
         MaxDepth > Cardinality(Thread), MaxObjects >= Cardinality(Thread)
  PROVE  ~Exhausted
  <1> SUFFICES ASSUME Exhausted PROVE FALSE
    OBVIOUS
  <1>1. count < Cardinality(Thread) /\ Len(frames) <= Cardinality(Thread)
    BY RoomForOneMore DEF Exhausted
  <1>2. Len(frames) = MaxDepth \/ count = MaxObjects
    BY DEF Exhausted
  <1>3. /\ Cardinality(Thread) \in Nat /\ count \in Nat
        /\ MaxDepth \in Nat /\ MaxObjects \in Nat
    BY FewThreads, RunTimeDataAssumption DEF IInv, TypeOK, ThreadsTypeOK
  <1> QED
    BY <1>1, <1>2, <1>3

\* A host with room for an object for each thread, and for a frame more than
\* there are threads, never runs out of it unless a link could not be read,
\* whatever the shape of the lists.
THEOREM RoomIsEnough ==
  ASSUME MaxDepth > Cardinality(Thread), MaxObjects >= Cardinality(Thread)
  PROVE  Spec => []Bounded
  <1>1. Init => Bounded
    BY DEF Init, Bounded
  <1>2. ASSUME IInv, CollectionInv, Bounded, [Next]_vars
        PROVE  Bounded'
    <2>1. CASE Exhausted
      <3>1. ~LinksIntact
        BY <1>2, <2>1, RoomForAll
      <3> QED
        BY <2>1, <3>1 DEF Exhausted, Bounded, LinksIntact
    <2>2. CASE UNCHANGED vars
      BY <1>2, <2>2 DEF Bounded, LinksIntact, vars, walkVars
    <2>3. CASE ~Exhausted /\ Next
      BY <2>3
      DEF Bounded, Next, TargetRuns, UpdateThreads, WalkStep, Visit, NextSibling,
          WalkDone, UpdateCurrentThread
    <2> QED
      BY <1>2, <2>1, <2>2, <2>3
  <1> QED
    BY <1>1, <1>2, CollectionInvariant, PTL DEF Spec

(***************************************************************************)
(* Why an update returns.  A turn of the loop costs two steps, its own and *)
(* that of the return to the caller, and is never repeated for a thread;   *)
(* the end of the outermost loop and the search for the current thread are *)
(* the last two.                                                           *)
(***************************************************************************)
StepsLeft ==
  IF pc = "walk" THEN 2 * (Cardinality(Thread) - count) + Len(frames) + 1
  ELSE IF pc = "current" THEN 1
  ELSE 0

\* A call of update_threads() has as many steps left as the target has threads
\* that are not listed yet, twice, and frames: two for each thread and two
\* more at its beginning.
StepsBounded == StepsLeft \in 0 .. 2 * Cardinality(Thread) + 2

\* Every step of the call takes one away.
StepsCount == [][WalkStep => StepsLeft' < StepsLeft]_vars

LEMMA StepsOfWalk ==
  ASSUME IInv, CollectionInv, LinksIntact
  PROVE  /\ Cardinality(Thread) \in Nat
         /\ pc = "walk" => Len(frames) \in Nat \ {0}
         /\ count \in 0 .. Cardinality(Thread)
         /\ StepsLeft \in Nat
  <1>1. TypeOK /\ ThreadsTypeOK /\ count \in Nat
    BY DEF IInv, TypeOK, ThreadsTypeOK
  <1>2. Cardinality(Thread) \in Nat
    BY FewThreads
  <1>3. pc = "walk" => Len(frames) \in Nat \ {0}
    BY <1>1, TopType DEF TypeOK
  <1>4. \A i \in 1 .. count : vector[i].addr \in Thread
    BY DEF CollectionInv, ListedAreThreads, ListedAddrs
  <1>5. count <= Cardinality(Thread)
    BY <1>1, <1>4, FewListed DEF IInv, ListedOnce
  <1>6. StepsLeft \in Nat
    BY <1>1, <1>2, <1>3, <1>5 DEF StepsLeft
  <1> QED
    BY <1>1, <1>2, <1>3, <1>5, <1>6

LEMMA NextSteps ==
  ASSUME ~LinkFaults, IInv, CollectionInv, [Next]_vars
  PROVE  /\ WalkStep => StepsLeft' < StepsLeft
         /\ StepsLeft <= 2 * Cardinality(Thread) + 2 =>
              StepsLeft' <= 2 * Cardinality(Thread) + 2
  <1>1. LinksIntact
    BY DEF CollectionInv, NoLinkFaults
  <1> DEFINE N == Cardinality(Thread)
  <1> HIDE DEF N
  <1>2. /\ N \in Nat /\ count \in 0 .. N /\ StepsLeft \in Nat
        /\ pc = "walk" => Len(frames) \in Nat \ {0}
    BY <1>1, StepsOfWalk DEF N
  <1>3. TypeOK /\ ThreadsTypeOK
    BY DEF IInv, TypeOK
  <1>4. ASSUME WalkStep PROVE StepsLeft' \in Int /\ StepsLeft' < StepsLeft
    <2>1. CASE Visit
      <3>1. PICK object \in ThreadObject : NewThread(object)
        BY <1>3, <2>1, VisitCollects
      <3>2. count' = count + 1
        BY <1>3, <3>1, NewThreadProperties
      <3>3. pc = "walk" /\ pc' = "walk"
        BY <2>1 DEF Visit
      <3>4. Len(frames') = Len(frames) + 1
        <4>1. frames \in Seq(Frame)
          BY <1>3 DEF TypeOK
        <4>2. \E f : frames' = Append(frames, f)
          BY <2>1 DEF Visit
        <4> QED
          BY <4>1, <4>2
      <3>5. StepsLeft' = 2 * (N - (count + 1)) + (Len(frames) + 1) + 1
        BY <3>2, <3>3, <3>4 DEF StepsLeft, N
      <3>6. StepsLeft = 2 * (N - count) + Len(frames) + 1
        BY <3>3 DEF StepsLeft, N
      <3> QED
        BY <1>2, <3>3, <3>5, <3>6
    <2>2. CASE Exhausted
      <3>1. pc = "walk" /\ StepsLeft' = 0
        BY <2>2 DEF Exhausted, StepsLeft
      <3>2. StepsLeft = 2 * (N - count) + Len(frames) + 1
        BY <3>1 DEF StepsLeft, N
      <3> QED
        BY <1>2, <3>1, <3>2
    <2>3. CASE NextSibling
      <3>1. pc = "walk" /\ pc' = "walk" /\ count' = count /\ Len(frames) > 1
        BY <2>3 DEF NextSibling, threadsVars
      <3>2. Len(frames') = Len(frames) - 1
        <4>1. frames \in Seq(Frame)
          BY <1>3 DEF TypeOK
        <4>2. PICK next \in LinkReads(frames[Len(frames) - 1].it) :
                frames' = Resumed(frames, next.word)
          BY <2>3 DEF NextSibling, IterNext
        <4>3. next.word \in Addr
          BY <1>3, LinkReadsType DEF TypeOK
        <4> QED
          BY <3>1, <4>1, <4>2, <4>3, ResumedProperties
      <3>3. StepsLeft' = 2 * (N - count) + (Len(frames) - 1) + 1
        BY <3>1, <3>2 DEF StepsLeft, N
      <3>4. StepsLeft = 2 * (N - count) + Len(frames) + 1
        BY <3>1 DEF StepsLeft, N
      <3> QED
        BY <1>2, <3>1, <3>3, <3>4
    <2>4. CASE WalkDone
      <3>1. pc = "walk" /\ StepsLeft' = 1
        BY <2>4 DEF WalkDone, StepsLeft
      <3>2. StepsLeft = 2 * (N - count) + Len(frames) + 1
        BY <3>1 DEF StepsLeft, N
      <3> QED
        BY <1>2, <3>1, <3>2
    <2>5. CASE UpdateCurrentThread
      BY <2>5 DEF UpdateCurrentThread, StepsLeft
    <2> QED
      BY <1>4, <2>1, <2>2, <2>3, <2>4, <2>5 DEF WalkStep
  <1>5. ASSUME StepsLeft <= 2 * N + 2 PROVE StepsLeft' <= 2 * N + 2
    <2>1. CASE WalkStep
      BY <1>2, <1>4, <1>5, <2>1
    <2>2. CASE UpdateThreads
      <3>1. pc' = "walk" /\ Len(frames') = 1 /\ count' = 0
        BY <2>2, ClearProperties DEF UpdateThreads, Clear
      <3>2. StepsLeft' = 2 * (N - 0) + 1 + 1
        BY <3>1 DEF StepsLeft, N
      <3> QED
        BY <1>2, <3>2
    <2>3. CASE TargetRuns \/ UNCHANGED vars
      <3>1. pc' = pc /\ frames' = frames /\ count' = count
        BY <2>3 DEF TargetRuns, vars, threadsVars, walkVars
      <3>2. StepsLeft' = StepsLeft
        BY <3>1 DEF StepsLeft
      <3> QED
        BY <1>5, <3>2
    <2> QED
      BY <2>1, <2>2, <2>3 DEF Next
  <1> QED
    BY <1>4, <1>5 DEF N

\* The safety behind UpdateReturns, for any number of threads and any forest: the
\* walk never goes round in the circular lists, and an update takes two steps
\* for each thread and two more, unless a link cannot be read.
THEOREM UpdatesAreShort ==
  ASSUME ~LinkFaults
  PROVE  Spec => StepsCount /\ []StepsBounded
  <1> DEFINE Few == StepsLeft <= 2 * Cardinality(Thread) + 2
  <1>1. Init => Few
    <2> SUFFICES ASSUME Init PROVE Few
      OBVIOUS
    <2>1. StepsLeft = 0
      BY DEF Init, StepsLeft
    <2> QED
      BY <2>1, FewThreads
  <1>2. IInv /\ CollectionInv /\ [Next]_vars =>
          [WalkStep => StepsLeft' < StepsLeft]_vars /\ (Few => Few')
    BY NextSteps
  <1>3. IInv /\ CollectionInv /\ Few => StepsBounded
    <2> SUFFICES ASSUME IInv, CollectionInv, Few PROVE StepsBounded
      OBVIOUS
    <2>1. StepsLeft \in Nat /\ Cardinality(Thread) \in Nat
      BY StepsOfWalk DEF CollectionInv, NoLinkFaults
    <2> QED
      BY <2>1 DEF StepsBounded
  <1> HIDE DEF Few
  <1> QED
    BY <1>1, <1>2, <1>3, CollectionInvariant, PTL DEF Spec, StepsCount
=============================================================================
