------------------------ MODULE WalkSnapshot_proofs ------------------------
(***************************************************************************)
(* Proof that update_threads() implements UpdateSnapshot: the collection   *)
(* that an update leaves has the target's threads in preorder, with the    *)
(* members and the current thread that the target has for them.            *)
(***************************************************************************)
EXTENDS WalkSnapshot, RunTimeData_proofs

---------------------------------------------------------------------------
(* Preorder, when a thread is added to a sequence.                         *)

\* No thread is a child of two, or twice of one.
LEMMA OneParent ==
  ASSUME NEW f, IsForest(f), NEW p \in Owner, NEW q \in Owner, NEW t,
         t \in Children(f, p), t \in Children(f, q)
  PROVE  p = q
  BY DEF Children, IsForest, NoSharing

\* The sequence t that is s and one more thread.
Extends(s, t, n) ==
  /\ n \in Nat /\ Len(s) = n /\ Len(t) = n + 1
  /\ \A i \in 1 .. n : t[i] = s[i]

LEMMA BelowStays ==
  ASSUME NEW f, NEW s, NEW t, NEW n, Extends(s, t, n),
         NEW i \in 1 .. n, NEW j \in 1 .. n, BelowFrom(f, s, i, j)
  PROVE  BelowFrom(f, t, i, j)
  <1> SUFFICES ASSUME NEW k \in i + 1 .. j
               PROVE  \E h \in i .. k - 1 : t[k] \in Children(f, t[h])
    BY DEF BelowFrom
  <1>1. PICK h \in i .. k - 1 : s[k] \in Children(f, s[h])
    BY DEF BelowFrom
  <1>2. n \in Nat /\ h \in 1 .. n /\ k \in 1 .. n
    BY DEF Extends
  <1> QED
    BY <1>1, <1>2 DEF Extends

LEMMA BelowGrows ==
  ASSUME NEW f, NEW s, NEW t, NEW n, Extends(s, t, n),
         NEW i \in 1 .. n, BelowFrom(f, s, i, n),
         NEW h \in i .. n, t[n + 1] \in Children(f, s[h])
  PROVE  BelowFrom(f, t, i, n + 1)
  <1> SUFFICES ASSUME NEW k \in i + 1 .. n + 1
               PROVE  \E g \in i .. k - 1 : t[k] \in Children(f, t[g])
    BY DEF BelowFrom
  <1>1. n \in Nat /\ h \in 1 .. n
    BY DEF Extends
  <1>2. CASE k = n + 1
    <2>1. t[h] = s[h] /\ h \in i .. k - 1
      BY <1>1, <1>2 DEF Extends
    <2> QED
      BY <1>2, <2>1
  <1>3. CASE k \in i + 1 .. n
    <2>1. BelowFrom(f, t, i, n)
      BY <1>1, BelowStays
    <2> QED
      BY <1>3, <2>1 DEF BelowFrom
  <1> QED
    BY <1>1, <1>2, <1>3

\* The thread t, a child of p at position x of its list, is added to s.
LEMMA AddedBranch ==
  ASSUME NEW f, IsForest(f), NEW s, NEW u, NEW n, Extends(s, u, n),
         \A i, j \in 1 .. n : s[i] = s[j] => i = j,
         \A i \in 1 .. n : s[i] \in Thread,
         NEW p \in Owner, NEW t \in Thread, t \in Children(f, p), u[n + 1] = t,
         \A i \in 1 .. n : s[i] # t /\ s[i] \notin Children(f, t),
         p # 0 => \E i \in 1 .. n : s[i] = p /\ BelowFrom(f, s, i, n),
         p # t,
         BranchesTogether(f, s)
  PROVE  BranchesTogether(f, u)
  <1> SUFFICES ASSUME NEW i \in 1 .. Len(u), NEW j \in 1 .. Len(u),
                      u[j] \in Children(f, u[i])
               PROVE  i < j /\ BelowFrom(f, u, i, j)
    BY DEF BranchesTogether
  <1>1. n \in Nat /\ Len(u) = n + 1 /\ Len(s) = n /\ i \in Nat /\ j \in Nat
    BY DEF Extends
  <1>2. CASE i \in 1 .. n /\ j \in 1 .. n
    <2>1. u[i] = s[i] /\ u[j] = s[j]
      BY <1>2 DEF Extends
    <2>2. i < j /\ BelowFrom(f, s, i, j)
      BY <1>1, <1>2, <2>1 DEF BranchesTogether
    <2> QED
      BY <1>2, <2>2, BelowStays
  <1>3. CASE i \in 1 .. n /\ j = n + 1
    <2>1. u[i] = s[i] /\ u[j] = t /\ s[i] \in Owner
      BY <1>3 DEF Extends, Owner
    <2>2. s[i] = p
      BY <2>1, OneParent
    <2>3. p # 0
      BY <1>3, <2>2, ThreadAddresses
    <2>4. BelowFrom(f, s, i, n)
      BY <1>3, <2>2, <2>3
    <2>5. i \in i .. n
      BY <1>1, <1>3
    <2>6. BelowFrom(f, u, i, n + 1)
      BY <1>3, <2>1, <2>4, <2>5, BelowGrows
    <2> QED
      BY <1>1, <1>3, <2>6
  <1>4. CASE i = n + 1
    <2>1. u[i] = t
      BY <1>4
    <2>2. CASE j \in 1 .. n
      <3>1. u[j] = s[j]
        BY <2>2 DEF Extends
      <3> QED
        BY <2>1, <2>2, <3>1
    <2>3. CASE j = n + 1
      <3>1. t \in Children(f, t) /\ t \in Owner
        BY <2>1, <2>3 DEF Owner
      <3>2. p = t
        BY <3>1, OneParent
      <3> QED
        BY <3>2, ThreadAddresses
    <2> QED
      BY <1>1, <2>2, <2>3
  <1> QED
    BY <1>1, <1>2, <1>3, <1>4

LEMMA AddedSibling ==
  ASSUME NEW f, IsForest(f), NEW s, NEW u, NEW n, Extends(s, u, n),
         NEW p \in Owner, NEW x \in 1 .. Len(f[p]), u[n + 1] = f[p][x],
         \A i \in 1 .. n : \A m \in 1 .. Len(f[p]) : s[i] = f[p][m] => m < x,
         SiblingsInOrder(f, s)
  PROVE  SiblingsInOrder(f, u)
  <1> SUFFICES ASSUME NEW q \in Owner, NEW l \in 1 .. Len(f[q]),
                      NEW m \in 1 .. Len(f[q]),
                      NEW i \in 1 .. Len(u), NEW j \in 1 .. Len(u),
                      l < m, u[i] = f[q][l], u[j] = f[q][m]
               PROVE  i < j
    BY DEF SiblingsInOrder
  <1>1. n \in Nat /\ Len(u) = n + 1 /\ Len(s) = n
    BY DEF Extends
  <1>2. Len(f[p]) \in Nat /\ Len(f[q]) \in Nat
    BY ForestTypes
  <1>3. CASE i \in 1 .. n /\ j \in 1 .. n
    <2>1. u[i] = s[i] /\ u[j] = s[j]
      BY <1>3 DEF Extends
    <2> QED
      BY <1>1, <1>3, <2>1 DEF SiblingsInOrder
  <1>4. CASE i = n + 1
    <2>1. q = p /\ l = x
      BY <1>4 DEF IsForest, NoSharing
    <2>2. CASE j \in 1 .. n
      <3>1. u[j] = s[j]
        BY <2>2 DEF Extends
      <3> QED
        BY <1>2, <2>1, <2>2, <3>1
    <2>3. CASE j = n + 1
      <3>1. m = x
        BY <2>3 DEF IsForest, NoSharing
      <3> QED
        BY <1>2, <2>1, <3>1
    <2> QED
      BY <1>1, <2>2, <2>3
  <1> QED
    BY <1>1, <1>3, <1>4

---------------------------------------------------------------------------
(* OrderInv is inductive.                                                  *)

LEMMA ListingFacts ==
  ASSUME ThreadsTypeOK
  PROVE  /\ count \in Nat
         /\ Len(Listing) = count
         /\ \A i \in 1 .. count : Listing[i] = vector[i].addr
         /\ ListedAddrs = {Listing[i] : i \in 1 .. count}
  <1>1. count \in Nat
    BY DEF ThreadsTypeOK
  <1>2. Len(Listing) = count
    <2>1. Listing \in Seq({vector[i].addr : i \in 1 .. count})
      BY <1>1 DEF Listing
    <2>2. DOMAIN Listing = 1 .. count
      BY DEF Listing
    <2> QED
      BY <1>1, <2>1, <2>2
  <1>3. \A i \in 1 .. count : Listing[i] = vector[i].addr
    BY DEF Listing
  <1> QED
    BY <1>1, <1>2, <1>3 DEF ListedAddrs

\* A turn of the loop adds a thread below the innermost list.
LEMMA VisitOrder ==
  ASSUME IInv, OrderInv, Visit, LinksIntact'
  PROVE  /\ BranchesTogether(forest', Listing')
         /\ SiblingsInOrder(forest', Listing')
         /\ EnteredInOrder'
  <1>1. /\ LinksIntact /\ pc = "walk" /\ Top.it # ListOf(Top.ta)
        /\ forest' = forest
    BY VisitedThread DEF Visit, targetVars
  <1>2. TypeOK /\ WalkInv /\ ListedOnce /\ ThreadsTypeOK /\ IsForest(forest)
    BY <1>1, ForestIsForest DEF IInv, TypeOK
  <1>3. /\ BranchesTogether(forest, Listing)
        /\ SiblingsInOrder(forest, Listing)
        /\ EnteredInOrder
    BY <1>1 DEF OrderInv
  <1>4. PICK len \in Nat \ {0}, p \in {Top.ta}, t \in {ThreadOf(Top.it)} :
          len = Len(frames) /\ Top = frames[len] /\ p = frames[len].ta
    BY <1>1, <1>2, TopType DEF TypeOK, Top
  <1>5. PICK x \in 1 .. Len(forest[p]) :
          /\ AtPosition(len, x)
          /\ t = forest[p][x]
          /\ t \in Thread \ ListedAddrs
    BY <1>1, <1>2, <1>4, TopAtThread
  <1>6. p \in {0} \cup ListedAddrs /\ ListedAddrs \subseteq Thread
    BY <1>2, <1>4, MembersAreThreads DEF WalkInv, FramesInv
  <1>7. p \in Owner /\ t \in Children(forest, p)
    BY <1>5, <1>6 DEF Owner, Children
  <1>8. PICK n \in Nat : n = count
    BY <1>2, ListingFacts
  <1>9. PICK object \in ThreadObject : NewThread(object) /\ object.addr = t
    BY <1>2, <1>4, VisitCollects
  <1>10. /\ ThreadsTypeOK' /\ count' = n + 1
         /\ vector'[n + 1] = object
         /\ \A i \in 1 .. n : vector'[i] = vector[i]
    BY <1>2, <1>8, <1>9, NewThreadProperties
  <1> DEFINE s == Listing
             u == Listing'
  <1>11. /\ Len(s) = n
         /\ \A i \in 1 .. n : s[i] = vector[i].addr
         /\ ListedAddrs = {s[i] : i \in 1 .. n}
    BY <1>2, <1>8, ListingFacts
  <1>12. /\ Len(u) = n + 1
         /\ \A i \in 1 .. n + 1 : u[i] = vector'[i].addr
    <2>1. u = [i \in 1 .. n + 1 |-> vector'[i].addr]
      BY <1>10 DEF Listing
    <2>2. u \in Seq({vector'[i].addr : i \in 1 .. n + 1}) /\ DOMAIN u = 1 .. n + 1
      BY <2>1
    <2> QED
      BY <2>1, <2>2
  <1> HIDE DEF s, u
  <1>13. Extends(s, u, n) /\ u[n + 1] = t
    BY <1>9, <1>10, <1>11, <1>12 DEF Extends
  <1>14. \A i, j \in 1 .. n : s[i] = s[j] => i = j
    BY <1>1, <1>2, <1>8, <1>11 DEF ListedOnce
  <1>15. \A i \in 1 .. n : s[i] \in Thread /\ s[i] # t
    BY <1>5, <1>6, <1>11
  <1>16. \A i \in 1 .. n : s[i] \notin Children(forest, t)
    BY <1>2, <1>5, <1>11 DEF WalkInv, ParentsFirst
  \* The thread whose list the innermost frame walks is in the listing, and
  \* all that was listed since it entered that list is below it.
  <1>17. \A k \in 2 .. len : \E i \in 1 .. n :
           s[i] = frames[k].ta /\ BelowFrom(forest, s, i, n)
    BY <1>3, <1>4, <1>8 DEF EnteredInOrder, s
  <1>18. p # 0 => \E i \in 1 .. n : s[i] = p /\ BelowFrom(forest, s, i, n)
    <2>1. p # 0 => len \in 2 .. len
      BY <1>2, <1>4 DEF WalkInv, FramesInv
    <2> QED
      BY <1>4, <1>17, <2>1
  <1>19. p # t
    BY <1>5, <1>6, ThreadAddresses
  <1>20. BranchesTogether(forest, u)
    <2>1. BranchesTogether(forest, s)
      BY <1>3 DEF s
    <2> QED
      BY <1>2, <1>5, <1>7, <1>13, <1>14, <1>15, <1>16, <1>18, <1>19, <2>1,
         AddedBranch
  <1>21. SiblingsInOrder(forest, u)
    <2>1. SiblingsInOrder(forest, s)
      BY <1>3 DEF s
    <2>2. \A i \in 1 .. n : \A m \in 1 .. Len(forest[p]) :
            s[i] = forest[p][m] => m < x
      BY <1>4, <1>5, <1>11 DEF AtPosition
    <2> QED
      BY <1>2, <1>5, <1>7, <1>13, <2>1, <2>2, AddedSibling
  <1>22. PICK f : /\ f = frames' /\ Len(f) = len + 1 /\ f[len + 1].ta = t
                  /\ \A k \in 1 .. len : f[k] = frames[k]
    <2>1. PICK w \in Addr : frames' = Append(frames, [ta |-> t, it |-> w])
      <3>1. PICK begin \in IterBegin(t) :
              frames' = Append(frames, [ta |-> t, it |-> begin.word])
        BY <1>4 DEF Visit
      <3> QED
        BY <1>2, <3>1, LinkReadsType DEF IterBegin, TypeOK
    <2>2. frames \in Seq(Frame)
      BY <1>2 DEF TypeOK
    <2> QED
      BY <1>4, <2>1, <2>2
  \* The parent of the new thread was listed no earlier than the owners of the
  \* other lists that the walk is in.
  <1>23. \A k \in 2 .. len : \E i \in 1 .. n :
           u[i] = f[k].ta /\ BelowFrom(forest, u, i, n + 1)
    <2> SUFFICES ASSUME NEW k \in 2 .. len
                 PROVE  \E i \in 1 .. n :
                          u[i] = f[k].ta /\ BelowFrom(forest, u, i, n + 1)
      OBVIOUS
    <2>1. PICK i \in 1 .. n : s[i] = frames[k].ta /\ BelowFrom(forest, s, i, n)
      BY <1>17
    <2>2. PICK h \in 1 .. n : s[h] = p
      <3>1. len \in 2 .. len
        BY <1>4
      <3> QED
        BY <1>4, <1>17, <3>1
    <2>3. h \in i .. n
      <3>1. CASE k = len
        BY <1>4, <1>14, <2>1, <2>2, <3>1
      <3>2. CASE k # len
        <4>1. k \in 2 .. len /\ len \in 2 .. len /\ k < len
          BY <1>4, <3>2
        <4>2. i < h
          BY <1>3, <1>4, <1>8, <2>1, <2>2, <4>1 DEF EnteredInOrder, s
        <4> QED
          BY <4>2
      <3> QED
        BY <3>1, <3>2
    <2>4. u[n + 1] \in Children(forest, s[h])
      BY <1>7, <1>13, <2>2
    <2>5. BelowFrom(forest, u, i, n + 1)
      BY <1>13, <2>1, <2>3, <2>4, BelowGrows
    <2>6. u[i] = f[k].ta
      BY <1>4, <1>13, <1>22, <2>1 DEF Extends
    <2> QED
      BY <2>5, <2>6
  <1>24. \A k \in 2 .. len + 1 : \E i \in 1 .. n + 1 :
           u[i] = f[k].ta /\ BelowFrom(forest, u, i, n + 1)
    <2> SUFFICES ASSUME NEW k \in 2 .. len + 1
                 PROVE  \E i \in 1 .. n + 1 :
                          u[i] = f[k].ta /\ BelowFrom(forest, u, i, n + 1)
      OBVIOUS
    <2>1. CASE k \in 2 .. len
      BY <1>23, <2>1
    <2>2. CASE k = len + 1
      <3>1. BelowFrom(forest, u, n + 1, n + 1)
        BY DEF BelowFrom
      <3> QED
        BY <1>13, <1>22, <2>2, <3>1
    <2> QED
      BY <1>4, <2>1, <2>2
  <1>25. \A k, m \in 2 .. len + 1 : \A i, j \in 1 .. n + 1 :
           k < m /\ u[i] = f[k].ta /\ u[j] = f[m].ta => i < j
    <2> SUFFICES ASSUME NEW k \in 2 .. len + 1, NEW m \in 2 .. len + 1,
                        NEW i \in 1 .. n + 1, NEW j \in 1 .. n + 1,
                        k < m, u[i] = f[k].ta, u[j] = f[m].ta
                 PROVE  i < j
      OBVIOUS
    <2>1. k \in 2 .. len /\ f[k].ta = frames[k].ta
      BY <1>4, <1>22
    <2>2. frames[k].ta # t
      BY <1>15, <1>17, <2>1
    <2>3. i \in 1 .. n /\ u[i] = s[i]
      BY <1>13, <2>1, <2>2 DEF Extends
    <2>4. CASE j = n + 1
      BY <2>3, <2>4
    <2>5. CASE j \in 1 .. n
      <3>1. u[j] = s[j] /\ s[j] # t
        BY <1>13, <1>15, <2>5 DEF Extends
      <3>2. m \in 2 .. len /\ f[m].ta = frames[m].ta
        BY <1>4, <1>22, <3>1
      <3> QED
        BY <1>3, <1>4, <1>8, <2>1, <2>3, <2>5, <3>1, <3>2 DEF EnteredInOrder, s
    <2> QED
      BY <2>4, <2>5
  <1>26. EnteredInOrder'
    BY <1>1, <1>10, <1>22, <1>24, <1>25 DEF EnteredInOrder, u
  <1> QED
    BY <1>1, <1>20, <1>21, <1>26 DEF u

LEMMA SameListing ==
  ASSUME forest' = forest, vector' = vector, count' = count
  PROVE  /\ Listing' = Listing
         /\ BranchesTogether(forest, Listing)' <=> BranchesTogether(forest, Listing)
         /\ SiblingsInOrder(forest, Listing)' <=> SiblingsInOrder(forest, Listing)
  <1>1. Listing' = Listing
    BY DEF Listing
  <1> QED
    BY <1>1

\* The frames that remain when the innermost call returns entered in order.
LEMMA NextSiblingOrder ==
  ASSUME TypeOK, EnteredInOrder, NextSibling
  PROVE  EnteredInOrder'
  <1>1. /\ frames \in Seq(Frame) /\ Len(frames) \in Nat /\ Len(frames) > 1
        /\ forest' = forest /\ vector' = vector /\ count' = count
    BY DEF TypeOK, NextSibling, targetVars, threadsVars
  <1>2. Listing' = Listing
    BY <1>1, SameListing
  <1>3. PICK w \in Addr : frames' = Resumed(frames, w)
    BY LinkReadsType DEF NextSibling, IterNext, TypeOK
  <1>4. PICK n \in Nat : n = Len(frames) - 1
    BY <1>1
  <1>5. Len(frames') = n /\ \A k \in 1 .. n : frames'[k].ta = frames[k].ta
    BY <1>1, <1>3, <1>4, ResumedProperties
  <1>6. \A k \in 2 .. n : k \in 2 .. Len(frames) /\ k \in 1 .. n
    BY <1>1, <1>4
  <1> QED
    BY <1>1, <1>2, <1>5, <1>6 DEF EnteredInOrder

LEMMA NextOrder ==
  ASSUME IInv, OrderInv, [Next]_vars
  PROVE  OrderInv'
  <1>1. TypeOK
    BY DEF IInv
  <1>2. CASE UpdateThreads
    <2>1. /\ pc' = "walk" /\ fresh' = TRUE /\ count' = 0 /\ vector' = vector
          /\ Len(frames') = 1 /\ forest' = forest
      BY <1>2 DEF UpdateThreads, Clear, targetVars
    <2>2. Listing' = <<>> /\ Len(Listing') = 0
      BY <2>1 DEF Listing
    <2>3. BranchesTogether(forest', Listing') /\ SiblingsInOrder(forest', Listing')
      BY <2>2 DEF BranchesTogether, SiblingsInOrder
    <2>4. EnteredInOrder'
      BY <2>1 DEF EnteredInOrder
    <2> QED
      BY <2>1, <2>3, <2>4 DEF OrderInv
  <1>3. CASE Visit
    <2>1. pc = "walk" /\ pc' = pc /\ fresh' = fresh
      BY <1>3 DEF Visit
    <2> QED
      BY <1>3, <2>1, VisitOrder DEF OrderInv
  <1>4. CASE NextSibling
    <2>1. /\ pc = "walk" /\ pc' = pc /\ fresh' = fresh /\ faults \subseteq faults'
          /\ forest' = forest /\ vector' = vector /\ count' = count
      BY <1>4 DEF NextSibling, targetVars, threadsVars
    <2> QED
      BY <1>1, <1>4, <2>1, SameListing, NextSiblingOrder DEF OrderInv, LinksIntact
  <1>5. CASE WalkDone
    <2>1. /\ pc = "walk" /\ pc' = "current" /\ fresh' = fresh /\ faults' = faults
          /\ forest' = forest /\ vector' = vector /\ count' = count
      BY <1>5 DEF WalkDone, targetVars, threadsVars
    <2> QED
      BY <2>1, SameListing DEF OrderInv, LinksIntact
  <1>6. CASE TargetRuns \/ Exhausted \/ UpdateCurrentThread
    BY <1>6 DEF TargetRuns, Exhausted, UpdateCurrentThread, OrderInv
  <1>7. CASE UNCHANGED vars
    <2>1. /\ pc' = pc /\ fresh' = fresh /\ faults' = faults /\ frames' = frames
          /\ forest' = forest /\ vector' = vector /\ count' = count
      BY <1>7 DEF vars, targetVars, threadsVars, walkVars
    <2> QED
      BY <2>1, SameListing DEF OrderInv, LinksIntact, EnteredInOrder
  <1> QED
    BY <1>2, <1>3, <1>4, <1>5, <1>6, <1>7 DEF Next, WalkStep

---------------------------------------------------------------------------
(* The steps of the abstract specification.                                *)

\* It has the same trees of threads.
LEMMA SameTrees ==
  ASSUME NEW f, NEW s
  PROVE  /\ Abstract!Members(f) = Members(f)
         /\ InPreorder(f, s) => Abstract!InPreorder(f, s)
  <1>1. Abstract!Owner = Owner
    BY DEF Owner, Abstract!Owner
  <1>2. \A p : Abstract!Children(f, p) = Children(f, p)
    BY DEF Children, Abstract!Children
  <1>3. Abstract!Members(f) = Members(f)
    BY <1>1, <1>2 DEF Members, Abstract!Members
  <1>4. \A i, j : Abstract!BelowFrom(f, s, i, j) <=> BelowFrom(f, s, i, j)
    BY <1>2 DEF BelowFrom, Abstract!BelowFrom
  <1>5. BranchesTogether(f, s) => Abstract!BranchesTogether(f, s)
    BY <1>2, <1>4 DEF BranchesTogether, Abstract!BranchesTogether
  <1>6. SiblingsInOrder(f, s) => Abstract!SiblingsInOrder(f, s)
    BY <1>1 DEF SiblingsInOrder, Abstract!SiblingsInOrder
  <1> QED
    BY <1>3, <1>5, <1>6 DEF InPreorder, Abstract!InPreorder

\* What the collection shows when the update returns is a snapshot.
LEMMA ReturnsSnapshot ==
  ASSUME ~LinkFaults, TcbFaults = {{}}, ~CurrentFaults,
         IInv, IInv', CollectionInv, CollectionInv', AllRead, OrderInv,
         UpdateCurrentThread
  PROVE  Abstract!Return
  <1>1. /\ pc = "current" /\ pc' = "idle" /\ fresh' = fresh /\ faults' = faults
        /\ vector' = vector /\ count' = count
        /\ current' = ThreadByAddr(currentWord)
        /\ forest' = forest /\ tcb' = tcb /\ currentWord' = currentWord
    BY DEF UpdateCurrentThread, SetCurrent, targetVars
  <1>2. LinksIntact /\ fresh /\ "tcb" \notin faults /\ "current" \notin faults
    BY <1>1 DEF CollectionInv, NoLinkFaults, AllRead, OrderInv
  <1>3. /\ TypeOK /\ ThreadsTypeOK /\ ListedOnce
        /\ ListedAddrs = Members(forest)
    BY <1>1, <1>2 DEF IInv, TypeOK
  <1>4. /\ count \in Nat /\ Len(Listing) = count
        /\ \A i \in 1 .. count : Listing[i] = vector[i].addr
        /\ ListedAddrs = {Listing[i] : i \in 1 .. count}
    BY <1>3, ListingFacts
  <1>5. InPreorder(forest, Listing)
    BY <1>1, <1>2, <1>3, <1>4 DEF InPreorder, OrderInv, ListedOnce
  <1> DEFINE list == [i \in 1 .. count |-> [addr |-> vector[i].addr,
                                            body |-> vector[i].body]]
  <1>6. Len(list) = count /\ DOMAIN list = 1 .. count
    <2>1. list \in Seq({[addr |-> vector[i].addr, body |-> vector[i].body] :
                          i \in 1 .. count})
      BY <1>4
    <2> QED
      BY <1>4, <2>1
  <1>7. Shown'.list = list
    BY <1>1 DEF Shown
  <1>8. \A i \in 1 .. count : list[i].addr = vector[i].addr
                              /\ list[i].body = vector[i].body
    OBVIOUS
  <1>9. \A i \in 1 .. count : vector[i].body = tcb[vector[i].addr]
    BY <1>2 DEF CollectionInv, NoForeignData
  <1>10. Shown'.current = IF current' \in 1 .. count THEN vector[current'].addr
                          ELSE 0
    BY <1>1 DEF Shown
  <1>11. Shown'.current = IF currentWord \in Members(forest) THEN currentWord ELSE 0
    <2>1. CASE currentWord \in Members(forest)
      <3>1. UpToDate' /\ "current" \notin faults'
        BY <1>1, <1>2 DEF UpToDate, LinksIntact
      <3>2. current' \in 1 .. count /\ vector[current'].addr = currentWord
        BY <1>1, <2>1, <3>1 DEF CollectionInv, CurrentCorrect
      <3> QED
        BY <1>10, <2>1, <3>2
    <2>2. CASE currentWord \notin Members(forest)
      <3> DEFINE S == {i \in 1 .. Len(vector) : vector[i].addr = currentWord}
      <3>1. Len(vector) \in Nat /\ current' = FirstOf(S)
        BY <1>1, <1>3 DEF ThreadsTypeOK, ThreadByAddr
      <3>2. current' = 0 \/ current' \in S
        BY <3>1, FirstOfProperties
      <3>3. current' \notin 1 .. count
        BY <1>3, <1>4, <2>2, <3>2
      <3> QED
        BY <1>10, <2>2, <3>3
    <2> QED
      BY <2>1, <2>2
  <1>12. PICK shot : shot = Shown'
    OBVIOUS
  <1> HIDE DEF list
  <1>13. [i \in 1 .. Len(shot.list) |-> shot.list[i].addr] = Listing
    BY <1>6, <1>7, <1>8, <1>12 DEF Listing
  <1>14. \A i \in 1 .. Len(shot.list) : shot.list[i].body = tcb[shot.list[i].addr]
    BY <1>6, <1>7, <1>8, <1>9, <1>12
  <1>15. Abstract!InPreorder(forest, Listing)
    BY <1>5, SameTrees
  <1>16. Abstract!Members(forest) = Members(forest)
    BY SameTrees
  <1>17. Abstract!IsSnapshot(shot)
    BY <1>11, <1>12, <1>13, <1>14, <1>15, <1>16 DEF Abstract!IsSnapshot
  <1>18. (pc # "idle") = TRUE /\ (pc' # "idle") = FALSE
    BY <1>1
  <1> QED
    BY <1>1, <1>12, <1>17, <1>18 DEF Abstract!Return

LEMMA InitSnapshot == Init => Abstract!Init
  <1> SUFFICES ASSUME Init PROVE Abstract!Init
    OBVIOUS
  <1>1. pc = "idle" /\ count = 0 /\ current = 0
    BY DEF Init, ThreadsInit
  <1>2. Shown = Abstract!Nothing
    BY <1>1 DEF Shown, Abstract!Nothing
  <1>3. (pc # "idle") = FALSE
    BY <1>1
  <1> QED
    BY <1>2, <1>3 DEF Init, Abstract!Init

\* Every other step of an update, or none at all, is a stutter.
LEMMA NextSnapshot ==
  ASSUME ~LinkFaults, TcbFaults = {{}}, ~CurrentFaults,
         IInv, IInv', CollectionInv, CollectionInv', AllRead, OrderInv,
         [Next]_vars
  PROVE  [Abstract!Next]_(Abstract!vars)
  <1>1. CASE TargetRuns
    <2>1. /\ pc = "idle" /\ pc' = pc
          /\ vector' = vector /\ count' = count /\ current' = current
          /\ forest' \in Forests /\ tcb' \in Tcbs /\ currentWord' \in CurrentWords
      BY <1>1 DEF TargetRuns, threadsVars
    <2>2. Shown' = Shown
      BY <2>1 DEF Shown
    <2>3. (pc # "idle") = FALSE /\ (pc' # "idle") = FALSE
      BY <2>1
    <2> QED
      BY <2>1, <2>2, <2>3 DEF Abstract!TargetRuns, Abstract!Next
  <1>2. CASE UpdateThreads
    <2>1. /\ pc = "idle" /\ pc' = "walk"
          /\ UNCHANGED <<forest, tcb, currentWord>>
      BY <1>2 DEF UpdateThreads, targetVars
    <2>2. Shown' = Abstract!Nothing
      BY <2>1 DEF Shown, Abstract!Nothing
    <2>3. (pc # "idle") = FALSE /\ (pc' # "idle") = TRUE
      BY <2>1
    <2> QED
      BY <2>1, <2>2, <2>3 DEF Abstract!Begin, Abstract!Next
  <1>3. CASE Visit \/ Exhausted \/ NextSibling \/ WalkDone
    <2>1. /\ pc # "idle" /\ pc' # "idle"
          /\ UNCHANGED <<forest, tcb, currentWord>>
      BY <1>3 DEF Visit, Exhausted, NextSibling, WalkDone, targetVars
    <2>2. Shown' = Shown
      BY <2>1 DEF Shown
    <2>3. (pc # "idle")' = (pc # "idle")
      BY <2>1
    <2> QED
      BY <2>1, <2>2, <2>3 DEF Abstract!vars
  <1>4. CASE UpdateCurrentThread
    BY <1>4, ReturnsSnapshot DEF Abstract!Next
  <1>5. CASE UNCHANGED vars
    <2>1. /\ pc' = pc /\ UNCHANGED <<forest, tcb, currentWord>>
          /\ vector' = vector /\ count' = count /\ current' = current
      BY <1>5 DEF vars, targetVars, threadsVars, walkVars
    <2>2. Shown' = Shown /\ (pc # "idle")' = (pc # "idle")
      BY <2>1 DEF Shown
    <2> QED
      BY <2>1, <2>2 DEF Abstract!vars
  <1> QED
    BY <1>1, <1>2, <1>3, <1>4, <1>5 DEF Next, WalkStep

(***************************************************************************)
(* Theorem.                                                                *)
(***************************************************************************)

\* For any forests and any history of updates that can be read, what
\* update_threads() leaves in the collection is what the target held when it
\* was called: its threads in preorder, with their members, and the one that
\* runs.  It implements UpdateSnapshot under the mapping of WalkSnapshot.
THEOREM UpdateKeepsPromise ==
  ASSUME ~LinkFaults, TcbFaults = {{}}, ~CurrentFaults
  PROVE  Spec => ImplementsSnapshot
  <1>1. Init => AllRead /\ OrderInv
    BY DEF Init, AllRead, OrderInv
  <1>2. IInv /\ AllRead /\ OrderInv /\ [Next]_vars => AllRead' /\ OrderInv'
    BY NextAllRead, NextOrder
  <1>3. /\ IInv /\ CollectionInv /\ IInv' /\ CollectionInv'
        /\ AllRead /\ OrderInv /\ [Next]_vars
        => [Abstract!Next]_(Abstract!vars)
    BY NextSnapshot
  <1> QED
    BY <1>1, <1>2, <1>3, InitSnapshot, CollectionInvariant, PTL
    DEF Spec, ImplementsSnapshot, Abstract!Spec
=============================================================================
