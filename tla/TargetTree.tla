----------------------------- MODULE TargetTree -----------------------------
(***************************************************************************)
(* The thread lists in the memory of the debugged target, as               *)
(* include/drtm/run-time-data.h reads them.  The RTOS that writes them is  *)
(* not in this repository.                                                 *)
(*                                                                         *)
(* Every thread has a list of children, and one more list, at              *)
(* scheduler.top_threads_list_addr, has the threads without a parent.  A   *)
(* list is circular and intrusive: its head is a node inside the parent's  *)
(* thread control block, its elements are nodes inside the children's, and *)
(* the word at next_offset of a node is the address of the next node, the  *)
(* last one pointing back to the head.                                     *)
(***************************************************************************)
EXTENDS Words, Sequences

CONSTANTS
  Thread,              \* addresses at which thread control blocks may be
  TopThreadsList,      \* scheduler.top_threads_list_addr
  ListNodeOffset,      \* thread.list_node_offset
  ChildrenNodeOffset,  \* thread.children_node_offset
  NextOffset           \* list_links.next_offset

\* The owner of a list: a thread, or 0 for the top list.
Owner == {0} \cup Thread

---------------------------------------------------------------------------
(* Addresses.                                                              *)

\* children_threads_get_list(ta), which is also the end() of the list.
ListOf(ta) == IF ta = 0 THEN TopThreadsList ELSE Wrap(ta + ChildrenNodeOffset)

\* The node that links thread t into its parent's list.
NodeOf(t) == Wrap(t + ListNodeOffset)

\* children_threads_iter_get(it).
ThreadOf(it) == Wrap(it - ListNodeOffset)

\* The address of the next pointer of a node.
LinkOf(node) == Wrap(node + NextOffset)

(***************************************************************************)
(* Thread control blocks are word-aligned objects of target memory.  None  *)
(* is at address 0 or wraps around, and the nodes in them and the head of  *)
(* the top list are all at different addresses.                            *)
(***************************************************************************)
ASSUME LayoutAssumption ==
  /\ ListNodeOffset \in Addr
  /\ ChildrenNodeOffset \in Addr
  /\ NextOffset \in Addr
  /\ \A t \in Thread :
       /\ t \in 1 .. AddrSpace - 1
       /\ t % 4 = 0
       /\ t + ListNodeOffset + NextOffset < AddrSpace
       /\ t + ChildrenNodeOffset + NextOffset < AddrSpace
       /\ TopThreadsList # t + ListNodeOffset
       /\ TopThreadsList # t + ChildrenNodeOffset
  /\ \A t, u \in Thread : t + ListNodeOffset # u + ChildrenNodeOffset
  /\ TopThreadsList \in 1 .. AddrSpace - 1
  /\ TopThreadsList + NextOffset < AddrSpace

---------------------------------------------------------------------------
(* A forest f gives the children of every owner, in list order.            *)

\* The node at position i of the circle of owner p.  Both 0 and the
\* position after the last element are the head of the list.
NodeAt(f, p, i) == IF i \in 1 .. Len(f[p]) THEN NodeOf(f[p][i]) ELSE ListOf(p)

Children(f, p) == {f[p][i] : i \in 1 .. Len(f[p])}

Members(f) == UNION {Children(f, p) : p \in Owner}

\* The words that may be read at address a: the next pointer of the node
\* there.
LinkWords(f, a) ==
  UNION {{NodeAt(f, p, i + 1) :
            i \in {j \in 0 .. Len(f[p]) : LinkOf(NodeAt(f, p, j)) = a}} :
         p \in Owner}

\* No thread is in two places.
NoSharing(f) ==
  \A p, q \in Owner : \A i \in 1 .. Len(f[p]) : \A j \in 1 .. Len(f[q]) :
    f[p][i] = f[q][j] => p = q /\ i = j

\* Every listed thread is a descendant of the top list: a set of threads
\* that has the top threads, and with a thread its children, has them all.
Rooted(f) ==
  \A S \in SUBSET Members(f) :
    (\A p \in {0} \cup S : Children(f, p) \subseteq S) => S = Members(f)

IsForest(f) ==
  /\ f \in [Owner -> Seq(Thread)]
  /\ NoSharing(f)
  /\ Rooted(f)

---------------------------------------------------------------------------
(***************************************************************************)
(* Preorder: a sequence s of threads in which all come after their parent, *)
(* together with nothing but what is below it, and siblings come in the    *)
(* order of their list.                                                    *)
(***************************************************************************)

\* Each thread after position i, up to j, has its parent between i and itself.
BelowFrom(f, s, i, j) ==
  \A k \in i + 1 .. j : \E h \in i .. k - 1 : s[k] \in Children(f, s[h])

BranchesTogether(f, s) ==
  \A i, j \in 1 .. Len(s) :
    s[j] \in Children(f, s[i]) => i < j /\ BelowFrom(f, s, i, j)

SiblingsInOrder(f, s) ==
  \A p \in Owner : \A m, n \in 1 .. Len(f[p]) : \A i, j \in 1 .. Len(s) :
    m < n /\ s[i] = f[p][m] /\ s[j] = f[p][n] => i < j

\* The threads of f, each once, in preorder.
InPreorder(f, s) ==
  /\ {s[i] : i \in 1 .. Len(s)} = Members(f)
  /\ \A i, j \in 1 .. Len(s) : s[i] = s[j] => i = j
  /\ BranchesTogether(f, s)
  /\ SiblingsInOrder(f, s)
============================================================================
