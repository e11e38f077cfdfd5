---------------------------- MODULE WalkSnapshot ----------------------------
(***************************************************************************)
(* The refinement mapping under which RunTimeData implements               *)
(* UpdateSnapshot: an update is under way until the plug-in is idle again, *)
(* and until then nothing is shown.                                        *)
(***************************************************************************)
EXTENDS RunTimeData

Shown ==
  IF pc # "idle" THEN [list |-> <<>>, current |-> 0]
  ELSE [list |-> [i \in 1 .. count |-> [addr |-> vector[i].addr,
                                        body |-> vector[i].body]],
        current |-> IF current \in 1 .. count THEN vector[current].addr
                    ELSE 0]

Abstract == INSTANCE UpdateSnapshot WITH busy <- pc # "idle", shown <- Shown

\* A whole update of the collection, its recursion and the search for the
\* current thread included, is one step of the abstract specification.
ImplementsSnapshot == Abstract!Spec

(***************************************************************************)
(* The inductive invariant behind the order.  The threads listed so far    *)
(* are in preorder; what is listed since the walk entered the list of a    *)
(* thread that it has not left is below that thread, and it entered the    *)
(* lists of its frames in the order of the frames.                         *)
(***************************************************************************)
Listing == [i \in 1 .. count |-> vector[i].addr]

EnteredInOrder ==
  /\ \A k \in 2 .. Len(frames) : \E i \in 1 .. count :
       Listing[i] = frames[k].ta /\ BelowFrom(forest, Listing, i, count)
  /\ \A k, m \in 2 .. Len(frames) : \A i, j \in 1 .. count :
       k < m /\ Listing[i] = frames[k].ta /\ Listing[j] = frames[m].ta => i < j

OrderInv ==
  pc \in {"walk", "current"} =>
    /\ fresh
    /\ LinksIntact => /\ BranchesTogether(forest, Listing)
                      /\ SiblingsInOrder(forest, Listing)
                      /\ pc = "walk" => EnteredInOrder
============================================================================
