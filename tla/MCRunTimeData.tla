--------------------------- MODULE MCRunTimeData ---------------------------
(***************************************************************************)
(* RunTimeData on small instances: a 64-byte target with up to three       *)
(* threads, in all the trees they can form.                                *)
(***************************************************************************)
EXTENDS WalkSnapshot, SequencesExt

\* Control blocks are 12 apart; the list node is at offset 4 of each and the
\* head of its children list at offset 8.
MCThread2 == {4, 16}
MCThread3 == {4, 16, 28}

MCLists == UNION {{s \in [1 .. n -> Thread] : \A i, j \in 1 .. n :
                     s[i] = s[j] => i = j} : n \in 0 .. 3}

\* All the trees of some of the threads (in a form that TLC enumerates once).
AllForests == {g : g \in {f \in [Owner -> MCLists] : IsForest(f)}}
MCForests == AllForests

\* Two threads that differ in every member, and a second state of the first.
MCBody(name, byte, fp) ==
  [name |-> name, prio_assigned |-> byte, prio_inherited |-> byte + 1,
   state |-> byte + 2, sp |-> 20 + byte, fp |-> fp]

MCTcb == [t \in Thread |-> MCBody(t, t, t = 16)]
MCTcb2 == [MCTcb EXCEPT ![4].prio_inherited = 9, ![4].state = 1]

MCOneTcb == {MCTcb}
MCTwoTcbs == {MCTcb, MCTcb2}

\* The current thread may be none (0), or one that is in no list.
MCCurrentWords == {0} \cup Thread

MCNoFault == {{}}
MCFieldFaults == {{}} \cup {{field} : field \in TcbFields}
                   \cup {{"prio_assigned", "prio_inherited", "state"}}
MCZero == {0}
MCLeftover == {0, 77}
MCNone == {}
MCJunkWords == {0, 7}
MCJunkBody == MCBody(NoName, 30, FALSE)

---------------------------------------------------------------------------
(* Nothing looks at the target between two updates, so that one step from  *)
(* any memory to any other stands for all its runs between them.           *)

MCNext == (fresh /\ TargetRuns) \/ UpdateThreads \/ WalkStep

MCSpec == Init /\ [][MCNext]_vars /\ Fairness

---------------------------------------------------------------------------
(* InPreorder determines the list: it is the one that the recursion over   *)
(* the forest gives.                                                       *)

Preorder(f) ==
  LET below[p \in Owner] ==
        FlattenSeq([i \in 1 .. Len(f[p]) |-> <<f[p][i]>> \o below[f[p][i]]])
  IN  below[0]

ASSUME PreorderIsUnique ==
  \A f \in MCForests :
    {s \in [1 .. Cardinality(Members(f)) -> Members(f)] : InPreorder(f, s)}
      = {Preorder(f)}
============================================================================
