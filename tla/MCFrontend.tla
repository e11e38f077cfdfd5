----------------------------- MODULE MCFrontend -----------------------------
(***************************************************************************)
(* Frontend on small instances: a target with up to two threads, whose     *)
(* lists, stacks, current thread and scheduler change between updates.     *)
(***************************************************************************)
EXTENDS FrontendView, TLC

CONSTANTS z, a, b   \* contexts: the zeros of a cleared object, and two others

MCThread == {4, 16}

MCLists == UNION {{s \in [1 .. n -> Thread] : \A i, j \in 1 .. n :
                     s[i] = s[j] => i = j} : n \in 0 .. 2}
AllForests == {g : g \in {f \in [Owner -> MCLists] : IsForest(f)}}
MCForests == AllForests

MCBody(name, byte, fp) ==
  [name |-> name, prio_assigned |-> byte, prio_inherited |-> byte,
   state |-> byte, sp |-> 20 + byte, fp |-> fp]
MCTcbs == {[t \in Thread |-> MCBody(t, t, FALSE)]}

\* The second thread uses the floating point registers.
MCTcbsFp == {[t \in Thread |-> MCBody(t, t, t = 16)]}

MCCurrentWords == Thread
MCJunkBody == MCBody(NoName, 30, FALSE)
MCNoFault == {{}}
MCZero == {0}
MCNone == {}

\* The stacks of the two threads may hold the same or not, and either changes.
MCStacks == {[x \in Addr |-> IF x = 24 THEN c[1] ELSE c[2]] :
               c \in {<<a, a>>, <<a, b>>, <<b, a>>}}

\* No thread, and those that may be in the lists.
MCQueryIds == {0, 1, 4}

MCHeaders == {[magic |-> TRUE, v |-> TRUE, major |-> 0]}
MCHeaderFaults == {"magic", "version"}

(***************************************************************************)
(* Two runs of the target are as one unless something looks at it between  *)
(* them.  Before the next update only the queries of registers do, which   *)
(* leave a reply, and all they look at is the stacks.                      *)
(***************************************************************************)
MCNext ==
  \/ fresh /\ TargetRunsAndHalts
  \/ reply # NoReply /\ UNCHANGED <<targetVars, started>> /\ TargetRunsAndHalts
  \/ HaltedNext

MCSpec == FrontendInit /\ [][MCNext]_allVars

\* What the proof that the front end keeps the promise assumes is so here.
ASSUME ReadableHere == Tcbs = MCTcbs => Readable
=============================================================================
