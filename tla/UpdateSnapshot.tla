--------------------------- MODULE UpdateSnapshot ---------------------------
(***************************************************************************)
(* What run_time_data::update_threads() promises when the target can be    *)
(* read: when it returns, the collection is what the target holds.  The    *)
(* threads come in preorder, each after its parent and the siblings linked *)
(* before it, and the current thread is known if it is listed.             *)
(***************************************************************************)
EXTENDS TargetTree

CONSTANTS Forests, Tcbs, CurrentWords

VARIABLES
  forest, tcb, currentWord,  \* the target's memory
  busy,                      \* an update has begun and has not returned
  shown                      \* what the collection shows after an update

vars == <<forest, tcb, currentWord, busy, shown>>

Nothing == [list |-> <<>>, current |-> 0]

\* The collection has all that the target has, in the order of its lists.
IsSnapshot(shot) ==
  /\ InPreorder(forest, [i \in 1 .. Len(shot.list) |-> shot.list[i].addr])
  /\ \A i \in 1 .. Len(shot.list) : shot.list[i].body = tcb[shot.list[i].addr]
  /\ shot.current = IF currentWord \in Members(forest) THEN currentWord ELSE 0

Init ==
  /\ forest \in Forests
  /\ tcb \in Tcbs
  /\ currentWord \in CurrentWords
  /\ busy = FALSE
  /\ shown = Nothing

TargetRuns ==
  /\ ~busy
  /\ forest' \in Forests
  /\ tcb' \in Tcbs
  /\ currentWord' \in CurrentWords
  /\ UNCHANGED <<busy, shown>>

Begin ==
  /\ ~busy
  /\ busy' = TRUE
  /\ shown' = Nothing
  /\ UNCHANGED <<forest, tcb, currentWord>>

Return ==
  /\ busy
  /\ busy' = FALSE
  /\ IsSnapshot(shown')
  /\ UNCHANGED <<forest, tcb, currentWord>>

Next == TargetRuns \/ Begin \/ Return

Spec == Init /\ [][Next]_vars
=============================================================================
