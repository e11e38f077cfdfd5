---------------------------- MODULE FrontendView ----------------------------
(***************************************************************************)
(* The front end as a debugger sees it: the refinement mapping under which *)
(* Frontend implements DebugView.  A thread is named by its ID; the view   *)
(* is what the queries would answer, and there is none while the lists are *)
(* walked.                                                                 *)
(***************************************************************************)
EXTENDS Frontend

ThreadIds == {IdOf(t) : t \in Thread}

DebugTarget ==
  [threads |-> {IdOf(t) : t \in Members(forest)},
   running |-> IdOf(currentWord),
   started |-> started,
   saved |-> [id \in ThreadIds |-> stack[tcb[4 * id].sp]]]

Updating == pc \in {"walk", "current"}

SeenOf(id) ==
  LET p == FirstOf({i \in 1 .. count : vector[i].id = id})
  IN  IF p = 0 THEN NoContext ELSE vector[p].context

DebuggerView ==
  [threads |-> IF Updating THEN {}
               ELSE {GetThreadId(i) : i \in 0 .. GetThreadsCount - 1},
   running |-> IF Updating THEN IdNone ELSE GetCurrentThreadId,
   seen |-> [id \in ThreadIds |-> IF Updating THEN NoContext ELSE SeenOf(id)]]

\* A request to set registers is not answered.
DebugAnswer ==
  IF reply.call = "get" /\ reply.ret = 0
    THEN <<"registers", reply.tid, reply.context>>
  ELSE IF reply.call = "get" THEN <<"refused", reply.tid, NoContext>>
  ELSE IF reply.call = "abort" THEN <<"failed", reply.tid, NoContext>>
  ELSE <<"none", IdNone, NoContext>>

Promise == INSTANCE DebugView WITH
  Ids <- ThreadIds, Asked <- QueryIds, Nobody <- IdNone,
  Registers <- Context, Unread <- NoContext, Unreadable <- Zeros,
  target <- DebugTarget, busy <- Updating, view <- DebuggerView,
  answer <- DebugAnswer

(***************************************************************************)
(* The promise is made for a target whose lists, control blocks and        *)
(* current thread can be read and whose contexts fit their buffer, and a   *)
(* host with room for its threads.  Whether the scheduler runs and what is *)
(* on the stacks may be unreadable.                                        *)
(***************************************************************************)
Readable ==
  /\ ~LinkFaults
  /\ TcbFaults = {{}}
  /\ ~CurrentFaults
  /\ CurrentWords \subseteq Thread
  /\ \A blocks \in Tcbs : \A t \in Thread :
       ContextWords >= InRegisters(blocks[t].fp)
  /\ MaxDepth > Cardinality(Thread)
  /\ MaxObjects >= Cardinality(Thread)

\* From one update to the next the debugger looks at the threads the target had
\* when it asked for the update; registers it was shown once are shown again,
\* whatever the target did meanwhile, and asking for a thread that is gone,
\* served from a stale object or not, changes nothing of that.
ImplementsDebugView == Promise!DebugSpec
============================================================================
