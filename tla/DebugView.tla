----------------------------- MODULE DebugView -----------------------------
(***************************************************************************)
(* What the front end promises a debugger.  Between two updates it looks   *)
(* at a fixed view of the target: the threads that were there when it      *)
(* asked for the update, and which of them was running.  The registers of  *)
(* a thread are those saved when it first asks for them, and stay the same *)
(* until the next update; those of the running thread it has to fetch      *)
(* itself.  Of an ID that is not in the view nothing is promised but that  *)
(* asking for it does not change what is seen of the others.               *)
(***************************************************************************)
EXTENDS Naturals

CONSTANTS
  Ids,        \* the threads a target may have
  Asked,      \* the IDs a debugger may ask for, of threads or not
  Nobody,     \* no thread
  Registers,  \* what the registers of a thread may be
  Unread,     \* they were not asked for
  Unreadable  \* what a debugger is shown of registers that cannot be read

Target == [threads: SUBSET Ids, running: Ids, started: BOOLEAN,
           saved: [Ids -> Registers]]

VARIABLES
  target,  \* the threads, the running one, and the saved registers of each
  fresh,   \* the target has not run since the last update
  busy,    \* an update is under way
  view,    \* what the debugger sees
  answer   \* to the last query

viewVars == <<target, fresh, busy, view, answer>>

NoAnswer == <<"none", Nobody, Unread>>
Refused(id) == <<"refused", id, Unread>>
Failed(id) == <<"failed", id, Unread>>
Answer(id, registers) == <<"registers", id, registers>>

Nothing == [threads |-> {}, running |-> Nobody, seen |-> [id \in Ids |-> Unread]]

\* What an update may show: all threads, and the one that runs, unless that one
\* is in no list of the target.
Views ==
  {v \in [threads: {target.threads}, running: {target.running, Nobody},
          seen: {Nothing.seen}] :
     target.running \in target.threads => v.running = target.running}

\* The registers that may be shown of a thread in the view.
Shown(id) ==
  IF view.seen[id] # Unread THEN {view.seen[id]}
  ELSE IF fresh THEN {target.saved[id], Unreadable}
  ELSE Registers

---------------------------------------------------------------------------
DebugInit ==
  /\ target \in Target
  /\ fresh = FALSE
  /\ busy = FALSE
  /\ view = Nothing
  /\ answer = NoAnswer

TargetRuns ==
  /\ ~busy
  /\ target' \in Target
  /\ fresh' = FALSE
  /\ answer' = NoAnswer
  /\ UNCHANGED <<busy, view>>

\* Nothing is shown while an update is under way.  It is over at once, and
\* still nothing is shown, when no scheduler is seen to run.
BeginUpdate ==
  /\ ~busy
  /\ busy' \in BOOLEAN
  /\ busy' => target.started
  /\ fresh' = TRUE
  /\ view' = Nothing
  /\ answer' = NoAnswer
  /\ UNCHANGED target

EndUpdate ==
  /\ busy
  /\ busy' = FALSE
  /\ view' \in Views
  /\ UNCHANGED <<target, fresh, answer>>

\* An answer, or a refusal for a register that does not exist.
AskListed(id) ==
  /\ ~busy
  /\ id \in view.threads \ {view.running}
  /\ \E registers \in Shown(id) :
       /\ view' = [view EXCEPT !.seen[id] = registers]
       /\ answer' \in {Answer(id, registers), Refused(id)}
  /\ UNCHANGED <<target, fresh, busy>>

\* The running thread; nobody; and, when nothing is shown, anybody.
AskRunning(id) ==
  /\ ~busy
  /\ id \in {view.running, Nobody} \/ view = Nothing
  /\ answer' = Refused(id)
  /\ UNCHANGED <<target, fresh, busy, view>>

AskUnlisted(id) ==
  /\ ~busy
  /\ id \notin view.threads
  /\ answer' \in {Refused(id), Failed(id)}
                   \cup {Answer(id, registers) : registers \in Registers}
  /\ UNCHANGED <<target, fresh, busy, view>>

\* An update that fails leaves everything as it was, and so does a request to
\* set registers.
NothingDone ==
  /\ ~busy
  /\ answer' = NoAnswer
  /\ UNCHANGED <<target, fresh, busy, view>>

DebugNext ==
  \/ TargetRuns
  \/ BeginUpdate
  \/ EndUpdate
  \/ \E id \in Asked :
       AskListed(id) \/ AskRunning(id) \/ AskUnlisted(id)
  \/ NothingDone

DebugSpec == DebugInit /\ [][DebugNext]_viewVars
============================================================================
