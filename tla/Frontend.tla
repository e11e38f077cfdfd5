------------------------------ MODULE Frontend ------------------------------
(***************************************************************************)
(* include/drtm/frontend.h: the calls a GDB server makes.  An update of    *)
(* the list of threads consults the metadata, then whether the scheduler   *)
(* runs, and then walks the lists (RunTimeData).  The queries are served   *)
(* from the collection; the saved registers of a thread are read from its  *)
(* stack on the first query after an update, and kept in its object.       *)
(***************************************************************************)
EXTENDS RunTimeData, Metadata

CONSTANTS
  Stacks,         \* what the stacks of the target may hold, by address
  StartedFaults,  \* whether the read of is_started may fail
  ContextFaults,  \* whether the read of a saved context may fail
  Zeros,          \* the context of an object that clear() has just filled
  QueryIds        \* the thread IDs a debugger may ask for

ASSUME FrontendAssumption ==
  /\ Zeros \in Context
  /\ Stacks \subseteq [Addr -> Context]
  /\ StartedFaults \in BOOLEAN
  /\ ContextFaults \in BOOLEAN
  /\ QueryIds \subseteq Nat
  \* The walk is modelled for complete metadata only.
  /\ "field" \notin HeaderFaults

VARIABLES
  started,    \* (target) the is_started flag of its scheduler
  stack,      \* (target) the context saved at each address
  is_scheduler_started_,
  updateRet,  \* what the last update_thread_list() returned, 1 before any
  reply       \* the last register query and its answer

frontendVars == <<is_scheduler_started_, updateRet, reply>>
allVars == <<vars, metadataVars, started, stack, frontendVars>>

Reply(call, tid, ret, context, sp) ==
  [call |-> call, tid |-> tid, ret |-> ret, context |-> context, sp |-> sp]

NoReply == Reply("none", IdNone, 0, NoContext, 0)

\* sizeof(stack.context), in words, and in_registers of the two layouts.
ContextWords == 50
InRegisters(fp) == IF fp THEN 51 ELSE 18

---------------------------------------------------------------------------
(* Queries that change nothing.                                            *)

GetThreadsCount == IF is_scheduler_started_ THEN count ELSE 0

\* get_thread_id(), whose index is one of 0 .. GetThreadsCount - 1.
GetThreadId(index) == vector[index + 1].id

GetCurrentThreadId ==
  IF is_scheduler_started_ /\ current # 0 THEN vector[current].id ELSE IdNone

\* The object that get_thread_description() describes; "none" when 0.
DescribedBy(tid) == IF is_scheduler_started_ THEN ThreadById(tid) ELSE 0

---------------------------------------------------------------------------
(* update_thread_list().                                                   *)

\* The metadata is not available.
UpdateUnavailable ==
  /\ pc = "idle"
  /\ Parse(FALSE)
  /\ updateRet' = -1
  /\ reply' = NoReply
  /\ UNCHANGED <<vars, started, stack, is_scheduler_started_>>

\* is_scheduler_started(): FALSE also when it cannot be read.
StartedReads == {started} \cup (IF StartedFaults THEN {FALSE} ELSE {})

UpdateNotStarted ==
  /\ pc = "idle"
  /\ Parse(TRUE)
  /\ FALSE \in StartedReads
  /\ is_scheduler_started_' = FALSE
  /\ Clear
  /\ faults' = IF started THEN {"started"} ELSE {}
  /\ fresh' = TRUE
  /\ updateRet' = 0
  /\ reply' = NoReply
  /\ UNCHANGED <<targetVars, pc, frames, started, stack>>

\* The scheduler runs: the walk begins.
UpdateStarted ==
  /\ Parse(TRUE)
  /\ TRUE \in StartedReads
  /\ is_scheduler_started_' = TRUE
  /\ UpdateThreads
  /\ updateRet' = 0
  /\ reply' = NoReply
  /\ UNCHANGED <<started, stack>>

UpdateContinues ==
  /\ WalkStep
  /\ UNCHANGED <<metadataVars, started, stack, frontendVars>>

---------------------------------------------------------------------------
(* Registers.                                                              *)

\* The registers are in the CPU, or unknown: the call returns -1.
AskCpu(tid) == ~is_scheduler_started_ \/ tid = IdNone \/ IsCurrent(tid)

\* read_stack() on the object at p, what it leaves in stack.context, and
\* whether it read the stack of the target and failed.
ContextReads(p) ==
  IF vector[p].context # NoContext
  THEN {[ok |-> TRUE, context |-> vector[p].context]}
  ELSE {[ok |-> TRUE, context |-> stack[vector[p].body.sp]]}
         \cup (IF ContextFaults THEN {[ok |-> FALSE, context |-> Zeros]} ELSE {})

GetRegistersFromCpu(tid) ==
  /\ pc = "idle"
  /\ AskCpu(tid)
  /\ reply' = Reply("get", tid, -1, NoContext, 0)
  /\ UNCHANGED <<vars, metadataVars, started, stack,
                 is_scheduler_started_, updateRet>>

\* get_thread_register() and get_thread_registers().  The context is read
\* before the register number is checked.
GetRegisters(tid, inRange) ==
  /\ pc = "idle"
  /\ ~AskCpu(tid)
  /\ LET p == ThreadById(tid)
     IN  /\ p # 0
         /\ \/ vector[p].context # NoContext
            \/ ContextWords >= InRegisters(vector[p].body.fp)
         /\ \E read \in ContextReads(p) :
              /\ SetContext(p, read.context)
              /\ faults' = faults \cup Failed(read, "context")
              /\ reply' = IF inRange
                          THEN Reply("get", tid, 0, read.context,
                                     vector[p].body.sp)
                          ELSE Reply("get", tid, -1, NoContext, 0)
  /\ UNCHANGED <<targetVars, pc, frames, fresh, metadataVars, started, stack,
                 is_scheduler_started_, updateRet>>

\* One of the two assertions of that path fails.
GetRegistersAborts(tid) ==
  /\ pc = "idle"
  /\ ~AskCpu(tid)
  /\ LET p == ThreadById(tid)
     IN  \/ /\ p = 0
            /\ pc' = "no such thread"
         \/ /\ p # 0
            /\ vector[p].context = NoContext
            /\ ContextWords < InRegisters(vector[p].body.fp)
            /\ pc' = "context too large"
  /\ reply' = Reply("abort", tid, 0, NoContext, 0)
  /\ UNCHANGED <<targetVars, threadsVars, frames, faults, fresh, metadataVars,
                 started, stack, is_scheduler_started_, updateRet>>

\* set_thread_register() and set_thread_registers(), which are not implemented
\* yet: nothing is written, whatever the answer.
SetRegisters(tid) ==
  /\ pc = "idle"
  /\ reply' = Reply("set", tid, IF AskCpu(tid) THEN -1 ELSE 0, NoContext, 0)
  /\ UNCHANGED <<vars, metadataVars, started, stack,
                 is_scheduler_started_, updateRet>>

---------------------------------------------------------------------------
FrontendInit ==
  /\ Init
  /\ MetadataInit
  /\ started \in BOOLEAN
  /\ stack \in Stacks
  /\ is_scheduler_started_ = FALSE
  /\ updateRet = 1
  /\ reply = NoReply

\* The target runs and is halted again.
TargetRunsAndHalts ==
  /\ TargetRuns
  /\ started' \in BOOLEAN
  /\ stack' \in Stacks
  /\ reply' = NoReply
  /\ UNCHANGED <<metadataVars, is_scheduler_started_, updateRet>>

SymbolsLoaded ==
  /\ pc = "idle"
  /\ ResolveSymbol
  /\ UNCHANGED <<vars, started, stack, frontendVars>>

\* What happens while the target is halted.
HaltedNext ==
  \/ SymbolsLoaded
  \/ UpdateUnavailable
  \/ UpdateNotStarted
  \/ UpdateStarted
  \/ UpdateContinues
  \/ \E tid \in QueryIds :
       \/ GetRegistersFromCpu(tid)
       \/ \E inRange \in BOOLEAN : GetRegisters(tid, inRange)
       \/ GetRegistersAborts(tid)
       \/ SetRegisters(tid)

FrontendNext == TargetRunsAndHalts \/ HaltedNext

FrontendSpec == FrontendInit /\ [][FrontendNext]_allVars

---------------------------------------------------------------------------
(* Properties.                                                             *)

FrontendTypeOK ==
  /\ ThreadsTypeOK
  /\ MetadataTypeOK
  /\ started \in BOOLEAN
  /\ stack \in Stacks
  /\ pc \in {"idle", "walk", "current", "crashed",
             "no such thread", "context too large"}
  /\ frames \in Seq(Frame)
  /\ faults \subseteq Faults
  /\ is_scheduler_started_ \in BOOLEAN
  /\ updateRet \in {-1, 0, 1}
  /\ reply \in [call: {"none", "get", "set", "abort"}, tid: Nat, ret: {-1, 0},
                context: Context \cup {NoContext}, sp: Addr]

\* The reply was given for the memory that the target still has, and all of
\* the update it rests on could be read.
GoodReply == /\ reply.call = "get" /\ reply.ret = 0
             /\ fresh /\ faults \subseteq {"context"}

\* The registers a debugger gets for a thread of the target are those saved
\* on its stack now: not the ones cached in its object before the target ran,
\* nor those of a thread whose object was reused for it.  When a stack cannot
\* be read, also when another one's could not, they may be the zeros of a
\* cleared object, and nothing else (threads.h:320 only logs the result).
RegistersFresh ==
  GoodReply =>
    \A t \in Members(forest) :
      IdOf(t) = reply.tid =>
        /\ reply.sp = tcb[t].sp
        /\ \/ reply.context = stack[tcb[t].sp]
           \/ "context" \in faults /\ reply.context = Zeros

\* frontend.h:281: the registers of the running thread are in the CPU.  They
\* are never served from what its stack holds from when it last waited.
RunningFromCpu == GoodReply => reply.tid # IdOf(currentWord)

\* After an update the debugger enumerates each thread of the target once,
\* and gets from its ID the object of that thread.
EnumerationFaithful ==
  UpToDate /\ is_scheduler_started_ =>
    /\ {vector[i].addr : i \in 1 .. GetThreadsCount} = Members(forest)
    /\ \A i \in 0 .. GetThreadsCount - 1 : DescribedBy(GetThreadId(i)) = i + 1

\* Without a running scheduler, also after one was seen running, no thread is
\* shown, none is current, and no query touches the target.
NothingBeforeStart ==
  ~is_scheduler_started_ => /\ count = 0 /\ current = 0
                            /\ reply.ret = 0 => reply.call = "none"

\* frontend.h:94: a target that was available once stays so: no update fails
\* after one that did not.
AvailabilityStays == [][updateRet = 0 => updateRet' = 0]_allVars

(* Statements of the code that do not hold; one run refutes each.          *)

\* threads.h:317 asserts that the context of a thread fits its buffer.
ContextFits == pc # "context too large"
============================================================================
