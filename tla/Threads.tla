------------------------------ MODULE Threads ------------------------------
(***************************************************************************)
(* include/drtm/threads.h: the thread objects and the collection that      *)
(* keeps them.                                                             *)
(*                                                                         *)
(* The collection is a std::vector of pointers to separately allocated     *)
(* objects.  It never shrinks: clear() only resets count_, and             *)
(* new_thread() hands out the objects already there before it allocates    *)
(* another one.  The objects past count_ are stale: they keep what they    *)
(* held for an earlier list of threads.                                    *)
(*                                                                         *)
(* A pointer to an object is its position in the vector (objects never     *)
(* move and are freed only by the destructor); the null pointer is 0.      *)
(***************************************************************************)
EXTENDS Words, Sequences, FiniteSetsExt

CONSTANTS
  Name,       \* thread names, abstracted to opaque values
  NoName,     \* the empty name of a cleared object
  Context,    \* contents of a saved register context, opaque values
  NoContext   \* stack.has_registers = false: no context was read yet

ASSUME ThreadsAssumption == NoContext \notin Context

VARIABLES
  vector,   \* threads_: the objects, in allocation order
  count,    \* count_: how many of them are in the collection
  current   \* current_: position of the current thread's object, or 0

threadsVars == <<vector, count, current>>

\* The members that run_time_data fills from the thread control block.
Body == [name: Name \cup {NoName}, prio_assigned: Byte, prio_inherited: Byte,
         state: Byte, sp: Addr, fp: BOOLEAN]

ThreadObject == [addr: Addr, id: Nat, body: Body,
                 context: Context \cup {NoContext}]

\* id_none, the ID used when there is no thread to name.
IdNone == 0

\* addr(a): the ID is synthesized from the address.
IdOf(a) == a \div 4

ClearedBody == [name |-> NoName, prio_assigned |-> 0, prio_inherited |-> 0,
                state |-> 0, sp |-> 0, fp |-> FALSE]

\* What the constructor and thread::clear() make of an object.
ClearedThread == [addr |-> 0, id |-> 0, body |-> ClearedBody,
                  context |-> NoContext]

\* Mutants: the object is not cleared; its stack member is not.
UnclearedObject(object) == object
UnclearedStack(object) == [ClearedThread EXCEPT !.context = object.context]

\* thread::clear().
Cleared(object) == ClearedThread

\* addr(a).
WithAddr(object, a) == [object EXCEPT !.addr = a, !.id = IdOf(a)]

---------------------------------------------------------------------------
(* Searches.  Both loops of the code run over the whole vector.            *)

\* The position a first-match loop stops at, or the null pointer.
FirstOf(S) == IF S = {} THEN 0 ELSE Min(S)

\* Mutants: a later object with the ID or the address is found first; only
\* the objects in the collection are looked at.
LastById(tid) ==
  LET S == {i \in 1 .. Len(vector) : vector[i].id = tid}
  IN  IF S = {} THEN 0 ELSE Max(S)
LastByAddr(a) ==
  LET S == {i \in 1 .. Len(vector) : vector[i].addr = a}
  IN  IF S = {} THEN 0 ELSE Max(S)
ListedByAddr(a) == FirstOf({i \in 1 .. count : vector[i].addr = a})

\* thread(tid).
ThreadById(tid) == FirstOf({i \in 1 .. Len(vector) : vector[i].id = tid})

\* The loop of update_current_thread() over begin() .. end().
ThreadByAddr(a) == FirstOf({i \in 1 .. Len(vector) : vector[i].addr = a})

\* is_current(tid).
IsCurrent(tid) == current # 0 /\ vector[current].id = tid

---------------------------------------------------------------------------
(* Operations.                                                             *)

\* Mutants: one of the two members is not reset.
ClearCurrentOnly == current' = 0 /\ UNCHANGED <<vector, count>>
ClearCountOnly == count' = 0 /\ UNCHANGED <<vector, current>>

\* clear(): the objects stay where they are, for reuse.
Clear ==
  /\ count' = 0
  /\ current' = 0
  /\ UNCHANGED vector

\* new_thread() reuses the object at count_, or else allocates one.
NewObject == IF count < Len(vector) THEN Cleared(vector[count + 1])
             ELSE ClearedThread

\* Mutants: one object too many is thought to be there; a reused object is not
\* counted; objects are never reused.
NewThreadOffByOne(object) ==
  /\ vector' = IF count <= Len(vector)
               THEN [vector EXCEPT ![count + 1] = object]
               ELSE Append(vector, object)
  /\ count' = count + 1
  /\ UNCHANGED current
NewThreadUncounted(object) ==
  /\ vector' = IF count < Len(vector)
               THEN [vector EXCEPT ![count + 1] = object]
               ELSE Append(vector, object)
  /\ count' = IF count < Len(vector) THEN count ELSE count + 1
  /\ UNCHANGED current
NewThreadAllocates(object) ==
  /\ vector' = Append(vector, object)
  /\ count' = count + 1
  /\ UNCHANGED current

\* new_thread(), and what its only caller then makes of the new object.
NewThread(object) ==
  /\ vector' = IF count < Len(vector)
               THEN [vector EXCEPT ![count + 1] = object]
               ELSE Append(vector, object)
  /\ count' = count + 1
  /\ UNCHANGED current

\* current(th).
SetCurrent(p) ==
  /\ current' = p
  /\ UNCHANGED <<vector, count>>

\* Mutant: has_registers is not set.
SetNoContext(p, context) == UNCHANGED threadsVars

\* read_stack() caches the context in the object.
SetContext(p, context) ==
  /\ vector' = [vector EXCEPT ![p].context = context]
  /\ UNCHANGED <<count, current>>

ThreadsInit ==
  /\ vector = <<>>
  /\ count = 0
  /\ current = 0

ThreadsTypeOK ==
  /\ vector \in Seq(ThreadObject)
  /\ count \in 0 .. Len(vector)
  /\ current \in 0 .. Len(vector)

\* The addresses of the threads in the collection.
ListedAddrs == {vector[i].addr : i \in 1 .. count}
============================================================================
