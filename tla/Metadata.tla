------------------------------ MODULE Metadata ------------------------------
(***************************************************************************)
(* include/drtm/metadata.h: the DRTM structure of the target says where    *)
(* the scheduler keeps its lists.  parse() examines it at most once, as    *)
(* soon as the debugger knows the address of its symbol.                   *)
(***************************************************************************)
EXTENDS Naturals

CONSTANTS
  Headers,      \* the structures a target may hold
  HeaderFaults  \* the parts whose read may fail, of "magic", "version", "field"

\* is_started_addr, top_threads_list_addr, current_thread_addr and the eight
\* offsets, read in this order.
FieldCount == 11

ASSUME MetadataAssumption ==
  /\ Headers \subseteq [magic: BOOLEAN, v: BOOLEAN, major: Nat]
  /\ HeaderFaults \subseteq {"magic", "version", "field"}

VARIABLES
  resolved,      \* (debugger) the symbol has an address
  header,        \* (target) the structure: its magic and 'v' are as expected
  was_parsed, is_available,
  loaded,        \* how many fields hold what the target says
  examined       \* (history) how many times the target was asked

metadataVars == <<resolved, header, was_parsed, is_available, loaded, examined>>

\* What the checks see.  The arrays that are read into were never written, so
\* a read that fails leaves anything there.
MagicReads == IF "magic" \in HeaderFaults THEN BOOLEAN ELSE {header.magic}

VersionReads ==
  {[v |-> header.v, major |-> header.major]}
    \cup (IF "version" \in HeaderFaults
          THEN {[v |-> v, major |-> m] : v \in BOOLEAN, m \in 0 .. 1} ELSE {})

\* Mutant: the offsets are one more than the structure has.
OneFieldMore == {FieldCount + 1}

\* The reads of the fields stop at the first that fails.
FieldsRead == IF "field" \in HeaderFaults THEN 0 .. FieldCount
              ELSE {FieldCount}

---------------------------------------------------------------------------
\* Mutant: the magic is looked at again.
ParseAgainChecks(result) ==
  was_parsed /\ result \in MagicReads /\ UNCHANGED metadataVars

\* The answer of a parse() that was called before.
ParseAgain(result) ==
  /\ was_parsed
  /\ result = is_available
  /\ UNCHANGED metadataVars

\* Mutant: was_parsed is set before the symbol is asked for.
ParseTooEarlyLatches(result) ==
  /\ ~was_parsed
  /\ ~resolved
  /\ ~result
  /\ was_parsed' = TRUE
  /\ UNCHANGED <<resolved, header, is_available, loaded, examined>>

\* There is no symbol yet: nothing is remembered, and a later call tries again.
ParseTooEarly(result) ==
  /\ ~was_parsed
  /\ ~resolved
  /\ ~result
  /\ UNCHANGED metadataVars

\* Mutant: any version is taken for supported.
AcceptsAnyVersion(magic, version) == magic /\ version.v

\* The checks of the header.
Accepts(magic, version) == magic /\ version.v /\ version.major = 0

\* The structure is read, as far as it is as expected.
Examine(result) ==
  /\ examined' = examined + 1
  /\ \E magic \in MagicReads, version \in VersionReads, n \in FieldsRead :
       /\ result = Accepts(magic, version)
       /\ loaded' = IF result THEN n ELSE 0
  /\ is_available' = result
  /\ UNCHANGED <<resolved, header>>

\* Mutant: only a success is remembered.
ParseFirstLate(result) ==
  ~was_parsed /\ resolved /\ was_parsed' = result /\ Examine(result)

\* was_parsed is set before the structure is read.
ParseFirst(result) ==
  ~was_parsed /\ resolved /\ was_parsed' = TRUE /\ Examine(result)

Parse(result) == ParseAgain(result) \/ ParseTooEarly(result) \/ ParseFirst(result)

\* get_symbol_address() finds the symbol once the debugger has loaded the
\* symbols of the application.
ResolveSymbol ==
  /\ ~resolved
  /\ resolved' = TRUE
  /\ UNCHANGED <<header, was_parsed, is_available, loaded, examined>>

MetadataInit ==
  /\ resolved \in BOOLEAN
  /\ header \in Headers
  /\ was_parsed = FALSE
  /\ is_available = FALSE
  /\ loaded = 0
  /\ examined = 0

MetadataTypeOK ==
  /\ resolved \in BOOLEAN
  /\ header \in Headers
  /\ was_parsed \in BOOLEAN
  /\ is_available \in BOOLEAN
  /\ loaded \in 0 .. FieldCount
  /\ examined \in Nat

---------------------------------------------------------------------------
(* Properties.                                                             *)

Supported == header.magic /\ header.v /\ header.major = 0

\* metadata.h:267: the presence of the structure is never checked twice.
ExaminedOnce == examined <= 1

\* metadata.h:270: is_available tells that the structure was properly parsed.
AvailableMeansParsed == is_available => loaded = FieldCount
=============================================================================
