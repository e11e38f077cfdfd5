----------------------------- MODULE Description -----------------------------
(***************************************************************************)
(* The description of a thread in a buffer of the debugger:                *)
(* get_thread_description() (include/drtm/frontend.h) and                  *)
(* prepare_description() (include/drtm/threads.h), one step per snprintf().*)
(*                                                                         *)
(* A character is the part of the description it belongs to and its place  *)
(* in the part; what the characters are does not matter, how many there    *)
(* are does.  The buffer is the function from the positions that were      *)
(* written, in it or past its end, to what was last written there.         *)
(***************************************************************************)
EXTENDS Integers, Sequences

CONSTANTS
  NameLengths,  \* lengths of names; names have at most 255 characters
  States,       \* values of the state member
  Priorities,   \* values of prio_assigned and prio_inherited
  Sizes,        \* out_size_bytes
  SizeSpace,    \* size_t counts modulo this, 2^64 in the code
  IntMax        \* the largest size that every snprintf() accepts

ASSUME DescriptionAssumption ==
  /\ NameLengths \subseteq 0 .. 255
  /\ States \subseteq 0 .. 255
  /\ Priorities \subseteq 0 .. 255
  /\ SizeSpace \in Nat \ {0}
  /\ IntMax \in 0 .. SizeSpace - 1
  /\ Sizes \subseteq 0 .. IntMax
  /\ \A n \in NameLengths : n + 31 < SizeSpace  \* no description has more

VARIABLES
  th,      \* the members of the thread that are shown
  known,   \* there is an object with the ID, and the scheduler runs
  size,    \* out_size_bytes
  part,    \* the part that is output next
  count,   \* the characters so far, and the answer in the end
  buffer

descriptionVars == <<th, known, size, part, count, buffer>>

Nul == <<"NUL", 0>>

---------------------------------------------------------------------------
(* The parts of a description.                                             *)

Digits(n) == IF n < 10 THEN 1 ELSE IF n < 100 THEN 2 ELSE 3

\* "Undefined", "Ready", "Running", "Suspended", "Terminated", "Destroyed", or
\* else "?".
StateLength == IF th.state < 6 THEN <<9, 5, 7, 9, 10, 9>>[th.state + 1] ELSE 1

\* "%s [S:%s, P:"; "%u(%u)" or "%u"; ", FP"; "]".
Parts ==
  LET head == <<"head", th.name + 4 + StateLength + 4>>
      priority == IF th.inherited > th.assigned
                  THEN <<"both priorities",
                         Digits(th.inherited) + 1 + Digits(th.assigned) + 1>>
                  ELSE <<"priority", Digits(th.assigned)>>
  IN  IF th.fp THEN <<head, priority, <<"FP", 4>>, <<"end", 1>>>>
      ELSE <<head, priority, <<"end", 1>>>>

\* default_description, "none".
DefaultParts == <<<<"none", 4>>>>

Text == IF known THEN Parts ELSE DefaultParts

\* The length of the first n parts; there are four at most.
LengthOf(n) ==
  LET length(i) == IF i <= n THEN Text[i][2] ELSE 0
  IN  length(1) + length(2) + length(3) + length(4)

Total == LengthOf(Len(Text))

---------------------------------------------------------------------------
\* The buffer with the first n characters of text at position at, and a NUL.
Placed(text, at, n) ==
  [k \in DOMAIN buffer \cup (at .. at + n) |->
     IF k < at \/ k > at + n THEN buffer[k]
     ELSE IF k = at + n THEN Nul ELSE <<text[1], k - at + 1>>]

\* What snprintf(out + at, room, text) writes: nothing, or as much of the text
\* as there is room for beside the NUL.
Written(text, at, room) ==
  IF room = 0 THEN buffer
  ELSE Placed(text, at, IF text[2] < room THEN text[2] ELSE room - 1)

\* Mutants: the room is the whole buffer again; room for a NUL is kept aside,
\* which snprintf() does too; the count has the NUL.
RoomOfAll == size
RoomBesideNul == (size - count - 1) % SizeSpace
AddedWithNul(n) == (count + n + 1) % SizeSpace

\* out_size_bytes - count, of unsigned numbers.
Room == (size - count) % SizeSpace

\* count += static_cast<std::size_t> (ret).
Added(n) == (count + n) % SizeSpace

\* One snprintf().  It returns the length of the text, written or not; or -1,
\* which a library may do when asked for more than IntMax characters.
Snprintf ==
  /\ known
  /\ part <= Len(Text)
  /\ \/ /\ buffer' = Written(Text[part], count, Room)
        /\ count' = Added(Text[part][2])
     \/ /\ Room > IntMax
        /\ count' = Added(-1)
        /\ UNCHANGED buffer
  /\ part' = part + 1
  /\ UNCHANGED <<th, known, size>>

\* The strcpy() of the default description.
CopyDefault ==
  /\ ~known
  /\ part = 1
  /\ buffer' = Placed(Text[1], 0, Text[1][2])
  /\ count' = Text[1][2]
  /\ part' = 2
  /\ UNCHANGED <<th, known, size>>

DescriptionInit ==
  /\ th \in [name: NameLengths, state: States, assigned: Priorities,
             inherited: Priorities, fp: BOOLEAN]
  /\ known \in BOOLEAN
  /\ size \in Sizes
  /\ part = 1
  /\ count = 0
  /\ buffer = <<>>

DescriptionNext == Snprintf \/ CopyDefault

DescriptionSpec == DescriptionInit /\ [][DescriptionNext]_descriptionVars

---------------------------------------------------------------------------
(* Properties.                                                             *)

Done == part > Len(Text)

DescriptionTypeOK ==
  /\ size \in Sizes
  /\ part \in 1 .. Len(Text) + 1
  /\ count \in 0 .. Total
  /\ DOMAIN buffer \subseteq Nat

InBuffer == DOMAIN buffer \subseteq 0 .. size - 1

\* Character k of the whole text, the first being number 0.
CharAt(k) ==
  LET n == CHOOSE i \in 1 .. Len(Text) : LengthOf(i - 1) <= k /\ k < LengthOf(i)
  IN  <<Text[n][1], k - LengthOf(n - 1) + 1>>

\* The string that the debugger sees is the beginning of the text, each part
\* after the one before it and no NUL between them, as long as it is in the
\* buffer.
NoGaps ==
  \A k \in 0 .. Total - 1 :
    k \in DOMAIN buffer /\ InBuffer =>
      buffer[k] = CharAt(k) \/ \A j \in DOMAIN buffer : j >= k => buffer[j] = Nul

\* A buffer with room for the text and the NUL gets both, and the answer is the
\* length of the text (threads.h:203).
WholeWhenRoom ==
  Done /\ size > Total =>
    /\ InBuffer /\ Total \in DOMAIN buffer /\ buffer[Total] = Nul
    /\ \A k \in 0 .. Total - 1 : buffer[k] = CharAt(k)
    /\ count = Total

\* Only a description of which more than the last part is cut off overruns the
\* buffer: while count is not past the end nothing else is written there.
CutOffLastOnly == known /\ LengthOf(Len(Text) - 1) <= size => InBuffer

(* A statement of the code that does not hold; a run refutes it.           *)

\* frontend.h:243: out_size_bytes is the max size of the output buffer, also
\* for a thread that is known but has a longer description.
DescriptionFits == known => InBuffer
=============================================================================
