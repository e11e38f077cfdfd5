--------------------------- MODULE SampleBackend ---------------------------
(***************************************************************************)
(* samples/drtm-backend.h: multi-byte values in the memory of a target of  *)
(* either endianness.  Writes split a value into bytes, reads put it       *)
(* together again with load_short() and load_long().                       *)
(***************************************************************************)
EXTENDS Integers, Sequences

CONSTANTS
  Radix,   \* the number of values of a byte, 256 in the code
  Bytes,   \* the number of bytes of memory
  Widths   \* the widths in use, of 1, 2, 4 and 8 bytes

ASSUME BackendAssumption ==
  /\ Radix \in Nat \ {0, 1}
  /\ Bytes \in Nat
  /\ Widths \subseteq {1, 2, 4, 8}

VARIABLES
  little,   \* is_target_little_endian()
  memory,   \* the bytes of the target
  written   \* (history) the last write: its address, width and value

backendVars == <<little, memory, written>>

NothingWritten == [addr |-> 0, width |-> 0, value |-> 0]

---------------------------------------------------------------------------
\* What a value is divided by when it is shifted right by n bytes.
Weight[n \in 0 .. 8] == IF n = 0 THEN 1 ELSE Weight[n - 1] * Radix

\* Mutants: the bytes are not masked; the order of the bytes is the other one.
SplitUnmasked(value, width) ==
  [i \in 1 .. width |->
     value \div Weight[IF little THEN i - 1 ELSE width - i]]
SplitReversed(value, width) ==
  [i \in 1 .. width |->
     (value \div Weight[IF little THEN width - i ELSE i - 1]) % Radix]

\* write_short(), write_long(), write_long_long(): the bytes of the array.
Split(value, width) ==
  [i \in 1 .. width |->
     (value \div Weight[IF little THEN i - 1 ELSE width - i]) % Radix]

\* Mutant: the big-endian branches are like the little-endian ones.
LoadOver(p) ==
  IF Len(p) = 1 THEN p[1]
  ELSE IF little THEN p[2] * Radix + p[1]
  ELSE p[Len(p) - 1] * Radix + p[Len(p)]

\* Byte after byte is shifted in: the value after the first i of them.
ShiftedIn(p) ==
  LET val[i \in 0 .. Len(p)] == IF i = 0 THEN 0 ELSE val[i - 1] * Radix + p[i]
  IN  val

\* load_short(), load_long(), load_long_long().  The little-endian branches
\* assign each byte but the first over what was shifted before it, so only
\* the lowest two bytes remain.
Load(p) ==
  IF Len(p) = 1 THEN p[1]
  ELSE IF little THEN p[2] * Radix + p[1]
  ELSE ShiftedIn(p)[Len(p)]

\* read_byte(), read_short(), read_long(), read_long_long().
Read(addr, width) == Load(SubSeq(memory, addr + 1, addr + width))

\* write_byte(), write_short(), write_long(), write_long_long().
Write(addr, width, value) ==
  /\ memory' = [k \in 1 .. Bytes |->
                  IF k \in addr + 1 .. addr + width
                  THEN Split(value, width)[k - addr] ELSE memory[k]]
  /\ written' = [addr |-> addr, width |-> width, value |-> value]
  /\ UNCHANGED little

\* The target cannot be written.  The result of write_byte_array() is dropped
\* by all four, which return nothing.
WriteFails ==
  /\ written' = NothingWritten
  /\ UNCHANGED <<little, memory>>

BackendInit ==
  /\ little \in BOOLEAN
  /\ memory = [k \in 1 .. Bytes |-> 0]
  /\ written = NothingWritten

BackendNext ==
  \/ WriteFails
  \/ \E width \in Widths : \E addr \in 0 .. Bytes - width :
       \E value \in 0 .. Weight[width] - 1 : Write(addr, width, value)

BackendSpec == BackendInit /\ [][BackendNext]_backendVars

---------------------------------------------------------------------------
(* Properties.                                                             *)

BackendTypeOK ==
  /\ little \in BOOLEAN
  /\ memory \in [1 .. Bytes -> 0 .. Radix - 1]
  /\ written.width \in {0} \cup Widths

Reread == Read(written.addr, written.width)

\* A value that was written is read back, over whatever was there before:
\* of any width on a big-endian target, of up to two bytes on the other.
WrittenIsRead ==
  written.width > 0 /\ (~little \/ written.width <= 2) => Reread = written.value

\* What a wide write left is what two reads of half its width find, the high
\* half first on a big-endian target and last on the other, where this goes up
\* to a width of four: there it is only the wide reads that lose bytes, what
\* write_long() stored is right.
HalvesAgree ==
  LET half == written.width \div 2
      high == IF little THEN written.addr + half ELSE written.addr
      low == IF little THEN written.addr ELSE written.addr + half
  IN  written.width > 1 /\ (~little \/ half <= 2) =>
        Read(high, half) * Weight[half] + Read(low, half) = written.value

\* drtm-backend.h:528: four bytes are loaded according to the target
\* endianness, little endian included.
LoadsAllBytes == written.width > 0 => Reread = written.value
=============================================================================
