---------------------------- MODULE StackContext ----------------------------
(***************************************************************************)
(* The registers of a waiting thread, from its stack to the hex string of  *)
(* the debugger: the choice of the stack layout from EXC_RETURN and the    *)
(* tables (include/drtm/run-time-data.h), read_stack() and                 *)
(* output_register() (include/drtm/threads.h), and the loop of             *)
(* get_thread_registers() (include/drtm/frontend.h).                       *)
(*                                                                         *)
(* This is the build without assertions (NDEBUG), in which read_stack()    *)
(* goes on although the context does not fit; Frontend has the other.      *)
(*                                                                         *)
(* A word of the stack is the name of the register saved there.  The frame *)
(* is what a Cortex-M4 and the context switch of the RTOS push (external). *)
(***************************************************************************)
EXTENDS Integers, Sequences

CONSTANTS
  Sizes,      \* sizes in bytes of the buffers of the debugger
  Beyond      \* what is on the stack above the frame

ASSUME SizesAssumption == Sizes \subseteq Nat

VARIABLES
  exc,        \* the low five bits of EXC_RETURN; the others are ones
  size,       \* out_size_bytes
  reg,        \* number of the register that is output, the first being 0
  byte,       \* number of its byte that is output next, or j
  out         \* the bytes in the string so far, two digits for each

stackVars == <<exc, size, reg, byte, out>>

---------------------------------------------------------------------------
(* The target.                                                             *)

\* EXC_RETURN is one of 0x..F1, F9, FD, and 0x..E1, E9, ED: with bit 4
\* cleared the FP registers are in the frame too.
ExcReturns == {17, 25, 29, 1, 9, 13}

\* What the exception entry and the handler push, from the new SP up.
SwitchFrame == <<"R4", "R5", "R6", "R7", "R8", "R9", "R10", "R11", "EXC_RETURN">>
HighFp == [i \in 1 .. 16 |-> "S16-S31"]
CoreFrame == <<"R0", "R1", "R2", "R3", "R12", "LR", "PC", "XPSR">>
LowFp == [i \in 1 .. 16 |-> "S0-S15"]

SavedFrame ==
  IF exc < 16 THEN SwitchFrame \o HighFp \o CoreFrame \o LowFp \o <<"FPSCR">>
  ELSE SwitchFrame \o CoreFrame

\* The words from the saved SP up.
StackWord(i) == IF i < Len(SavedFrame) THEN SavedFrame[i + 1] ELSE Beyond

\* The order in which the debugger numbers the registers it gets.
GdbOrder == <<"R0", "R1", "R2", "R3", "R4", "R5", "R6", "R7", "R8", "R9",
              "R10", "R11", "R12", "SP", "LR", "PC", "XPSR">>

---------------------------------------------------------------------------
(* The plug-in.                                                            *)

\* Mutant: EXC_RETURN is taken from the word below.
ExcOffsetOneLess == 7

\* The word at STACK_EXC_OFFSET_WORDS, of which the low five bits matter.
ExcOffsetWords == 8
ExcRead == IF StackWord(ExcOffsetWords) = "EXC_RETURN" THEN exc ELSE 0

\* (exc_return & 0xFFFFFFE3) = 0xFFFFFFE1 and (exc_return & 0x10) = 0.
IsFloatingPoint(low) == low % 4 = 1 /\ (low \div 16) % 2 = 0

\* cortex_m4_stack_info and cortex_m4_vfp_stack_info: the offsets of the
\* registers that are output, in words; -2 stands for the SP in the TCB.
StackInfo(fp) ==
  IF fp THEN [in_registers |-> 51, out_registers |-> 17,
              offsets |-> <<25, 26, 27, 28, 0, 1, 2, 3, 4, 5, 6, 7, 29, -2,
                            30, 31, 32>>]
  ELSE [in_registers |-> 18, out_registers |-> 17,
        offsets |-> <<9, 10, 11, 12, 0, 1, 2, 3, 4, 5, 6, 7, 13, -2,
                      14, 15, 16>>]

info == StackInfo(IsFloatingPoint(ExcRead))

\* read_stack(): the words of stack.context.
ContextWord(i) == IF i < info.in_registers THEN StackWord(i) ELSE "unread"

\* stack.sp_addr has the SP of the TCB.  It comes right after stack.context,
\* whose STACK_CONTEXT_REGISTERS_SIZE_WORDS are 50: one word more goes there.
SpAddr == IF info.in_registers > 50 THEN StackWord(50) ELSE "SP"

\* The register that the bytes output for number r come from.
Source(r) == LET offset == info.offsets[r + 1]
             IN  IF offset = -2 THEN SpAddr ELSE ContextWord(offset)

\* Mutants: the bytes of this register are subtracted too; room is left for
\* one digit only.
LeftOfAll == size - 2 * Len(out)
NoRoomForOne(count, left) == count + 1 >= left

\* What get_thread_registers() passes to output_register() as the size left:
\* the buffer without the digits of the registers before this one.
Left == size - 2 * (Len(out) - byte)

\* The test that ends the loop of output_register().
NoRoom(count, left) == count + 3 >= left

StackInit ==
  /\ exc \in ExcReturns
  /\ size \in Sizes
  /\ reg = 0
  /\ byte = 0
  /\ out = <<>>

\* Mutant: the loop runs once more.
OutputFiveBytes ==
  /\ reg < info.out_registers
  /\ byte <= 4
  /\ ~NoRoom(2 * byte, Left)
  /\ out' = Append(out, <<Source(reg), byte>>)
  /\ byte' = byte + 1
  /\ UNCHANGED <<exc, size, reg>>

\* One byte of a register.
OutputByte ==
  /\ reg < info.out_registers
  /\ byte < 4
  /\ ~NoRoom(2 * byte, Left)
  /\ out' = Append(out, <<Source(reg), byte>>)
  /\ byte' = byte + 1
  /\ UNCHANGED <<exc, size, reg>>

\* The register is output, or there is no room for its next byte.
NextRegister ==
  /\ reg < info.out_registers
  /\ byte = 4 \/ NoRoom(2 * byte, Left)
  /\ reg' = reg + 1
  /\ byte' = 0
  /\ UNCHANGED <<exc, size, out>>

StackNext == OutputByte \/ NextRegister

StackSpec == StackInit /\ [][StackNext]_stackVars /\ WF_stackVars(StackNext)

---------------------------------------------------------------------------
(* Properties.                                                             *)

Returned == reg = info.out_registers

StackTypeOK ==
  /\ exc \in ExcReturns
  /\ size \in Sizes
  /\ reg \in 0 .. info.out_registers
  /\ byte \in 0 .. 4
  /\ Len(out) \in 0 .. 4 * info.out_registers

\* Byte k of the answer for all the registers.
Expected(k) == <<GdbOrder[((k - 1) \div 4) + 1], (k - 1) % 4>>

\* Whatever the layout of the frame, the string is the registers in the order
\* of the debugger, each from the word where the target saved it, and a string
\* that is cut short is the beginning of that, with no gap.  (Not the SP of a
\* frame with FP registers, which SpAddr says is overwritten.)
TrueRegisters ==
  \A k \in 1 .. Len(out) :
    \/ out[k] = Expected(k)
    \/ exc < 16 /\ Expected(k)[1] = "SP"

\* The digits and the final NUL stay in the buffer.
WithinBuffer == out # <<>> => 2 * Len(out) + 1 <= size

\* A buffer with two bytes to spare gets all the registers.
AmpleBufferFilled ==
  [](size >= 8 * info.out_registers + 2) =>
    <>(Returned /\ Len(out) = 4 * info.out_registers)

(* A statement of the code that does not hold; a run refutes it.           *)

\* frontend.h:366: the size is that of the buffer, and the answer 0 says that
\* the registers were read: a buffer for all digits and the NUL gets them all.
ExactBufferFilled ==
  Returned /\ size >= 8 * info.out_registers + 1 =>
    Len(out) = 4 * info.out_registers
=============================================================================
