------------------------- MODULE StackContext_proofs -------------------------
(***************************************************************************)
(* The registers that are output are the right ones, whatever the size of  *)
(* the buffer and whatever is on the stack beyond the frame: both tables   *)
(* agree with the frames that the target pushes.                           *)
(***************************************************************************)
EXTENDS StackContext, SequenceTheorems, TLAPS

---------------------------------------------------------------------------
(* The frames.                                                             *)

\* The names of the words that are saved in a frame.
Saved == {"R0", "R1", "R2", "R3", "R4", "R5", "R6", "R7", "R8", "R9", "R10",
          "R11", "R12", "LR", "PC", "XPSR", "EXC_RETURN", "S0-S15", "S16-S31",
          "FPSCR"}

\* A part of a frame, or all of it, of n words.
IsFrame(s, n) == s \in Seq(Saved) /\ Len(s) = n

\* f is s, of n words, and then t, of m words: k words in all.
IsJoined(f, k, s, n, t, m) ==
  /\ IsFrame(f, k)
  /\ \A i \in 1 .. n : f[i] = s[i]
  /\ \A i \in 1 .. m : f[n + i] = t[i]

LEMMA Joined ==
  ASSUME NEW s, NEW t, NEW n \in Nat, NEW m \in Nat,
         IsFrame(s, n), IsFrame(t, m), NEW k \in Nat, k = n + m,
         NEW f, f = s \o t
  PROVE  IsJoined(f, k, s, n, t, m)
  <1>1. IsFrame(s \o t, n + m)
    <2>1. s \o t \in Seq(Saved)
      BY DEF IsFrame
    <2>2. Len(s \o t) = Len(s) + Len(t)
      BY ConcatProperties, Zenon DEF IsFrame
    <2> QED
      BY <2>1, <2>2, Zenon DEF IsFrame
  <1>2. \A i \in 1 .. n : (s \o t)[i] = s[i]
    BY DEF IsFrame
  <1>3. \A i \in 1 .. m : (s \o t)[n + i] = t[i]
    BY DEF IsFrame
  <1> QED
    BY <1>1, <1>2, <1>3 DEF IsJoined

\* The parts of a frame.
LEMMA FrameParts ==
  /\ IsFrame(SwitchFrame, 9)
  /\ IsFrame(HighFp, 16)
  /\ IsFrame(CoreFrame, 8)
  /\ IsFrame(LowFp, 16)
  /\ IsFrame(<<"FPSCR">>, 1)
  <1>1. IsFrame(SwitchFrame, 9)
    BY DEF IsFrame, SwitchFrame, Saved
  <1>2. IsFrame(CoreFrame, 8)
    BY DEF IsFrame, CoreFrame, Saved
  <1>3. IsFrame(HighFp, 16)
    BY DEF IsFrame, HighFp, Saved
  <1>4. IsFrame(LowFp, 16)
    BY DEF IsFrame, LowFp, Saved
  <1>5. IsFrame(<<"FPSCR">>, 1)
    BY DEF IsFrame, Saved
  <1> QED
    BY <1>1, <1>2, <1>3, <1>4, <1>5

\* The words of a frame, from the saved SP up.
LEMMA WordsOfFrame ==
  ASSUME NEW n \in Nat, IsFrame(SavedFrame, n), NEW i \in Nat, i < n
  PROVE  StackWord(i) = SavedFrame[i + 1]
  BY DEF IsFrame, StackWord

LEMMA WordBeyond ==
  ASSUME NEW n \in Nat, IsFrame(SavedFrame, n)
  PROVE  StackWord(n) = Beyond
  BY DEF IsFrame, StackWord

\* Where the registers of the switch and of the processor are in a frame
\* without FP registers.
LEMMA BasicWords ==
  ASSUME NEW n \in Nat, NEW m \in Nat, NEW k \in Nat, k = n + m,
         IsFrame(SwitchFrame, n), IsFrame(CoreFrame, m), ~(exc < 16)
  PROVE  /\ \A i \in 0 .. n - 1 : StackWord(i) = SwitchFrame[i + 1]
         /\ \A i \in 0 .. m - 1 : StackWord(n + i) = CoreFrame[i + 1]
  <1>1. PICK f : f = SwitchFrame \o CoreFrame
    OBVIOUS
  <1>2. SavedFrame = f
    BY <1>1, Zenon DEF SavedFrame
  <1>3. IsJoined(f, k, SwitchFrame, n, CoreFrame, m)
    BY <1>1, Joined, Zenon
  <1>4. \A i \in 0 .. k - 1 : StackWord(i) = f[i + 1]
    BY <1>2, <1>3, WordsOfFrame DEF IsJoined
  <1>5. \A i \in 0 .. m - 1 : StackWord(n + i) = f[n + (i + 1)]
    BY <1>4
  <1> QED
    BY <1>3, <1>4, <1>5 DEF IsJoined

LEMMA BasicFrame ==
  ASSUME ~(exc < 16)
  PROVE  /\ \A i \in 0 .. 8 : StackWord(i) = SwitchFrame[i + 1]
         /\ \A i \in 0 .. 7 : StackWord(9 + i) = CoreFrame[i + 1]
  <1>1. PICK n \in Nat, m \in Nat, k \in Nat : n = 9 /\ m = 8 /\ k = 17
    OBVIOUS
  <1>2. IsFrame(SwitchFrame, n) /\ IsFrame(CoreFrame, m)
    BY <1>1, FrameParts, Zenon
  <1>3. k = n + m
    BY <1>1
  <1>4. /\ \A i \in 0 .. n - 1 : StackWord(i) = SwitchFrame[i + 1]
        /\ \A i \in 0 .. m - 1 : StackWord(n + i) = CoreFrame[i + 1]
    BY <1>2, <1>3, BasicWords, Zenon
  <1> QED
    BY <1>1, <1>4

\* The same in a frame with them, of which one word more is read.
IsFpFrame(n, p, m, all) ==
  /\ \A i \in 0 .. n - 1 : StackWord(i) = SwitchFrame[i + 1]
  /\ \A i \in 0 .. m - 1 : StackWord(p + i) = CoreFrame[i + 1]
  /\ StackWord(all) = Beyond

LEMMA FpWords ==
  ASSUME NEW n \in Nat, NEW h \in Nat, NEW m \in Nat, NEW l \in Nat,
         NEW o \in Nat, IsFrame(SwitchFrame, n), IsFrame(HighFp, h),
         IsFrame(CoreFrame, m), IsFrame(LowFp, l), IsFrame(<<"FPSCR">>, o),
         NEW nh \in Nat, nh = n + h, NEW all \in Nat, all = nh + m + l + o,
         exc < 16
  PROVE  IsFpFrame(n, nh, m, all)
  <1>1. PICK k1 \in Nat, k2 \in Nat, k3 \in Nat, k4 \in Nat :
          k1 = n + h /\ k2 = k1 + m /\ k3 = k2 + l /\ k4 = k3 + o
    OBVIOUS
  <1>2. PICK f1, f2, f3, f4 : /\ f1 = SwitchFrame \o HighFp
                              /\ f2 = f1 \o CoreFrame
                              /\ f3 = f2 \o LowFp
                              /\ f4 = f3 \o <<"FPSCR">>
    OBVIOUS
  <1>3. SavedFrame = f4
    BY <1>2, Zenon DEF SavedFrame
  <1>4. IsJoined(f1, k1, SwitchFrame, n, HighFp, h)
    BY <1>1, <1>2, Joined, Zenon
  <1>5. IsJoined(f2, k2, f1, k1, CoreFrame, m)
    <2>1. IsFrame(f1, k1)
      BY <1>4 DEF IsJoined
    <2> QED
      BY <2>1, <1>1, <1>2, Joined, Zenon
  <1>6. IsJoined(f3, k3, f2, k2, LowFp, l)
    <2>1. IsFrame(f2, k2)
      BY <1>5 DEF IsJoined
    <2> QED
      BY <2>1, <1>1, <1>2, Joined, Zenon
  <1>7. IsJoined(f4, k4, f3, k3, <<"FPSCR">>, o)
    <2>1. IsFrame(f3, k3)
      BY <1>6 DEF IsJoined
    <2> QED
      BY <2>1, <1>1, <1>2, Joined, Zenon
  <1>8. \A i \in 0 .. k4 - 1 : StackWord(i) = f4[i + 1]
    BY <1>3, <1>7, WordsOfFrame DEF IsJoined
  <1>9. \A i \in 1 .. n : f4[i] = SwitchFrame[i]
    BY <1>1, <1>4, <1>5, <1>6, <1>7 DEF IsJoined
  <1>10. \A i \in 1 .. m : f4[k1 + i] = CoreFrame[i]
    BY <1>1, <1>5, <1>6, <1>7 DEF IsJoined
  <1>11. \A i \in 0 .. n - 1 : StackWord(i) = f4[i + 1]
    BY <1>1, <1>8
  <1>12. \A i \in 0 .. m - 1 : StackWord(k1 + i) = f4[k1 + (i + 1)]
    BY <1>1, <1>8
  <1>13. \A i \in 0 .. n - 1 : StackWord(i) = SwitchFrame[i + 1]
    BY <1>9, <1>11
  <1>14. \A i \in 0 .. m - 1 : StackWord(k1 + i) = CoreFrame[i + 1]
    BY <1>10, <1>12
  <1>15. StackWord(k4) = Beyond
    BY <1>3, <1>7, WordBeyond DEF IsJoined
  <1> QED
    BY <1>1, <1>13, <1>14, <1>15 DEF IsFpFrame

LEMMA FpFrame ==
  ASSUME exc < 16
  PROVE  /\ \A i \in 0 .. 8 : StackWord(i) = SwitchFrame[i + 1]
         /\ \A i \in 0 .. 7 : StackWord(25 + i) = CoreFrame[i + 1]
         /\ StackWord(50) = Beyond
  <1>1. PICK n \in Nat, h \in Nat, m \in Nat, o \in Nat,
             nh \in Nat, all \in Nat :
          n = 9 /\ h = 16 /\ m = 8 /\ o = 1 /\ nh = 25 /\ all = 50
    OBVIOUS
  <1>2. nh = n + h
    BY <1>1
  <1>3. all = nh + m + h + o
    BY <1>1
  <1>4. /\ IsFrame(SwitchFrame, n)
        /\ IsFrame(HighFp, h)
        /\ IsFrame(CoreFrame, m)
        /\ IsFrame(LowFp, h)
        /\ IsFrame(<<"FPSCR">>, o)
    BY <1>1, FrameParts, Zenon
  <1>5. IsFpFrame(n, nh, m, all)
    BY <1>2, <1>3, <1>4, FpWords, Zenon
  <1> QED
    BY <1>1, <1>5 DEF IsFpFrame

---------------------------------------------------------------------------
(* The tables.                                                             *)

\* EXC_RETURN is where the plug-in looks for it, in both frames.
LEMMA ExcIsRead ==
  ASSUME exc \in ExcReturns
  PROVE  ExcRead = exc
  <1>1. PICK i \in 0 .. 8 : i = 8
    OBVIOUS
  <1>2. StackWord(i) = SwitchFrame[i + 1]
    BY BasicFrame, FpFrame, Zenon
  <1>3. SwitchFrame[i + 1] = "EXC_RETURN"
    BY <1>1 DEF SwitchFrame
  <1> QED
    BY <1>1, <1>2, <1>3, Zenon DEF ExcRead, ExcOffsetWords

LEMMA LayoutIsRight ==
  ASSUME exc \in ExcReturns
  PROVE  IsFloatingPoint(ExcRead) <=> exc < 16
  BY ExcIsRead DEF IsFloatingPoint, ExcReturns

\* The table of the frame without FP registers.
LEMMA BasicSource ==
  ASSUME exc \in ExcReturns, ~(exc < 16), NEW r \in 0 .. 16
  PROVE  Source(r) = GdbOrder[r + 1]
  <1>1. info = StackInfo(FALSE)
    <2>1. IsFloatingPoint(ExcRead) = FALSE
      BY LayoutIsRight DEF IsFloatingPoint
    <2> QED
      BY <2>1, Zenon DEF info
  <1>2. info.in_registers = 18
    BY <1>1 DEF StackInfo
  <1>3. CASE r \in 0 .. 3
    <2>1. info.offsets[r + 1] = 9 + r
      BY <1>1, <1>3 DEF StackInfo
    <2>2. CoreFrame[r + 1] = GdbOrder[r + 1]
      BY <1>3 DEF CoreFrame, GdbOrder
    <2>3. StackWord(9 + r) = CoreFrame[r + 1]
      BY <1>3, BasicFrame
    <2> QED
      BY <1>2, <1>3, <2>1, <2>2, <2>3 DEF Source, ContextWord
  <1>4. CASE r \in 4 .. 11
    <2>1. info.offsets[r + 1] = r - 4
      BY <1>1, <1>4 DEF StackInfo
    <2>2. SwitchFrame[(r - 4) + 1] = GdbOrder[r + 1]
      BY <1>4 DEF SwitchFrame, GdbOrder
    <2>3. StackWord(r - 4) = SwitchFrame[(r - 4) + 1]
      BY <1>4, BasicFrame
    <2> QED
      BY <1>2, <1>4, <2>1, <2>2, <2>3 DEF Source, ContextWord
  <1>5. CASE r = 12
    <2>1. info.offsets[r + 1] = 9 + 4
      BY <1>1, <1>5 DEF StackInfo
    <2>2. CoreFrame[4 + 1] = GdbOrder[r + 1]
      BY <1>5 DEF CoreFrame, GdbOrder
    <2>3. StackWord(9 + 4) = CoreFrame[4 + 1]
      BY BasicFrame
    <2> QED
      BY <1>2, <2>1, <2>2, <2>3 DEF Source, ContextWord
  <1>6. CASE r = 13
    <2>1. info.offsets[r + 1] = -2
      BY <1>1, <1>6 DEF StackInfo
    <2>2. GdbOrder[r + 1] = "SP"
      BY <1>6 DEF GdbOrder
    <2>3. SpAddr = "SP"
      BY <1>2 DEF SpAddr
    <2> QED
      BY <2>1, <2>2, <2>3 DEF Source
  <1>7. CASE r \in 14 .. 16
    <2>1. info.offsets[r + 1] = 9 + (r - 9)
      BY <1>1, <1>7 DEF StackInfo
    <2>2. CoreFrame[(r - 9) + 1] = GdbOrder[r + 1]
      BY <1>7 DEF CoreFrame, GdbOrder
    <2>3. StackWord(9 + (r - 9)) = CoreFrame[(r - 9) + 1]
      BY <1>7, BasicFrame
    <2> QED
      BY <1>2, <1>7, <2>1, <2>2, <2>3 DEF Source, ContextWord
  <1> QED
    BY <1>3, <1>4, <1>5, <1>6, <1>7

\* The table of the frame with them: all but the SP.
LEMMA FpSource ==
  ASSUME exc \in ExcReturns, exc < 16, NEW r \in 0 .. 16
  PROVE  \/ Source(r) = GdbOrder[r + 1]
         \/ Source(r) = Beyond /\ GdbOrder[r + 1] = "SP"
  <1>1. info = StackInfo(TRUE)
    <2>1. IsFloatingPoint(ExcRead) = TRUE
      BY LayoutIsRight DEF IsFloatingPoint
    <2> QED
      BY <2>1, Zenon DEF info
  <1>2. info.in_registers = 51
    BY <1>1 DEF StackInfo
  <1>3. CASE r \in 0 .. 3
    <2>1. info.offsets[r + 1] = 25 + r
      BY <1>1, <1>3 DEF StackInfo
    <2>2. CoreFrame[r + 1] = GdbOrder[r + 1]
      BY <1>3 DEF CoreFrame, GdbOrder
    <2>3. StackWord(25 + r) = CoreFrame[r + 1]
      BY <1>3, FpFrame
    <2> QED
      BY <1>2, <1>3, <2>1, <2>2, <2>3 DEF Source, ContextWord
  <1>4. CASE r \in 4 .. 11
    <2>1. info.offsets[r + 1] = r - 4
      BY <1>1, <1>4 DEF StackInfo
    <2>2. SwitchFrame[(r - 4) + 1] = GdbOrder[r + 1]
      BY <1>4 DEF SwitchFrame, GdbOrder
    <2>3. StackWord(r - 4) = SwitchFrame[(r - 4) + 1]
      BY <1>4, FpFrame
    <2> QED
      BY <1>2, <1>4, <2>1, <2>2, <2>3 DEF Source, ContextWord
  <1>5. CASE r = 12
    <2>1. info.offsets[r + 1] = 25 + 4
      BY <1>1, <1>5 DEF StackInfo
    <2>2. CoreFrame[4 + 1] = GdbOrder[r + 1]
      BY <1>5 DEF CoreFrame, GdbOrder
    <2>3. StackWord(25 + 4) = CoreFrame[4 + 1]
      BY FpFrame
    <2> QED
      BY <1>2, <2>1, <2>2, <2>3 DEF Source, ContextWord
  <1>6. CASE r = 13
    <2>1. info.offsets[r + 1] = -2
      BY <1>1, <1>6 DEF StackInfo
    <2>2. GdbOrder[r + 1] = "SP"
      BY <1>6 DEF GdbOrder
    <2>3. SpAddr = Beyond
      BY <1>2, FpFrame DEF SpAddr
    <2> QED
      BY <2>1, <2>2, <2>3 DEF Source
  <1>7. CASE r \in 14 .. 16
    <2>1. info.offsets[r + 1] = 25 + (r - 9)
      BY <1>1, <1>7 DEF StackInfo
    <2>2. CoreFrame[(r - 9) + 1] = GdbOrder[r + 1]
      BY <1>7 DEF CoreFrame, GdbOrder
    <2>3. StackWord(25 + (r - 9)) = CoreFrame[(r - 9) + 1]
      BY <1>7, FpFrame
    <2> QED
      BY <1>2, <1>7, <2>1, <2>2, <2>3 DEF Source, ContextWord
  <1> QED
    BY <1>3, <1>4, <1>5, <1>6, <1>7

\* What is output for a register, and which one.
Names == Saved \cup {"SP", Beyond}

LEMMA SourceIsRight ==
  ASSUME exc \in ExcReturns, NEW r \in 0 .. 16
  PROVE  /\ Source(r) \in Names
         /\ \/ Source(r) = GdbOrder[r + 1]
            \/ exc < 16 /\ GdbOrder[r + 1] = "SP"
  <1>1. GdbOrder[r + 1] \in Names
    BY DEF GdbOrder, Names, Saved
  <1>2. Beyond \in Names
    BY DEF Names
  <1>3. \/ Source(r) = GdbOrder[r + 1]
        \/ exc < 16 /\ Source(r) = Beyond /\ GdbOrder[r + 1] = "SP"
    BY BasicSource, FpSource
  <1> QED
    BY <1>1, <1>2, <1>3, Zenon

\* Both tables have the 17 registers of the debugger.
LEMMA OutRegisters == info.out_registers = 17
  BY DEF info, StackInfo

---------------------------------------------------------------------------
(* The loop.                                                               *)

\* As long as all is output, the number of bytes is that of the position; once
\* there is no room, no byte is added, as each register asks anew and the room
\* is the same.
StackInv ==
  /\ exc \in ExcReturns
  /\ size \in Sizes
  /\ reg \in 0 .. 17
  /\ byte \in 0 .. 4
  /\ out \in Seq(Names \X (0 .. 3))
  /\ byte > 0 => reg < 17
  /\ \/ Len(out) = 4 * reg + byte
     \/ byte = 0 /\ Len(out) <= 4 * reg /\ 2 * Len(out) + 3 >= size
  /\ TrueRegisters
  /\ WithinBuffer

LEMMA StackInitially == StackInit => StackInv
  BY SizesAssumption DEF StackInit, StackInv, TrueRegisters, WithinBuffer

LEMMA BytePosition ==
  ASSUME NEW r \in 0 .. 16, NEW b \in 0 .. 3, NEW i, i = 4 * r + b
  PROVE  i \div 4 = r /\ i % 4 = b
  OBVIOUS

LEMMA OutputKeeps ==
  ASSUME StackInv, OutputByte
  PROVE  StackInv'
  <1> USE SizesAssumption
  <1> DEFINE e == <<Source(reg), byte>>
  <1>1. /\ exc \in ExcReturns
        /\ size \in Nat
        /\ reg \in 0 .. 16
        /\ byte \in 0 .. 3
        /\ out \in Seq(Names \X (0 .. 3))
        /\ out' = Append(out, e)
        /\ byte' = byte + 1
        /\ UNCHANGED <<exc, size, reg>>
        /\ 2 * Len(out) + 3 < size
        /\ Len(out) = 4 * reg + byte
    <2>1. reg < 17
      BY OutRegisters DEF OutputByte
    <2>2. ~(2 * byte + 3 >= size - 2 * (Len(out) - byte))
      BY DEF OutputByte, NoRoom, Left
    <2>3. Len(out) \in Nat
      BY DEF StackInv
    <2>4. 2 * Len(out) + 3 < size
      BY <2>2, <2>3 DEF StackInv
    <2> QED
      BY <2>1, <2>3, <2>4 DEF StackInv, OutputByte
  <1>2. e \in Names \X (0 .. 3)
    BY <1>1, SourceIsRight
  <1>3. /\ out' \in Seq(Names \X (0 .. 3))
        /\ Len(out') = Len(out) + 1
        /\ \A k \in 1 .. Len(out) : out'[k] = out[k]
        /\ out'[Len(out) + 1] = e
    <2> HIDE DEF e
    <2> QED
      BY <1>1, <1>2
  <1>4. TrueRegisters'
    <2> SUFFICES ASSUME NEW k \in 1 .. Len(out')
                 PROVE  \/ out'[k] = Expected(k)
                        \/ exc' < 16 /\ Expected(k)[1] = "SP"
      BY DEF TrueRegisters, Expected
    <2>1. CASE k \in 1 .. Len(out)
      BY <1>1, <1>3, <2>1 DEF StackInv, TrueRegisters
    <2>2. CASE k = Len(out) + 1
      <3>1. (k - 1) \div 4 = reg /\ (k - 1) % 4 = byte
        <4>1. k - 1 = 4 * reg + byte
          BY <1>1, <2>2
        <4> QED
          BY <4>1, <1>1, BytePosition, Zenon
      <3>2. Expected(k) = <<GdbOrder[reg + 1], byte>>
        BY <3>1 DEF Expected
      <3>3. \/ Source(reg) = GdbOrder[reg + 1]
            \/ exc < 16 /\ GdbOrder[reg + 1] = "SP"
        BY <1>1, SourceIsRight
      <3>4. out'[k] = <<Source(reg), byte>>
        BY <1>3, <2>2
      <3>5. exc' = exc
        BY <1>1
      <3> QED
        BY <3>2, <3>3, <3>4, <3>5
    <2>3. Len(out) \in Nat
      BY <1>1
    <2> QED
      BY <1>3, <2>1, <2>2, <2>3
  <1>5. WithinBuffer'
    BY <1>1, <1>3 DEF WithinBuffer
  <1> QED
    BY <1>1, <1>3, <1>4, <1>5 DEF StackInv

LEMMA NextRegisterKeeps ==
  ASSUME StackInv, NextRegister
  PROVE  StackInv'
  <1> USE SizesAssumption
  <1>1. reg \in 0 .. 16 /\ reg' = reg + 1 /\ byte' = 0
    BY OutRegisters DEF StackInv, NextRegister
  <1>2. TrueRegisters' /\ WithinBuffer'
    BY DEF NextRegister, StackInv, TrueRegisters, WithinBuffer, Expected
  <1>3. Len(out) \in Nat /\ size \in Nat
    BY DEF StackInv
  <1>4. byte = 4 \/ 2 * byte + 3 >= size - 2 * (Len(out) - byte)
    BY DEF NextRegister, NoRoom, Left
  <1>5. \/ Len(out) = 4 * reg'
        \/ Len(out) <= 4 * reg' /\ 2 * Len(out) + 3 >= size
    BY <1>1, <1>3, <1>4 DEF StackInv
  <1> QED
    BY <1>1, <1>2, <1>5 DEF StackInv, NextRegister

\* The invariant of the loop.
THEOREM StackInvariant == StackSpec => []StackInv
  <1>1. ASSUME StackInv, [StackNext]_stackVars
        PROVE  StackInv'
    <2>1. CASE OutputByte
      BY <2>1, <1>1, OutputKeeps
    <2>2. CASE NextRegister
      BY <2>2, <1>1, NextRegisterKeeps
    <2>3. CASE UNCHANGED stackVars
      BY <2>3, <1>1
         DEF stackVars, StackInv, TrueRegisters, WithinBuffer, Expected
    <2> QED
      BY <1>1, <2>1, <2>2, <2>3 DEF StackNext
  <1> QED
    BY StackInitially, <1>1, PTL DEF StackSpec

\* The position in the output and its length stay in their bounds
\* (output_register() and the loop of get_thread_registers()).
THEOREM OutputTypeCorrect == StackSpec => []StackTypeOK
  <1>1. StackInv => StackTypeOK
    <2> SUFFICES ASSUME StackInv
                 PROVE  StackTypeOK
      OBVIOUS
    <2>1. Len(out) \in 0 .. 68
      <3>1. Len(out) \in Nat
        BY DEF StackInv
      <3>2. Len(out) <= 4 * reg + byte
        BY DEF StackInv
      <3>3. /\ reg \in 0 .. 17 /\ byte \in 0 .. 4
            /\ byte > 0 => reg < 17
        BY DEF StackInv
      <3>4. 4 * reg + byte <= 68
        BY <3>3
      <3>5. Len(out) <= 68
        BY <3>1, <3>2, <3>3, <3>4
      <3>6. \A i \in Nat : i <= 68 => i \in 0 .. 68
        OBVIOUS
      <3> QED
        BY <3>1, <3>5, <3>6, Zenon
    <2>2. 4 * info.out_registers = 68
      BY OutRegisters
    <2>3. reg \in 0 .. info.out_registers
      BY OutRegisters DEF StackInv
    <2> QED
      BY <2>1, <2>2, <2>3 DEF StackInv, StackTypeOK
  <1> QED
    BY <1>1, StackInvariant, PTL

\* Each register that is output comes from the word where the target saved it,
\* in either frame, for buffers of any sizes (read_stack() and
\* output_register()).
THEOREM RegistersAreTrue == StackSpec => []TrueRegisters
  <1>1. StackInv => TrueRegisters
    BY DEF StackInv
  <1> QED
    BY <1>1, StackInvariant, PTL

\* The string and its NUL stay in a buffer of any size (output_register()).
THEOREM StringFits == StackSpec => []WithinBuffer
  <1>1. StackInv => WithinBuffer
    BY DEF StackInv
  <1> QED
    BY <1>1, StackInvariant, PTL

(***************************************************************************)
(* What is safety of AmpleBufferFilled: when get_thread_registers()        *)
(* returns, a buffer with two bytes to spare has all the registers, and a  *)
(* string that was cut short leaves two bytes beside its NUL unused at     *)
(* most.                                                                   *)
(***************************************************************************)
AmpleHasAll ==
  Returned => /\ size >= 8 * info.out_registers + 2 =>
                   Len(out) = 4 * info.out_registers
              /\ Len(out) = 4 * info.out_registers \/ size <= 2 * Len(out) + 3

\* The bound on the room that ends the loop of output_register() loses one byte
\* of the last register at most, for buffers of any sizes.
THEOREM AmpleGetsAll == StackSpec => []AmpleHasAll
  <1>1. StackInv => AmpleHasAll
    <2> SUFFICES ASSUME StackInv, Returned
                 PROVE  /\ size >= 138 => Len(out) = 68
                        /\ Len(out) = 68 \/ size <= 2 * Len(out) + 3
      BY OutRegisters DEF AmpleHasAll
    <2>1. Len(out) \in Nat /\ size \in Nat
      BY SizesAssumption DEF StackInv
    <2>2. reg = 17 /\ byte = 0
      BY OutRegisters DEF Returned, StackInv
    <2>3. \/ Len(out) = 68
          \/ Len(out) <= 68 /\ 2 * Len(out) + 3 >= size
      BY <2>2 DEF StackInv
    <2>4. PICK n \in Nat : n = Len(out)
      BY <2>1
    <2>5. \/ n = 68
          \/ n <= 68 /\ 2 * n + 3 >= size
      BY <2>3, <2>4
    <2>6. size >= 138 => n = 68
      BY <2>1, <2>5
    <2>7. n = 68 \/ size <= 2 * n + 3
      BY <2>1, <2>5
    <2> QED
      BY <2>4, <2>6, <2>7
  <1> QED
    BY <1>1, StackInvariant, PTL
=============================================================================
