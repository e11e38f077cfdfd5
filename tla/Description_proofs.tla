-------------------------- MODULE Description_proofs --------------------------
(***************************************************************************)
(* Proofs for Description, for names, buffers and sizes of any length: a   *)
(* description that fits is complete, what is in the buffer has no gaps,   *)
(* and nothing is written outside while all but the last part fits.        *)
(*                                                                         *)
(* An snprintf() that is cut off lets count run past the end, and the room *)
(* wraps around: the next one then writes outside, or fails and takes one  *)
(* from count.  The invariant says how far count can be trusted: it is the *)
(* length of the parts so far, or it is past the end.                      *)
(***************************************************************************)
EXTENDS Description, TLAPS

---------------------------------------------------------------------------
(* The parts and their lengths.                                            *)

ThreadShown == [name: NameLengths, state: States, assigned: Priorities,
                inherited: Priorities, fp: BOOLEAN]

ShownOK == th \in ThreadShown /\ known \in BOOLEAN

LEMMA MembersShown ==
  ASSUME ShownOK
  PROVE  /\ th.name \in Nat /\ th.name + 31 < SizeSpace
         /\ th.state \in 0 .. 255
         /\ th.assigned \in Nat /\ th.inherited \in Nat
         /\ th.fp \in BOOLEAN
<1>1. th \in ThreadShown
  BY DEF ShownOK
<1>2. th.name \in NameLengths /\ th.fp \in BOOLEAN
  BY <1>1 DEF ThreadShown
<1>3. th.state \in States
  BY <1>1 DEF ThreadShown
<1>4. th.assigned \in Priorities /\ th.inherited \in Priorities
  BY <1>1 DEF ThreadShown
<1>5. th.name \in 0 .. 255
  BY <1>2, DescriptionAssumption
<1>8. th.name + 31 < SizeSpace
  BY <1>2, DescriptionAssumption
<1>6. th.state \in 0 .. 255
  BY <1>3, DescriptionAssumption
<1>7. th.assigned \in 0 .. 255 /\ th.inherited \in 0 .. 255
  BY <1>4, DescriptionAssumption
<1> QED  BY <1>2, <1>5, <1>6, <1>7, <1>8

LEMMA DigitsFew ==
  ASSUME NEW n \in Nat PROVE Digits(n) \in 1 .. 3
BY DEF Digits

LEMMA StateFew ==
  ASSUME ShownOK PROVE StateLength \in 1 .. 10
<1>1. CASE th.state < 6
  <2>1. th.state + 1 \in {1, 2, 3, 4, 5, 6}
    BY <1>1, MembersShown
  <2> QED  BY <2>1, <1>1, Z3 DEF StateLength
<1>2. CASE ~(th.state < 6)
  BY <1>2 DEF StateLength
<1> QED  BY <1>1, <1>2

\* A text has one, three or four parts, none of them empty, and 31 characters
\* beside the name at most.
LEMMA TextFacts ==
  ASSUME ShownOK
  PROVE  /\ Len(Text) \in {1, 3, 4}
         /\ \A i \in 1 .. Len(Text) : Text[i][2] \in Nat \ {0}
         /\ Total \in Nat /\ Total < SizeSpace
<1>0. th.name \in Nat /\ th.name + 31 < SizeSpace /\ SizeSpace \in Nat
  BY MembersShown, DescriptionAssumption
<1>1. CASE known
  <2> DEFINE head == <<"head", th.name + 4 + StateLength + 4>>
             priority == IF th.inherited > th.assigned
                         THEN <<"both priorities",
                                Digits(th.inherited) + 1 + Digits(th.assigned) + 1>>
                         ELSE <<"priority", Digits(th.assigned)>>
  <2>1. head[2] \in Nat \ {0} /\ head[2] <= th.name + 18
    BY MembersShown, StateFew
  <2>2. priority[2] \in 1 .. 8
    <3>1. Digits(th.inherited) \in 1 .. 3 /\ Digits(th.assigned) \in 1 .. 3
      BY MembersShown, DigitsFew
    <3> QED  BY <3>1
  <2>3. Text = IF th.fp THEN <<head, priority, <<"FP", 4>>, <<"end", 1>>>>
               ELSE <<head, priority, <<"end", 1>>>>
    BY <1>1 DEF Text, Parts
  <2> HIDE DEF head, priority
  <2>4. CASE th.fp
    <3>1. Text = <<head, priority, <<"FP", 4>>, <<"end", 1>>>>
      BY <2>3, <2>4
    <3>2. Total = head[2] + priority[2] + 4 + 1
      BY <3>1, <2>1, <2>2 DEF Total, LengthOf
    <3>3. Len(Text) = 4 /\ \A i \in 1 .. 4 : Text[i][2] \in Nat \ {0}
      BY <3>1, <2>1, <2>2
    <3>4. Total \in Nat /\ Total < SizeSpace
      BY <3>2, <2>1, <2>2, <1>0
    <3> QED  BY <3>3, <3>4
  <2>5. CASE ~th.fp
    <3>1. Text = <<head, priority, <<"end", 1>>>>
      BY <2>3, <2>5
    <3>2. Total = head[2] + priority[2] + 1
      BY <3>1, <2>1, <2>2 DEF Total, LengthOf
    <3>3. Len(Text) = 3 /\ \A i \in 1 .. 3 : Text[i][2] \in Nat \ {0}
      BY <3>1, <2>1, <2>2
    <3>4. Total \in Nat /\ Total < SizeSpace
      BY <3>2, <2>1, <2>2, <1>0
    <3> QED  BY <3>3, <3>4
  <2> QED  BY <2>4, <2>5
<1>2. CASE ~known
  <2>1. Text = <<<<"none", 4>>>>
    BY <1>2 DEF Text, DefaultParts
  <2>2. Total = 4
    BY <2>1 DEF Total, LengthOf
  <2> QED  BY <2>1, <2>2, <1>0
<1> QED  BY <1>1, <1>2

\* The lengths are the sums of the parts.
LEMMA LengthFacts ==
  ASSUME ShownOK
  PROVE  /\ LengthOf(0) = 0
         /\ \A i \in 0 .. Len(Text) : LengthOf(i) \in Nat
         /\ \A i \in 1 .. Len(Text) : LengthOf(i) = LengthOf(i - 1) + Text[i][2]
         /\ \A i, j \in 0 .. Len(Text) : i < j => LengthOf(i) < LengthOf(j)
<1> DEFINE length(i, n) == IF i <= n THEN Text[i][2] ELSE 0
           sum(n) == length(1, n) + length(2, n) + length(3, n) + length(4, n)
<1>1. \A n \in 0 .. Len(Text) : LengthOf(n) = sum(n)
  BY DEF LengthOf
<1>2. PICK L \in {1, 3, 4} : L = Len(Text)
  BY TextFacts
<1>3. \A i \in 1 .. L : Text[i][2] \in Nat \ {0}
  BY <1>2, TextFacts
<1>4. \A n \in 0 .. L : sum(n) \in Nat
  BY <1>3
<1>5. sum(0) = 0
  OBVIOUS
<1>6. \A i \in 1 .. L : sum(i) = sum(i - 1) + Text[i][2]
  BY <1>3
<1>7. \A i, j \in 0 .. L : i < j => sum(i) < sum(j)
  BY <1>3
<1> HIDE DEF sum
<1>8. \A i \in 0 .. L : LengthOf(i) = sum(i)
  BY <1>1, <1>2
<1>9. LengthOf(0) = 0
  BY <1>8, <1>5
<1>10. \A i \in 0 .. L : LengthOf(i) \in Nat
  BY <1>8, <1>4
<1>11. \A i \in 1 .. L : LengthOf(i) = LengthOf(i - 1) + Text[i][2]
  BY <1>8, <1>6
<1>12. \A i, j \in 0 .. L : i < j => LengthOf(i) < LengthOf(j)
  BY <1>8, <1>7
<1> QED  BY <1>2, <1>9, <1>10, <1>11, <1>12

LEMMA LengthsGrow ==
  ASSUME ShownOK, NEW i \in 0 .. Len(Text), NEW j \in 0 .. Len(Text), i <= j
  PROVE  LengthOf(i) \in Nat /\ LengthOf(j) \in Nat /\ LengthOf(i) <= LengthOf(j)
<1>1. Len(Text) \in Nat
  BY TextFacts
<1>2. LengthOf(i) \in Nat /\ LengthOf(j) \in Nat
  BY LengthFacts
<1>3. i < j => LengthOf(i) < LengthOf(j)
  BY LengthFacts
<1>4. i = j \/ i < j
  BY <1>1
<1> QED  BY <1>2, <1>3, <1>4

LEMMA LengthBound ==
  ASSUME ShownOK, NEW i \in 0 .. Len(Text)
  PROVE  LengthOf(i) \in Nat /\ LengthOf(i) <= Total /\ LengthOf(i) < SizeSpace
<1>1. Len(Text) \in Nat
  BY TextFacts
<1>2. LengthOf(i) \in Nat
  BY LengthFacts
<1>3. i < Len(Text) => LengthOf(i) < Total
  BY <1>1, LengthFacts DEF Total
<1>4. i = Len(Text) => LengthOf(i) = Total
  BY DEF Total
<1>5. Total \in Nat /\ Total < SizeSpace /\ SizeSpace \in Nat
  BY TextFacts, DescriptionAssumption
<1> QED  BY <1>1, <1>2, <1>3, <1>4, <1>5

---------------------------------------------------------------------------
(* The invariant.                                                          *)

\* The buffer holds the text before position last, there a NUL, and no more.
Filled(last) ==
  /\ DOMAIN buffer = 0 .. last
  /\ buffer[last] = Nul
  /\ \A i \in 1 .. Len(Text) : \A k \in LengthOf(i - 1) .. LengthOf(i) - 1 :
       k < last => buffer[k] = <<Text[i][1], k - LengthOf(i - 1) + 1>>

\* Where the NUL is, when nothing was written outside.
Last == IF count < size THEN count ELSE size - 1

DescriptionInv ==
  /\ ShownOK
  /\ size \in Sizes
  /\ part \in 1 .. Len(Text) + 1
  /\ count \in 0 .. LengthOf(part - 1)
  /\ DOMAIN buffer \subseteq Nat
  /\ part = 1 => DOMAIN buffer = {}
  /\ CutOffLastOnly
  /\ known /\ InBuffer =>
       /\ count = LengthOf(part - 1) \/ size <= count
       /\ part > 1 /\ size > 0 => Filled(Last)
  /\ ~known /\ part > 1 => count = Total /\ Filled(count)

LEMMA InitDescription == DescriptionInit => DescriptionInv
<1> SUFFICES ASSUME DescriptionInit PROVE DescriptionInv
  OBVIOUS
<1>1. ShownOK /\ size \in Sizes
  BY DEF DescriptionInit, ShownOK, ThreadShown
<1>2. part = 1 /\ count = 0 /\ buffer = <<>>
  BY DEF DescriptionInit
<1>3. DOMAIN buffer = {}
  BY <1>2
<1>4. Len(Text) \in Nat /\ Len(Text) >= 1
  BY <1>1, TextFacts
<1>5. LengthOf(part - 1) = 0
  BY <1>1, <1>2, LengthFacts
<1>6. InBuffer
  BY <1>3 DEF InBuffer
<1> QED  BY <1>1, <1>2, <1>3, <1>4, <1>5, <1>6 DEF DescriptionInv, CutOffLastOnly

---------------------------------------------------------------------------
(* One snprintf().                                                         *)

LEMMA SmallModulo ==
  ASSUME NEW n \in Nat \ {0}, NEW x \in 0 .. n - 1 PROVE x % n = x
BY SMT

LEMMA NegativeModulo ==
  ASSUME NEW n \in Nat \ {0}, NEW x \in 0 - n .. -1 PROVE x % n = x + n
BY SMT

\* The room is what is left, or has wrapped around.
LEMMA RoomFacts ==
  ASSUME DescriptionInv
  PROVE  /\ size \in 0 .. IntMax /\ IntMax \in Nat /\ IntMax < SizeSpace
         /\ SizeSpace \in Nat \ {0}
         /\ count \in 0 .. SizeSpace - 1
         /\ count <= size => Room = size - count
         /\ count > size => Room = size - count + SizeSpace
<1>1. ShownOK /\ size \in Sizes /\ part \in 1 .. Len(Text) + 1
  BY DEF DescriptionInv
<1>2. IntMax \in Nat /\ IntMax < SizeSpace /\ SizeSpace \in Nat \ {0}
  BY DescriptionAssumption
<1>3. size \in 0 .. IntMax
  BY <1>1, DescriptionAssumption
<1>4. LengthOf(part - 1) \in Nat /\ LengthOf(part - 1) < SizeSpace
  <2>1. Len(Text) \in Nat
    BY <1>1, TextFacts
  <2>2. part - 1 \in 0 .. Len(Text)
    BY <1>1, <2>1
  <2> QED  BY <1>1, <2>2, LengthBound
<1>5. count \in 0 .. LengthOf(part - 1)
  BY DEF DescriptionInv
<1>6. count \in 0 .. SizeSpace - 1
  BY <1>2, <1>4, <1>5
<1>7. count <= size => Room = size - count
  BY <1>2, <1>3, <1>6, SmallModulo DEF Room
<1>8. count > size => Room = size - count + SizeSpace
  BY <1>2, <1>3, <1>6, NegativeModulo DEF Room
<1> QED  BY <1>2, <1>3, <1>6, <1>7, <1>8

\* What an snprintf() finds and leaves, but for the buffer.
LEMMA SnprintfFacts ==
  ASSUME DescriptionInv, Snprintf
  PROVE  /\ Text' = Text
         /\ \A i \in 0 .. Len(Text) : LengthOf(i)' = LengthOf(i)
         /\ part \in 1 .. Len(Text) /\ Len(Text) \in Nat
         /\ LengthOf(part - 1) \in Nat /\ Text[part][2] \in Nat \ {0}
         /\ LengthOf(part) = LengthOf(part - 1) + Text[part][2]
         /\ LengthOf(part - 1)' = LengthOf(part)
         /\ LengthOf(part) < SizeSpace
         /\ size' = size /\ part' = part + 1 /\ known
<1>1. ShownOK /\ th' = th /\ known' = known /\ size' = size /\ known
  BY DEF DescriptionInv, Snprintf
<1>2. Text' = Text
  BY <1>1 DEF Text, Parts, DefaultParts, StateLength
<1>3. \A i \in 0 .. Len(Text) : LengthOf(i)' = LengthOf(i)
  BY <1>2 DEF LengthOf
<1>4. Len(Text) \in Nat
  BY <1>1, TextFacts
<1>5. part \in 1 .. Len(Text)
  BY <1>4 DEF DescriptionInv, Snprintf
<1>6. LengthOf(part - 1) \in Nat
  BY <1>1, <1>4, <1>5, LengthFacts
<1>7. Text[part][2] \in Nat \ {0}
  BY <1>1, <1>5, TextFacts
<1>8. LengthOf(part) = LengthOf(part - 1) + Text[part][2]
  BY <1>1, <1>5, LengthFacts
<1>9. part' = part + 1
  BY DEF Snprintf
<1>10. LengthOf(part - 1)' = LengthOf(part)
  <2>1. part' - 1 = part
    BY <1>4, <1>5, <1>9
  <2> QED  BY <2>1, <1>2 DEF LengthOf
<1>11. LengthOf(part) < SizeSpace
  <2>1. part \in 0 .. Len(Text)
    BY <1>4, <1>5
  <2> QED  BY <2>1, <1>1, LengthBound
<1> QED  BY <1>1, <1>2, <1>3, <1>4, <1>5, <1>6, <1>7, <1>8, <1>9, <1>10, <1>11

\* The three outcomes: the part is put where the NUL is; or there is no room,
\* or more than can be asked for, and nothing is written; or it is written
\* behind the buffer.
LEMMA SnprintfOutcomes ==
  ASSUME DescriptionInv, Snprintf
  PROVE  \/ /\ count < size
            /\ buffer' = Placed(Text[part], count,
                                IF Text[part][2] < size - count
                                THEN Text[part][2] ELSE size - count - 1)
            /\ count' = count + Text[part][2]
         \/ /\ count >= size
            /\ buffer' = buffer
            /\ count' \in {count + Text[part][2], count - 1}
            /\ count' >= size
         \/ /\ count > size
            /\ count \in DOMAIN buffer'
            /\ DOMAIN buffer' \subseteq Nat
            /\ count' = count + Text[part][2]
<1>1. /\ size \in 0 .. IntMax /\ IntMax \in Nat /\ IntMax < SizeSpace
      /\ SizeSpace \in Nat \ {0} /\ count \in 0 .. SizeSpace - 1
      /\ count <= size => Room = size - count
      /\ count > size => Room = size - count + SizeSpace
  BY RoomFacts
<1>2. /\ Text[part][2] \in Nat \ {0}
      /\ LengthOf(part) = LengthOf(part - 1) + Text[part][2]
      /\ LengthOf(part - 1) \in Nat /\ LengthOf(part) < SizeSpace
  BY SnprintfFacts
<1>3. count \in 0 .. LengthOf(part - 1) /\ DOMAIN buffer \subseteq Nat
  BY DEF DescriptionInv
<1>4. Added(Text[part][2]) = count + Text[part][2]
  <2>1. count + Text[part][2] \in 0 .. SizeSpace - 1
    BY <1>1, <1>2, <1>3
  <2> QED  BY <2>1, <1>1, SmallModulo DEF Added
<1>5. CASE /\ buffer' = Written(Text[part], count, Room)
           /\ count' = Added(Text[part][2])
  <2>1. CASE count < size
    <3>1. Room = size - count /\ Room # 0
      BY <2>1, <1>1
    <3> QED  BY <3>1, <2>1, <1>5, <1>4 DEF Written
  <2>2. CASE count = size
    <3>1. Room = 0
      BY <2>2, <1>1
    <3>2. buffer' = buffer
      BY <3>1, <1>5 DEF Written
    <3> QED  BY <3>2, <2>2, <1>1, <1>2, <1>4, <1>5
  <2>3. CASE count > size
    <3>1. Room \in Nat \ {0}
      BY <2>3, <1>1
    <3> DEFINE n == IF Text[part][2] < Room THEN Text[part][2] ELSE Room - 1
    <3>2. buffer' = Placed(Text[part], count, n) /\ n \in Nat
      BY <3>1, <1>2, <1>5 DEF Written
    <3> HIDE DEF n
    <3>3. DOMAIN buffer' = DOMAIN buffer \cup (count .. count + n)
      BY <3>2 DEF Placed
    <3>4. count .. count + n \subseteq Nat /\ count \in count .. count + n
      BY <3>2, <1>1
    <3> QED  BY <3>3, <3>4, <2>3, <1>3, <1>4, <1>5
  <2> QED  BY <2>1, <2>2, <2>3, <1>1
<1>6. CASE Room > IntMax /\ count' = Added(-1) /\ UNCHANGED buffer
  <2>1. count > size
    BY <1>6, <1>1
  <2>2. Added(-1) = count - 1
    <3>1. count + -1 \in 0 .. SizeSpace - 1 /\ count + -1 = count - 1
      BY <2>1, <1>1
    <3> QED  BY <3>1, <1>1, SmallModulo DEF Added
  <2> QED  BY <2>1, <2>2, <1>6, <1>1
<1> QED  BY <1>5, <1>6 DEF Snprintf

\* A part that is put behind the ones before it leaves the buffer filled to
\* where the NUL is now.
LEMMA PlacedFills ==
  ASSUME ShownOK, NEW p \in 1 .. Len(Text), NEW n \in 0 .. Text[p][2],
         count = LengthOf(p - 1),
         IF p = 1 THEN DOMAIN buffer = {} ELSE Filled(count),
         buffer' = Placed(Text[p], count, n),
         Text' = Text, \A i \in 0 .. Len(Text) : LengthOf(i)' = LengthOf(i),
         NEW last, last = count + n
  PROVE  /\ DOMAIN buffer' = 0 .. last
         /\ buffer'[last] = Nul
         /\ \A i \in 1 .. Len(Text) :
              \A k \in LengthOf(i - 1) .. LengthOf(i) - 1 :
                k < last => buffer'[k] = <<Text[i][1], k - LengthOf(i - 1) + 1>>
<1>1. /\ Len(Text) \in Nat /\ Text[p][2] \in Nat
      /\ p - 1 \in 0 .. Len(Text) /\ p \in 0 .. Len(Text)
  BY TextFacts
<1>2. count \in Nat /\ LengthOf(p) = count + Text[p][2]
  BY <1>1, LengthFacts
<1>3. DOMAIN buffer \cup (count .. last) = 0 .. last
  <2>1. CASE p = 1
    <3>1. count = 0
      BY <2>1, LengthFacts
    <3> QED  BY <3>1, <2>1
  <2>2. CASE p # 1
    <3>1. DOMAIN buffer = 0 .. count
      BY <2>2 DEF Filled
    <3> QED  BY <3>1, <1>1, <1>2
  <2> QED  BY <2>1, <2>2
<1>4. buffer' = [k \in 0 .. last |->
                   IF k < count \/ k > last THEN buffer[k]
                   ELSE IF k = last THEN Nul
                   ELSE <<Text[p][1], k - count + 1>>]
  BY <1>3 DEF Placed
<1>5. buffer'[last] = Nul
  BY <1>4, <1>1, <1>2
<1>6. ASSUME NEW i \in 1 .. Len(Text),
             NEW k \in LengthOf(i - 1) .. LengthOf(i) - 1, k < last
      PROVE  buffer'[k] = <<Text[i][1], k - LengthOf(i - 1) + 1>>
  <2>1. /\ i \in 0 .. Len(Text) /\ i - 1 \in 0 .. Len(Text)
        /\ i \in Nat /\ p \in Nat
    BY <1>1
  <2>2. LengthOf(i) \in Nat /\ LengthOf(i - 1) \in Nat
    BY <2>1, LengthFacts
  <2>3. k \in 0 .. last /\ k \in Nat
    BY <2>2, <1>6, <1>1, <1>2
  <2>4. CASE i < p
    <3>1. LengthOf(i) <= count
      <4>1. i <= p - 1
        BY <2>4, <2>1
      <4> QED  BY <4>1, <2>1, <1>1, LengthsGrow
    <3>2. k < count
      BY <3>1, <2>2, <1>2
    <3>3. buffer'[k] = buffer[k]
      BY <3>2, <2>3, <1>4
    <3>4. Filled(count)
      BY <2>4, <2>1
    <3>5. buffer[k] = <<Text[i][1], k - LengthOf(i - 1) + 1>>
      BY <3>4, <3>2 DEF Filled
    <3> QED  BY <3>3, <3>5
  <2>5. CASE i = p
    <3>1. ~(k < count) /\ ~(k > last) /\ k # last
      BY <2>5, <2>3, <1>2, <1>6
    <3>2. buffer'[k] = <<Text[p][1], k - count + 1>>
      BY <3>1, <2>3, <1>4
    <3> QED  BY <3>2, <2>5
  <2>6. CASE i > p
    <3>1. LengthOf(p) <= LengthOf(i - 1)
      <4>1. p <= i - 1
        BY <2>6, <2>1
      <4> QED  BY <4>1, <2>1, <1>1, LengthsGrow
    <3>2. last <= LengthOf(p)
      BY <1>1, <1>2
    <3>3. last <= k
      BY <3>1, <3>2, <2>2, <2>3, <1>1, <1>2
    <3> QED  BY <3>3, <2>3, <1>1, <1>2, <1>6
  <2> QED  BY <2>1, <2>4, <2>5, <2>6
<1> QED  BY <1>4, <1>5, <1>6

LEMMA NextSnprintf ==
  ASSUME DescriptionInv, Snprintf
  PROVE  DescriptionInv'
<1>1. /\ Text' = Text
      /\ \A i \in 0 .. Len(Text) : LengthOf(i)' = LengthOf(i)
      /\ part \in 1 .. Len(Text) /\ Len(Text) \in Nat
      /\ LengthOf(part - 1) \in Nat /\ Text[part][2] \in Nat \ {0}
      /\ LengthOf(part) = LengthOf(part - 1) + Text[part][2]
      /\ LengthOf(part - 1)' = LengthOf(part)
      /\ size' = size /\ part' = part + 1 /\ known
  BY SnprintfFacts
<1>2. size \in Nat
  BY RoomFacts
<1>3. /\ ShownOK /\ size \in Sizes
      /\ count \in 0 .. LengthOf(part - 1)
      /\ DOMAIN buffer \subseteq Nat
      /\ part = 1 => DOMAIN buffer = {}
      /\ CutOffLastOnly
      /\ InBuffer =>
           /\ count = LengthOf(part - 1) \/ size <= count
           /\ part > 1 /\ size > 0 => Filled(Last)
  BY <1>1 DEF DescriptionInv
<1>4. ShownOK' /\ (size \in Sizes)' /\ known'
  BY <1>1, <1>3 DEF ShownOK, Snprintf
<1>5. (part \in 1 .. Len(Text) + 1)'
  BY <1>1
<1>6. (part = 1 => DOMAIN buffer = {})'
  BY <1>1
<1>7. CASE /\ count < size
           /\ buffer' = Placed(Text[part], count,
                               IF Text[part][2] < size - count
                               THEN Text[part][2] ELSE size - count - 1)
           /\ count' = count + Text[part][2]
  <2> DEFINE n == IF Text[part][2] < size - count
                  THEN Text[part][2] ELSE size - count - 1
  <2>1. n \in 0 .. Text[part][2] /\ n \in Nat
    BY <1>1, <1>2, <1>3, <1>7
  <2>2. count + n = IF count + Text[part][2] < size
                    THEN count + Text[part][2] ELSE size - 1
    BY <1>1, <1>2, <1>3, <1>7
  <2>3. buffer' = Placed(Text[part], count, n)
    BY <1>7
  <2> HIDE DEF n
  <2>4. Last' = count + n
    BY <2>2, <1>1, <1>7 DEF Last
  <2>5. (DOMAIN buffer \subseteq Nat)'
    <3>1. DOMAIN buffer' = DOMAIN buffer \cup (count .. count + n)
      BY <2>3 DEF Placed
    <3> QED  BY <3>1, <1>3, <2>1
  <2>6. (count \in 0 .. LengthOf(part - 1))'
    BY <1>1, <1>3, <1>7
  <2>7. InBuffer' => InBuffer
    <3>1. DOMAIN buffer \subseteq DOMAIN buffer'
      BY <2>3 DEF Placed
    <3> QED  BY <3>1, <1>1 DEF InBuffer
  <2>8. InBuffer => InBuffer'
    <3>1. DOMAIN buffer' = DOMAIN buffer \cup (count .. count + n)
      BY <2>3 DEF Placed
    <3>2. count .. count + n \subseteq 0 .. size - 1
      BY <2>1, <2>2, <1>1, <1>2, <1>3, <1>7
    <3> QED  BY <3>1, <3>2, <1>1 DEF InBuffer
  <2>9. CutOffLastOnly'
    <3>1. LengthOf(Len(Text) - 1)' = LengthOf(Len(Text) - 1)
      BY <1>1 DEF LengthOf
    <3> QED  BY <3>1, <2>8, <1>1, <1>3 DEF CutOffLastOnly
  <2>10. ASSUME InBuffer'
         PROVE  (count = LengthOf(part - 1) \/ size <= count)' /\ Filled(Last)'
    <3>1. InBuffer
      BY <2>7, <2>10
    <3>2. count = LengthOf(part - 1)
      BY <3>1, <1>1, <1>2, <1>3, <1>7
    <3>3. count' = LengthOf(part - 1)'
      BY <3>2, <1>1, <1>7
    <3>4. IF part = 1 THEN DOMAIN buffer = {} ELSE Filled(count)
      <4>1. Last = count /\ size > 0
        BY <1>1, <1>2, <1>3, <1>7 DEF Last
      <4> QED  BY <4>1, <3>1, <1>1, <1>3
    <3>5. PICK last : last = count + n
      OBVIOUS
    <3>6. /\ DOMAIN buffer' = 0 .. last
          /\ buffer'[last] = Nul
          /\ \A i \in 1 .. Len(Text) :
               \A k \in LengthOf(i - 1) .. LengthOf(i) - 1 :
                 k < last => buffer'[k] = <<Text[i][1], k - LengthOf(i - 1) + 1>>
      BY <3>2, <3>4, <3>5, <2>1, <2>3, <1>1, <1>3, PlacedFills
    <3>7. \A i \in 1 .. Len(Text) : LengthOf(i)' = LengthOf(i)
                                     /\ LengthOf(i - 1)' = LengthOf(i - 1)
      BY <1>1 DEF LengthOf
    <3>8. Filled(Last)'
      BY <3>5, <3>6, <3>7, <2>4, <1>1 DEF Filled
    <3> QED  BY <3>3, <3>8
  <2> QED  BY <1>4, <1>5, <1>6, <2>5, <2>6, <2>9, <2>10 DEF DescriptionInv
<1>8. CASE /\ count >= size
           /\ buffer' = buffer
           /\ count' \in {count + Text[part][2], count - 1}
           /\ count' >= size
  <2>1. (DOMAIN buffer \subseteq Nat)'
    BY <1>3, <1>8
  <2>2. (count \in 0 .. LengthOf(part - 1))'
    BY <1>1, <1>2, <1>3, <1>8
  <2>3. InBuffer' = InBuffer
    BY <1>1, <1>8 DEF InBuffer
  <2>4. CutOffLastOnly'
    <3>1. LengthOf(Len(Text) - 1)' = LengthOf(Len(Text) - 1)
      BY <1>1 DEF LengthOf
    <3> QED  BY <3>1, <2>3, <1>1, <1>3 DEF CutOffLastOnly
  <2>5. ASSUME InBuffer', size' > 0
        PROVE  Filled(Last)'
    <3>1. part # 1
      BY <1>1, <1>2, <1>3, <1>8, <2>5, LengthFacts
    <3>2. Filled(Last)
      BY <3>1, <2>3, <2>5, <1>1, <1>3
    <3>3. Last' = Last
      BY <1>1, <1>2, <1>3, <1>8, <2>2 DEF Last
    <3>4. \A i \in 1 .. Len(Text) : LengthOf(i)' = LengthOf(i)
                                     /\ LengthOf(i - 1)' = LengthOf(i - 1)
      BY <1>1 DEF LengthOf
    <3> QED  BY <3>2, <3>3, <3>4, <1>1, <1>8 DEF Filled
  <2>6. (size <= count)'
    BY <1>1, <1>2, <1>3, <1>8
  <2> QED  BY <1>4, <1>5, <1>6, <2>1, <2>2, <2>4, <2>5, <2>6 DEF DescriptionInv
<1>9. CASE /\ count > size
           /\ count \in DOMAIN buffer'
           /\ DOMAIN buffer' \subseteq Nat
           /\ count' = count + Text[part][2]
  <2>1. (count \in 0 .. LengthOf(part - 1))'
    BY <1>1, <1>3, <1>9
  <2>2. ~InBuffer'
    BY <1>1, <1>2, <1>3, <1>9 DEF InBuffer
  <2>3. CutOffLastOnly'
    <3>1. LengthOf(Len(Text) - 1)' = LengthOf(Len(Text) - 1)
      BY <1>1 DEF LengthOf
    <3>2. LengthOf(part - 1) <= LengthOf(Len(Text) - 1)
      <4>1. part - 1 <= Len(Text) - 1
        BY <1>1
      <4>2. part - 1 \in 0 .. Len(Text) /\ Len(Text) - 1 \in 0 .. Len(Text)
        BY <1>1
      <4> QED  BY <4>1, <4>2, <1>3, LengthsGrow
    <3>3. LengthOf(Len(Text) - 1) \in Nat
      <4>1. Len(Text) - 1 \in 0 .. Len(Text)
        BY <1>1
      <4> QED  BY <4>1, <1>3, LengthFacts
    <3>4. ~(LengthOf(Len(Text) - 1) <= size)
      BY <3>2, <3>3, <1>1, <1>2, <1>3, <1>9
    <3> QED  BY <3>1, <3>4, <1>1 DEF CutOffLastOnly
  <2> QED  BY <1>4, <1>5, <1>6, <1>9, <2>1, <2>2, <2>3 DEF DescriptionInv
<1> QED  BY <1>7, <1>8, <1>9, SnprintfOutcomes

---------------------------------------------------------------------------
(* The copy of the default description.                                    *)

LEMMA NextCopyDefault ==
  ASSUME DescriptionInv, CopyDefault
  PROVE  DescriptionInv'
<1>1. /\ ShownOK /\ ~known /\ part = 1 /\ count = 0 /\ size \in Sizes
      /\ DOMAIN buffer = {}
  <2>1. ShownOK /\ ~known /\ part = 1 /\ size \in Sizes /\ DOMAIN buffer = {}
    BY DEF DescriptionInv, CopyDefault
  <2>2. count \in 0 .. LengthOf(0)
    BY <2>1 DEF DescriptionInv
  <2> QED  BY <2>1, <2>2, LengthFacts
<1>2. /\ th' = th /\ known' = known /\ size' = size /\ part' = 2
      /\ count' = Text[1][2] /\ buffer' = Placed(Text[1], 0, Text[1][2])
  BY DEF CopyDefault
<1>3. Text = <<<<"none", 4>>>>
  BY <1>1 DEF Text, DefaultParts
<1>4. Text' = Text
  BY <1>1, <1>2 DEF Text, DefaultParts
<1>5. \A i \in 0 .. Len(Text) : LengthOf(i)' = LengthOf(i)
  BY <1>4 DEF LengthOf
<1>6. Len(Text) = 1 /\ Text[1][2] = 4
  BY <1>3
<1>7. LengthOf(0) = 0 /\ LengthOf(1) = 4
  BY <1>3 DEF LengthOf
<1>8. ShownOK' /\ (size \in Sizes)' /\ ~known' /\ (part \in 1 .. Len(Text) + 1)'
  BY <1>1, <1>2, <1>4, <1>6 DEF ShownOK
<1>9. LengthOf(part - 1)' = 4 /\ Total' = 4
  BY <1>2, <1>3, <1>4 DEF LengthOf, Total
<1>10. count' = 4
  BY <1>2, <1>6
<1>11. PICK p \in 1 .. Len(Text) : p = 1
  BY <1>6
<1>12. PICK n \in 0 .. Text[p][2] : n = 4
  BY <1>6, <1>11
<1>13. PICK last : last = count + n
  OBVIOUS
<1>14. count = LengthOf(p - 1) /\ buffer' = Placed(Text[p], count, n)
  BY <1>1, <1>2, <1>6, <1>7, <1>11, <1>12
<1>15. IF p = 1 THEN DOMAIN buffer = {} ELSE Filled(count)
  BY <1>1, <1>11
<1>16. /\ DOMAIN buffer' = 0 .. last
       /\ buffer'[last] = Nul
       /\ \A i \in 1 .. Len(Text) :
            \A k \in LengthOf(i - 1) .. LengthOf(i) - 1 :
              k < last => buffer'[k] = <<Text[i][1], k - LengthOf(i - 1) + 1>>
  BY <1>1, <1>4, <1>5, <1>13, <1>14, <1>15, PlacedFills
<1>17. last = 4
  BY <1>1, <1>12, <1>13
<1>18. \A i \in 1 .. Len(Text) : LengthOf(i)' = LengthOf(i)
                                /\ LengthOf(i - 1)' = LengthOf(i - 1)
  BY <1>4 DEF LengthOf
<1>19. Filled(count)'
  BY <1>4, <1>10, <1>16, <1>17, <1>18 DEF Filled
<1>20. (DOMAIN buffer \subseteq Nat)'
  BY <1>16, <1>17
<1>21. (count \in 0 .. LengthOf(part - 1))'
  BY <1>9, <1>10
<1> QED  BY <1>2, <1>8, <1>9, <1>10, <1>19, <1>20, <1>21
            DEF DescriptionInv, CutOffLastOnly

---------------------------------------------------------------------------
(* The theorems.                                                           *)

\* Whatever the thread and the buffer, the invariant above holds of
\* get_thread_description() between two calls of snprintf().
THEOREM DescriptionInvariant == DescriptionSpec => []DescriptionInv
<1>1. ASSUME DescriptionInv, UNCHANGED descriptionVars
      PROVE  DescriptionInv'
  <2>1. /\ th' = th /\ known' = known /\ size' = size /\ part' = part
        /\ count' = count /\ buffer' = buffer
    BY <1>1 DEF descriptionVars
  <2>2. Text' = Text
    BY <2>1 DEF Text, Parts, DefaultParts, StateLength
  <2>3. ShownOK' = ShownOK
    BY <2>1 DEF ShownOK
  <2>4. InBuffer' = InBuffer /\ Last' = Last
    BY <2>1 DEF InBuffer, Last
  <2>5. LengthOf(part - 1)' = LengthOf(part - 1) /\ Total' = Total
        /\ LengthOf(Len(Text) - 1)' = LengthOf(Len(Text) - 1)
    BY <2>1, <2>2 DEF LengthOf, Total
  <2>6. CutOffLastOnly'
    BY <1>1, <2>1, <2>4, <2>5 DEF DescriptionInv, CutOffLastOnly
  <2>7. Filled(Last)' = Filled(Last) /\ Filled(count)' = Filled(count)
    BY <2>1, <2>2, <2>4 DEF Filled, LengthOf
  <2> QED  BY <1>1, <2>1, <2>2, <2>3, <2>4, <2>5, <2>6, <2>7 DEF DescriptionInv
<1>2. DescriptionInv /\ [DescriptionNext]_descriptionVars => DescriptionInv'
  BY <1>1, NextSnprintf, NextCopyDefault DEF DescriptionNext
<1> QED  BY <1>2, InitDescription, PTL DEF DescriptionSpec

\* The count never exceeds the length of the description, and no more parts are
\* output than there are.
THEOREM DescriptionTypeCorrect == DescriptionSpec => []DescriptionTypeOK
<1>1. DescriptionInv => DescriptionTypeOK
  <2> SUFFICES ASSUME DescriptionInv PROVE DescriptionTypeOK
    OBVIOUS
  <2>1. /\ ShownOK /\ size \in Sizes /\ part \in 1 .. Len(Text) + 1
        /\ count \in 0 .. LengthOf(part - 1) /\ DOMAIN buffer \subseteq Nat
    BY DEF DescriptionInv
  <2>2. Len(Text) \in Nat
    BY <2>1, TextFacts
  <2>3. part - 1 \in 0 .. Len(Text)
    BY <2>1, <2>2
  <2>4. LengthOf(part - 1) \in Nat /\ LengthOf(part - 1) <= Total /\ Total \in Nat
    BY <2>1, <2>3, LengthBound, TextFacts
  <2>5. count \in 0 .. Total
    BY <2>1, <2>4
  <2> QED  BY <2>1, <2>5 DEF DescriptionTypeOK
<1> QED  BY <1>1, DescriptionInvariant, PTL

\* For a buffer of any size: while all but the last part of the description
\* fits, prepare_description() writes nothing outside the buffer.
THEOREM OverrunsAreLate == DescriptionSpec => []CutOffLastOnly
<1>1. DescriptionInv => CutOffLastOnly
  BY DEF DescriptionInv
<1> QED  BY <1>1, DescriptionInvariant, PTL

\* The character at a place of the text is in the part that the place is in.
LEMMA CharOfPart ==
  ASSUME ShownOK, NEW k \in 0 .. Total - 1
  PROVE  \E i \in 1 .. Len(Text) :
           /\ k \in LengthOf(i - 1) .. LengthOf(i) - 1
           /\ CharAt(k) = <<Text[i][1], k - LengthOf(i - 1) + 1>>
<1> DEFINE In(i) == LengthOf(i - 1) <= k /\ k < LengthOf(i)
           n == CHOOSE i \in 1 .. Len(Text) : In(i)
<1>1. \E i \in 1 .. Len(Text) : In(i)
  <2>1. PICK L \in {1, 3, 4} : L = Len(Text)
    BY TextFacts
  <2>2. \A i \in 0 .. L : LengthOf(i) \in Nat
    BY <2>1, LengthFacts
  <2>3. LengthOf(0) = 0 /\ k \in Nat /\ k < LengthOf(L)
    BY <2>1, LengthFacts, TextFacts DEF Total
  <2> SUFFICES ASSUME \A i \in 1 .. L : ~In(i) PROVE FALSE
    BY <2>1
  <2>4. \A i \in 1 .. L : LengthOf(i - 1) <= k => LengthOf(i) <= k
    BY <2>2, <2>3
  <2> HIDE DEF In
  <2>5. LengthOf(1) <= k
    BY <2>3, <2>4
  <2>6. L >= 3 => LengthOf(2) <= k
    BY <2>4, <2>5
  <2>7. L >= 3 => LengthOf(3) <= k
    BY <2>4, <2>6
  <2>8. L = 4 => LengthOf(4) <= k
    BY <2>4, <2>7
  <2>9. LengthOf(L) <= k
    BY <2>5, <2>7, <2>8
  <2> QED  BY <2>2, <2>3, <2>9
<1>2. n \in 1 .. Len(Text) /\ In(n)
  BY <1>1
<1>3. CharAt(k) = <<Text[n][1], k - LengthOf(n - 1) + 1>>
  BY DEF CharAt
<1> HIDE DEF n
<1>4. k \in LengthOf(n - 1) .. LengthOf(n) - 1
  <2>1. Len(Text) \in Nat
    BY TextFacts
  <2>2. n \in 0 .. Len(Text) /\ n - 1 \in 0 .. Len(Text)
    BY <1>2, <2>1
  <2>3. LengthOf(n) \in Nat /\ LengthOf(n - 1) \in Nat /\ Total \in Nat
    BY <2>2, LengthFacts, TextFacts
  <2> QED  BY <2>3, <1>2
<1> QED  BY <1>2, <1>3, <1>4

\* For a description of any length in a buffer of any size: what is in the
\* buffer is the text from its beginning, with no part left out, no NUL between
\* two parts, and a NUL behind it.
THEOREM TextHasNoGaps == DescriptionSpec => []NoGaps
<1>1. DescriptionInv => NoGaps
  <2> SUFFICES ASSUME DescriptionInv, NEW k \in 0 .. Total - 1,
                      k \in DOMAIN buffer, InBuffer
               PROVE  \/ buffer[k] = CharAt(k)
                      \/ \A j \in DOMAIN buffer : j >= k => buffer[j] = Nul
    BY DEF NoGaps
  <2>1. ShownOK /\ size \in Nat /\ count \in Nat /\ part \in Nat
    <3>1. ShownOK /\ part \in 1 .. Len(Text) + 1
      BY DEF DescriptionInv
    <3> QED  BY <3>1, RoomFacts, TextFacts
  <2>2. PICK last \in Int : Filled(last)
    <3>1. part > 1
      BY <2>1 DEF DescriptionInv
    <3>2. CASE known
      <4>1. size > 0
        BY <2>1 DEF InBuffer
      <4>2. Last \in Int
        BY <2>1 DEF Last
      <4> QED  BY <3>1, <3>2, <4>1, <4>2 DEF DescriptionInv
    <3>3. CASE ~known
      BY <3>1, <3>3, <2>1 DEF DescriptionInv
    <3> QED  BY <3>2, <3>3
  <2>3. k \in 0 .. last /\ DOMAIN buffer = 0 .. last /\ buffer[last] = Nul
    BY <2>2 DEF Filled
  <2>4. CASE k < last
    <3>1. PICK i \in 1 .. Len(Text) :
            /\ k \in LengthOf(i - 1) .. LengthOf(i) - 1
            /\ CharAt(k) = <<Text[i][1], k - LengthOf(i - 1) + 1>>
      BY <2>1, CharOfPart
    <3> QED  BY <3>1, <2>2, <2>4 DEF Filled
  <2>5. CASE k = last
    BY <2>3, <2>5
  <2> QED  BY <2>2, <2>3, <2>4, <2>5
<1> QED  BY <1>1, DescriptionInvariant, PTL

\* A buffer with room for the description and a NUL gets both, whole and in
\* place, and the answer is the length of the description.
THEOREM RoomGetsWhole == DescriptionSpec => []WholeWhenRoom
<1>1. DescriptionInv => WholeWhenRoom
  <2> SUFFICES ASSUME DescriptionInv, Done, size > Total
               PROVE  /\ InBuffer /\ Total \in DOMAIN buffer /\ buffer[Total] = Nul
                      /\ \A k \in 0 .. Total - 1 : buffer[k] = CharAt(k)
                      /\ count = Total
    BY DEF WholeWhenRoom
  <2>1. /\ ShownOK /\ part \in 1 .. Len(Text) + 1
        /\ count \in 0 .. LengthOf(part - 1)
    BY DEF DescriptionInv
  <2>2. Len(Text) \in Nat /\ Len(Text) >= 1 /\ Total \in Nat
    <3>1. Len(Text) \in {1, 3, 4} /\ Total \in Nat
      BY <2>1, TextFacts
    <3> QED  BY <3>1
  <2>3. part = Len(Text) + 1 /\ part > 1 /\ part - 1 = Len(Text)
    BY <2>1, <2>2 DEF Done
  <2>4. LengthOf(part - 1) = Total
    BY <2>3 DEF Total
  <2>5. size \in Nat /\ size > 0
    BY <2>2, RoomFacts
  <2>6. InBuffer /\ count = Total /\ Filled(Total)
    <3>1. CASE known
      <4>1. LengthOf(Len(Text) - 1) <= size
        <5>1. Len(Text) - 1 \in 0 .. Len(Text)
          BY <2>2
        <5>2. LengthOf(Len(Text) - 1) \in Nat /\ LengthOf(Len(Text) - 1) <= Total
          BY <5>1, <2>1, LengthBound
        <5> QED  BY <5>2, <2>2, <2>5
      <4>2. InBuffer
        BY <4>1, <3>1 DEF DescriptionInv, CutOffLastOnly
      <4>3. count = Total
        BY <4>2, <3>1, <2>1, <2>2, <2>4, <2>5 DEF DescriptionInv
      <4>4. Last = Total
        BY <4>3 DEF Last
      <4> QED  BY <4>2, <4>3, <4>4, <3>1, <2>3, <2>5 DEF DescriptionInv
    <3>2. CASE ~known
      <4>1. count = Total /\ Filled(count)
        BY <3>2, <2>3 DEF DescriptionInv
      <4>2. DOMAIN buffer = 0 .. Total
        BY <4>1 DEF Filled
      <4> QED  BY <4>1, <4>2, <2>2, <2>5 DEF InBuffer
    <3> QED  BY <3>1, <3>2
  <2>7. Total \in DOMAIN buffer /\ buffer[Total] = Nul
    BY <2>2, <2>6 DEF Filled
  <2>8. ASSUME NEW k \in 0 .. Total - 1 PROVE buffer[k] = CharAt(k)
    <3>1. PICK i \in 1 .. Len(Text) :
            /\ k \in LengthOf(i - 1) .. LengthOf(i) - 1
            /\ CharAt(k) = <<Text[i][1], k - LengthOf(i - 1) + 1>>
      BY <2>1, CharOfPart
    <3>2. k < Total
      BY <2>2
    <3> QED  BY <3>1, <3>2, <2>6 DEF Filled
  <2> QED  BY <2>6, <2>7, <2>8
<1> QED  BY <1>1, DescriptionInvariant, PTL
=============================================================================
