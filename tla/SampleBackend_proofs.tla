------------------------ MODULE SampleBackend_proofs ------------------------
(***************************************************************************)
(* Proofs for SampleBackend, for bytes of any radix and memories of any    *)
(* size: what is written is read back, where load_long() and               *)
(* load_long_long() are not at fault.                                      *)
(*                                                                         *)
(* Induction over the bytes of a value is not needed: there are eight at   *)
(* most.                                                                   *)
(***************************************************************************)
EXTENDS SampleBackend, SequenceTheorems, TLAPS

---------------------------------------------------------------------------
(* Division.                                                               *)

LEMMA Division ==
  ASSUME NEW d \in Nat \ {0}, NEW a \in Nat
  PROVE  /\ a \div d \in Nat
         /\ a % d \in 0 .. d - 1
         /\ a = ((a \div d) * d) + (a % d)
BY SMT

LEMMA DivisionTwice ==
  ASSUME NEW d \in Nat \ {0}, NEW e \in Nat \ {0}, NEW a \in Nat
  PROVE  a \div (d * e) = (a \div d) \div e
BY SMT

LEMMA SmallQuotient ==
  ASSUME NEW d \in Nat \ {0}, NEW a \in 0 .. d - 1
  PROVE  a \div d = 0
BY SMT

LEMMA WholeQuotient ==
  ASSUME NEW a \in Nat PROVE a \div 1 = a
BY SMT

LEMMA Shifted ==
  ASSUME NEW a \in Nat, NEW b \in Nat PROVE a * Radix + b \in Nat
BY BackendAssumption

\* The functions that are defined by recursion over at most eight bytes exist.
LEMMA StepsExist ==
  ASSUME NEW w \in 0 .. 8, NEW a \in Nat, NEW p \in [1 .. w -> Nat]
  PROVE  \E h \in [0 .. w -> Nat] :
           h[0] = a /\ \A i \in 1 .. w : h[i] = h[i - 1] * Radix + p[i]
<1> DEFINE Steps(n) == \E h \in [0 .. n -> Nat] :
             h[0] = a /\ \A i \in 1 .. n : h[i] = h[i - 1] * Radix + p[i]
<1>1. Steps(0)
  <2>1. PICK h : h = [i \in 0 .. 0 |-> a]
    OBVIOUS
  <2>2. h \in [0 .. 0 -> Nat] /\ h[0] = a
    BY <2>1
  <2>3. 1 .. 0 = {}
    OBVIOUS
  <2> QED  BY <2>2, <2>3
<1>2. ASSUME NEW n \in 0 .. w - 1, Steps(n) PROVE Steps(n + 1)
  <2>1. PICK h \in [0 .. n -> Nat] :
          h[0] = a /\ \A i \in 1 .. n : h[i] = h[i - 1] * Radix + p[i]
    BY <1>2
  <2>2. n + 1 \in 1 .. w /\ n \in 0 .. n
    OBVIOUS
  <2>3. h[n] * Radix + p[n + 1] \in Nat
    <3>1. h[n] \in Nat /\ p[n + 1] \in Nat
      BY <2>2
    <3> QED  BY <3>1, Shifted
  <2>4. PICK g : g = [i \in 0 .. n + 1 |-> IF i \in 0 .. n THEN h[i]
                                          ELSE h[n] * Radix + p[n + 1]]
    OBVIOUS
  <2>5. g \in [0 .. n + 1 -> Nat]
    BY <2>1, <2>3, <2>4
  <2>6. g[0] = a
    BY <2>1, <2>4
  <2>7. ASSUME NEW i \in 1 .. n + 1 PROVE g[i] = g[i - 1] * Radix + p[i]
    <3>1. CASE i \in 1 .. n
      <4>1. i \in 0 .. n /\ i - 1 \in 0 .. n /\ i \in 0 .. n + 1 /\ i - 1 \in 0 .. n + 1
        BY <3>1
      <4> QED  BY <4>1, <3>1, <2>1, <2>4
    <3>2. CASE i = n + 1
      <4>1. i \notin 0 .. n /\ i - 1 = n /\ i \in 0 .. n + 1 /\ n \in 0 .. n + 1
        BY <3>2
      <4> QED  BY <4>1, <3>2, <2>2, <2>4
    <3> QED  BY <3>1, <3>2
  <2> QED  BY <2>5, <2>6, <2>7
<1> HIDE DEF Steps
<1>3. w >= 1 => Steps(1)
  BY <1>1, <1>2
<1>4. w >= 2 => Steps(2)
  BY <1>3, <1>2
<1>5. w >= 3 => Steps(3)
  BY <1>4, <1>2
<1>6. w >= 4 => Steps(4)
  BY <1>5, <1>2
<1>7. w >= 5 => Steps(5)
  BY <1>6, <1>2
<1>8. w >= 6 => Steps(6)
  BY <1>7, <1>2
<1>9. w >= 7 => Steps(7)
  BY <1>8, <1>2
<1>10. w >= 8 => Steps(8)
  BY <1>9, <1>2
<1>11. Steps(w)
  BY <1>1, <1>3, <1>4, <1>5, <1>6, <1>7, <1>8, <1>9, <1>10
<1> QED  BY <1>11 DEF Steps

LEMMA WeightSteps ==
  /\ Weight[0] = 1
  /\ \A n \in 1 .. 8 : Weight[n] = Weight[n - 1] * Radix
<1> DEFINE Step(h) == h = [n \in 0 .. 8 |-> IF n = 0 THEN 1 ELSE h[n - 1] * Radix]
<1>1. \E h : Step(h)
  <2>1. PICK zero : zero = [i \in 1 .. 8 |-> 0]
    OBVIOUS
  <2>2. zero \in [1 .. 8 -> Nat] /\ \A i \in 1 .. 8 : zero[i] = 0
    BY <2>1
  <2>3. PICK w \in 0 .. 8, a \in Nat : w = 8 /\ a = 1
    OBVIOUS
  <2>4. PICK h \in [0 .. w -> Nat] :
          h[0] = a /\ \A i \in 1 .. w : h[i] = h[i - 1] * Radix + zero[i]
    BY <2>2, <2>3, StepsExist
  <2>5. \A i \in 0 .. w : h[i] = IF i = 0 THEN a ELSE h[i - 1] * Radix
    <3> SUFFICES ASSUME NEW i \in 1 .. w PROVE h[i] = h[i - 1] * Radix
      BY <2>4
    <3>1. i - 1 \in 0 .. w
      OBVIOUS
    <3>2. h[i - 1] * Radix + 0 = h[i - 1] * Radix
      BY <2>4, <3>1, BackendAssumption
    <3> QED  BY <3>2, <2>2, <2>3, <2>4
  <2>6. h = [i \in 0 .. w |-> IF i = 0 THEN a ELSE h[i - 1] * Radix]
    BY <2>4, <2>5
  <2> QED  BY <2>3, <2>6
<1>2. Step(Weight)
  BY <1>1 DEF Weight
<1> QED  BY <1>2

LEMMA WeightType == \A n \in 0 .. 8 : Weight[n] \in Nat \ {0}
<1> DEFINE Positive(n) == Weight[n] \in Nat \ {0}
<1>1. Positive(0)
  BY WeightSteps
<1>2. ASSUME NEW n \in 0 .. 7, Positive(n) PROVE Positive(n + 1)
  <2>1. n + 1 \in 1 .. 8 /\ (n + 1) - 1 = n
    OBVIOUS
  <2>2. Weight[n + 1] = Weight[n] * Radix
    BY <2>1, WeightSteps
  <2>3. Radix \in Nat /\ Radix > 0 /\ Weight[n] \in Nat /\ Weight[n] > 0
    BY <1>2, BackendAssumption
  <2> QED  BY <2>2, <2>3
<1> HIDE DEF Positive
<1>3. Positive(1)
  BY <1>1, <1>2
<1>4. Positive(2)
  BY <1>3, <1>2
<1>5. Positive(3)
  BY <1>4, <1>2
<1>6. Positive(4)
  BY <1>5, <1>2
<1>7. Positive(5)
  BY <1>6, <1>2
<1>8. Positive(6)
  BY <1>7, <1>2
<1>9. Positive(7)
  BY <1>8, <1>2
<1>10. Positive(8)
  BY <1>9, <1>2
<1>11. \A n \in 0 .. 8 : Positive(n)
  BY <1>1, <1>3, <1>4, <1>5, <1>6, <1>7, <1>8, <1>9, <1>10
<1> QED  BY <1>11 DEF Positive

---------------------------------------------------------------------------
(* Splitting a value and putting it together.                              *)

LEMMA ShiftedSteps ==
  ASSUME NEW w \in 0 .. 8, NEW p \in [1 .. w -> Nat], Len(p) = w
  PROVE  /\ ShiftedIn(p)[0] = 0
         /\ \A i \in 1 .. w : ShiftedIn(p)[i] = ShiftedIn(p)[i - 1] * Radix + p[i]
<1> DEFINE Step(h) == h = [i \in 0 .. Len(p) |-> IF i = 0 THEN 0
                                                ELSE h[i - 1] * Radix + p[i]]
<1>1. \E h : Step(h)
  <2>1. PICK a \in Nat : a = 0
    OBVIOUS
  <2>2. PICK h \in [0 .. w -> Nat] :
          h[0] = a /\ \A i \in 1 .. w : h[i] = h[i - 1] * Radix + p[i]
    BY StepsExist
  <2>3. h = [i \in 0 .. w |-> IF i = 0 THEN a ELSE h[i - 1] * Radix + p[i]]
    BY <2>2
  <2> QED  BY <2>1, <2>3
<1>2. Step(ShiftedIn(p))
  BY <1>1 DEF ShiftedIn
<1>3. PICK s : s = ShiftedIn(p)
  OBVIOUS
<1>4. s = [i \in 0 .. w |-> IF i = 0 THEN 0 ELSE s[i - 1] * Radix + p[i]]
  BY <1>2, <1>3
<1>5. s[0] = 0
  BY <1>4
<1>6. \A i \in 1 .. w : s[i] = s[i - 1] * Radix + p[i]
  BY <1>4
<1> QED  BY <1>3, <1>5, <1>6

\* The value shifted right by one byte more, and what was shifted out.
LEMMA ShiftOut ==
  ASSUME NEW v \in Nat, NEW n \in 1 .. 8
  PROVE  /\ v \div Weight[n] \in Nat
         /\ v \div Weight[n - 1]
              = (v \div Weight[n]) * Radix + ((v \div Weight[n - 1]) % Radix)
<1>1. PICK k \in 0 .. 8 : k = n - 1
  OBVIOUS
<1>2. Weight[k] \in Nat \ {0} /\ Weight[n] \in Nat \ {0}
  BY <1>1, WeightType
<1>3. Weight[n] = Weight[k] * Radix /\ Radix \in Nat \ {0}
  BY <1>1, WeightSteps, BackendAssumption
<1>4. PICK a \in Nat : a = v \div Weight[k]
  BY <1>2, Division
<1>5. v \div Weight[n] = a \div Radix
  BY <1>2, <1>3, <1>4, DivisionTwice
<1>6. a = ((a \div Radix) * Radix) + (a % Radix)
  BY <1>3, <1>4, Division
<1>7. v \div Weight[n] \in Nat
  BY <1>2, Division
<1> QED  BY <1>1, <1>4, <1>5, <1>6, <1>7

LEMMA ShiftSum ==
  ASSUME NEW a \in Nat, NEW b \in Nat, NEW c \in Nat, NEW d \in Nat
  PROVE  (a + c * d) * Radix + b = (a * Radix + b) + c * (d * Radix)
BY BackendAssumption, SMT

\* The lowest bytes of a value, the highest of them first, put together, are
\* what there is of it below their weight.
LEMMA BigEndianTrip ==
  ASSUME NEW w \in 1 .. 8, NEW v \in Nat,
         NEW p \in [1 .. w -> Nat], Len(p) = w,
         \A i \in 1 .. w : p[i] = (v \div Weight[w - i]) % Radix
  PROVE  /\ ShiftedIn(p)[w] \in Nat
         /\ ShiftedIn(p)[w] + (v \div Weight[w]) * Weight[w] = v
<1> DEFINE c == v \div Weight[w]
           Right(n) == /\ ShiftedIn(p)[n] \in Nat
                       /\ ShiftedIn(p)[n] + c * Weight[n] = v \div Weight[w - n]
<1>0. w \in 0 .. 8 /\ w \in Nat /\ c \in Nat
  <2>1. w \in 0 .. 8 /\ w \in Nat
    OBVIOUS
  <2>2. Weight[w] \in Nat \ {0}
    BY <2>1, WeightType
  <2> QED  BY <2>1, <2>2, Division
<1> HIDE DEF c
<1>1. Right(0)
  <2>1. ShiftedIn(p)[0] = 0
    BY <1>0, ShiftedSteps
  <2>2. w - 0 = w /\ Weight[0] = 1
    BY WeightSteps
  <2>3. 0 + c * 1 = c
    BY <1>0
  <2>4. c = v \div Weight[w]
    BY DEF c
  <2> QED  BY <2>1, <2>2, <2>3, <2>4
<1>2. ASSUME NEW n \in 0 .. w - 1, Right(n) PROVE Right(n + 1)
  <2>1. PICK i \in 1 .. w : i = n + 1
    OBVIOUS
  <2>2. PICK m \in 1 .. 8 : m = w - n
    OBVIOUS
  <2>3. i - 1 = n /\ w - i = m - 1 /\ i \in 1 .. 8 /\ n \in 0 .. 8
    BY <2>1, <2>2
  <2>4. PICK a \in Nat : a = ShiftedIn(p)[n]
    BY <1>2
  <2>5. PICK b \in Nat : b = p[i]
    OBVIOUS
  <2>6. PICK d \in Nat : d = Weight[n]
    BY <2>3, WeightType
  <2>7. ShiftedIn(p)[i] = a * Radix + b
    BY <2>3, <2>4, <2>5, <1>0, ShiftedSteps
  <2>8. b = (v \div Weight[m - 1]) % Radix
    BY <2>3, <2>5
  <2>9. v \div Weight[m - 1]
          = (v \div Weight[m]) * Radix + ((v \div Weight[m - 1]) % Radix)
    BY ShiftOut
  <2>10. v \div Weight[m] = a + c * d
    BY <1>2, <2>2, <2>4, <2>6
  <2>11. v \div Weight[m - 1] = (a + c * d) * Radix + b
    BY <2>8, <2>9, <2>10
  <2>12. Weight[i] = d * Radix
    BY <2>3, <2>6, WeightSteps
  <2>13. (a + c * d) * Radix + b = (a * Radix + b) + c * (d * Radix)
    BY <1>0, ShiftSum
  <2>14. ShiftedIn(p)[i] + c * Weight[i] = v \div Weight[w - i]
    BY <2>3, <2>7, <2>11, <2>12, <2>13
  <2>15. ShiftedIn(p)[i] \in Nat
    BY <2>7, Shifted
  <2> QED  BY <2>1, <2>14, <2>15
<1> HIDE DEF Right
<1>3. Right(1)
  BY <1>1, <1>2
<1>4. w >= 2 => Right(2)
  BY <1>3, <1>2
<1>5. w >= 3 => Right(3)
  BY <1>4, <1>2
<1>6. w >= 4 => Right(4)
  BY <1>5, <1>2
<1>7. w >= 5 => Right(5)
  BY <1>6, <1>2
<1>8. w >= 6 => Right(6)
  BY <1>7, <1>2
<1>9. w >= 7 => Right(7)
  BY <1>8, <1>2
<1>10. w >= 8 => Right(8)
  BY <1>9, <1>2
<1>11. Right(w)
  <2>1. w = 1 => Right(w)
    BY <1>3
  <2>2. w = 2 => Right(w)
    BY <1>4
  <2>3. w = 3 => Right(w)
    BY <1>5
  <2>4. w = 4 => Right(w)
    BY <1>6
  <2>5. w = 5 => Right(w)
    BY <1>7
  <2>6. w = 6 => Right(w)
    BY <1>8
  <2>7. w = 7 => Right(w)
    BY <1>9
  <2>8. w = 8 => Right(w)
    BY <1>10
  <2> QED  BY <2>1, <2>2, <2>3, <2>4, <2>5, <2>6, <2>7, <2>8
<1>12. v \div Weight[w - w] = v
  <2>1. w - w = 0 /\ Weight[0] = 1
    BY WeightSteps
  <2> QED  BY <2>1, WholeQuotient
<1> QED  BY <1>11, <1>12 DEF Right, c

\* Weights multiply: to shift by k bytes and then by n is to shift by both.
LEMMA WeightSum ==
  ASSUME NEW n \in 0 .. 4
  PROVE  \A k \in 0 .. 4 : Weight[n + k] = Weight[n] * Weight[k]
<1> DEFINE Sum(k) == Weight[n + k] = Weight[n] * Weight[k]
<1>1. Weight[n] \in Nat
  <2>1. n \in 0 .. 8
    OBVIOUS
  <2> QED  BY <2>1, WeightType
<1>2. Sum(0)
  <2>1. n + 0 = n /\ Weight[0] = 1
    BY WeightSteps
  <2> QED  BY <2>1, <1>1
<1>3. ASSUME NEW k \in 0 .. 3, Sum(k) PROVE Sum(k + 1)
  <2>1. PICK i \in 1 .. 8, j \in 1 .. 8 : i = n + (k + 1) /\ j = k + 1
    OBVIOUS
  <2>2. i - 1 = n + k /\ j - 1 = k /\ k \in 0 .. 8
    BY <2>1
  <2>3. Weight[i] = Weight[n + k] * Radix /\ Weight[j] = Weight[k] * Radix
    BY <2>2, WeightSteps
  <2>4. PICK a \in Nat, b \in Nat : a = Weight[n] /\ b = Weight[k]
    BY <1>1, <2>2, WeightType
  <2>5. (a * b) * Radix = a * (b * Radix)
    BY BackendAssumption, SMT
  <2> QED  BY <1>3, <2>1, <2>3, <2>4, <2>5
<1> HIDE DEF Sum
<1>4. Sum(1)
  BY <1>2, <1>3
<1>5. Sum(2)
  BY <1>4, <1>3
<1>6. Sum(3)
  BY <1>5, <1>3
<1>7. Sum(4)
  BY <1>6, <1>3
<1>8. \A k \in 0 .. 4 : Sum(k)
  BY <1>2, <1>4, <1>5, <1>6, <1>7
<1> QED  BY <1>8 DEF Sum

---------------------------------------------------------------------------
(* The bytes of memory.                                                    *)

\* What is read are the bytes from an address on.
LEMMA BytesRead ==
  ASSUME BackendTypeOK
  PROVE  \A addr, w \in Nat : addr + w <= Bytes =>
           \E p \in [1 .. w -> Nat] :
             /\ p = SubSeq(memory, addr + 1, addr + w)
             /\ Len(p) = w
             /\ \A i \in 1 .. w : p[i] = memory[addr + i]
<1> SUFFICES ASSUME NEW addr \in Nat, NEW w \in Nat, addr + w <= Bytes,
                    NEW p, p = SubSeq(memory, addr + 1, addr + w)
             PROVE  /\ p \in [1 .. w -> Nat]
                    /\ Len(p) = w
                    /\ \A i \in 1 .. w : p[i] = memory[addr + i]
  OBVIOUS
<1>1. Bytes \in Nat /\ Radix \in Nat /\ memory \in [1 .. Bytes -> 0 .. Radix - 1]
  BY BackendAssumption DEF BackendTypeOK
<1>2. memory \in Seq(0 .. Radix - 1) /\ Len(memory) = Bytes
  BY <1>1
<1>3. Len(p) = w /\ \A i \in 1 .. w : p[i] = memory[addr + i]
  BY <1>1, <1>2
<1>4. p = [i \in 1 .. w |-> memory[addr + i]]
  BY <1>1, <1>2
<1>5. \A i \in 1 .. w : memory[addr + i] \in Nat
  BY <1>1
<1> QED  BY <1>3, <1>4, <1>5

\* What there is of a value below the weight of w bytes.
IsLowPart(a, v, w) ==
  a \in Nat /\ a + (v \div Weight[w]) * Weight[w] = v

\* What load_short(), load_long() and load_long_long() make of the bytes that
\* a value was split into is what there is of it below their weight.
LEMMA RoundTrip ==
  ASSUME little \in BOOLEAN, NEW w \in {1, 2, 4, 8}, ~little \/ w <= 2,
         NEW v \in Nat, NEW p \in [1 .. w -> Nat], Len(p) = w,
         \A i \in 1 .. w : p[i] = Split(v, w)[i]
  PROVE  IsLowPart(Load(p), v, w)
<1>0. SUFFICES /\ Load(p) \in Nat
               /\ Load(p) + (v \div Weight[w]) * Weight[w] = v
  BY DEF IsLowPart
<1>1. w \in 1 .. 8 /\ w \in 0 .. 8 /\ 0 \in 0 .. 8
  OBVIOUS
<1>2. \A i \in 1 .. w :
        p[i] = (v \div Weight[IF little THEN i - 1 ELSE w - i]) % Radix
  BY DEF Split
<1>3. v \div Weight[0] = v
  BY WeightSteps, WholeQuotient
<1>4. v = (v \div Weight[1]) * Radix + (v % Radix)
  <2>1. PICK n \in 1 .. 8 : n = 1
    OBVIOUS
  <2> QED  BY <2>1, <1>3, ShiftOut
<1>5. Weight[1] = Radix /\ Weight[2] = Radix * Radix /\ Radix \in Nat
  <2>1. Weight[1] = Weight[0] * Radix /\ Weight[2] = Weight[1] * Radix
    BY WeightSteps
  <2> QED  BY <2>1, WeightSteps, BackendAssumption
<1>6. CASE w = 1
  <2>1. p[1] = v % Radix /\ p[1] \in Nat
    BY <1>2, <1>3, <1>6
  <2>2. Load(p) = p[1]
    BY <1>6 DEF Load
  <2>3. PICK a \in Nat : a = v \div Weight[1]
    BY <1>5, BackendAssumption, Division
  <2> QED  BY <1>4, <1>5, <1>6, <2>1, <2>2, <2>3
<1>7. CASE w = 2 /\ little
  <2>1. p[1] = v % Radix /\ p[2] = (v \div Weight[1]) % Radix
    BY <1>2, <1>3, <1>7
  <2>2. v \div Weight[1]
          = (v \div Weight[2]) * Radix + ((v \div Weight[1]) % Radix)
    <3>1. PICK n \in 1 .. 8 : n = 2
      OBVIOUS
    <3> QED  BY <3>1, ShiftOut
  <2>3. PICK a \in Nat : a = v \div Weight[2]
    <3>1. Weight[2] \in Nat \ {0}
      BY WeightType
    <3> QED  BY <3>1, Division
  <2>4. PICK b \in Nat, c \in Nat : b = p[1] /\ c = p[2]
    <3>1. p[1] \in Nat
      BY <1>7
    <3>2. p[2] \in Nat
      BY <1>7
    <3> QED  BY <3>1, <3>2
  <2>5. v = (a * Radix + c) * Radix + b
    BY <1>4, <2>1, <2>2, <2>3, <2>4
  <2>6. (a * Radix + c) * Radix + b = (c * Radix + b) + a * (Radix * Radix)
    BY <1>5, SMT
  <2>7. c * Radix + b \in Nat
    BY Shifted
  <2>8. Load(p) = c * Radix + b
    BY <1>7, <2>4 DEF Load
  <2> QED  BY <1>5, <1>7, <2>3, <2>5, <2>6, <2>7, <2>8
<1>8. CASE w # 1 /\ ~little
  <2>1. \A i \in 1 .. w : p[i] = (v \div Weight[w - i]) % Radix
    BY <1>2, <1>8
  <2>2. ShiftedIn(p)[w] \in Nat
        /\ ShiftedIn(p)[w] + (v \div Weight[w]) * Weight[w] = v
    BY <1>1, <2>1, BigEndianTrip
  <2>3. Load(p) = ShiftedIn(p)[w]
    BY <1>8 DEF Load
  <2> QED  BY <2>2, <2>3
<1> QED  BY <1>6, <1>7, <1>8

---------------------------------------------------------------------------
(* The theorems.                                                           *)

\* The last write is still there, byte by byte.
BackendInv ==
  /\ BackendTypeOK
  /\ written.width > 0 =>
       /\ written.addr \in Nat
       /\ written.width \in {1, 2, 4, 8}
       /\ written.addr + written.width <= Bytes
       /\ written.value \in 0 .. Weight[written.width] - 1
       /\ \A i \in 1 .. written.width :
            memory[written.addr + i] = Split(written.value, written.width)[i]

LEMMA NextWrite ==
  ASSUME BackendInv, NEW width \in Widths, NEW addr \in 0 .. Bytes - width,
         NEW value \in 0 .. Weight[width] - 1, Write(addr, width, value)
  PROVE  BackendInv'
<1>1. /\ Bytes \in Nat /\ Radix \in Nat \ {0, 1} /\ width \in {1, 2, 4, 8}
      /\ width \in Nat /\ addr \in Nat /\ addr + width <= Bytes
  BY BackendAssumption
<1>2. Weight[width] \in Nat \ {0} /\ value \in Nat
  <2>1. width \in 0 .. 8
    BY <1>1
  <2>2. Weight[width] \in Nat \ {0}
    BY <2>1, WeightType
  <2> QED  BY <2>2
<1>3. PICK s : s = Split(value, width)
  OBVIOUS
<1>4. /\ memory' = [k \in 1 .. Bytes |-> IF k \in addr + 1 .. addr + width
                                       THEN s[k - addr] ELSE memory[k]]
      /\ written' = [addr |-> addr, width |-> width, value |-> value]
      /\ little' = little
  BY <1>3 DEF Write
<1>5. \A i \in 1 .. width : s[i] \in 0 .. Radix - 1
  <2> SUFFICES ASSUME NEW i \in 1 .. width PROVE s[i] \in 0 .. Radix - 1
    OBVIOUS
  <2>1. PICK n \in 0 .. 8 : n = IF little THEN i - 1 ELSE width - i
    BY <1>1
  <2>2. s[i] = (value \div Weight[n]) % Radix
    BY <1>3, <2>1 DEF Split
  <2>3. value \div Weight[n] \in Nat
    BY <1>2, WeightType, Division
  <2> QED  BY <2>2, <2>3, <1>1, Division
<1>6. BackendTypeOK'
  <2>1. memory \in [1 .. Bytes -> 0 .. Radix - 1] /\ little \in BOOLEAN
    BY DEF BackendInv, BackendTypeOK
  <2>2. \A k \in 1 .. Bytes : k \in addr + 1 .. addr + width => k - addr \in 1 .. width
    BY <1>1
  <2>3. memory' \in [1 .. Bytes -> 0 .. Radix - 1]
    BY <1>4, <1>5, <2>1, <2>2
  <2> QED  BY <2>1, <2>3, <1>4 DEF BackendTypeOK
<1>7. /\ written'.addr = addr /\ written'.width = width /\ written'.value = value
  BY <1>4
<1>8. \A i \in 1 .. width : memory'[addr + i] = s[i]
  <2> SUFFICES ASSUME NEW i \in 1 .. width PROVE memory'[addr + i] = s[i]
    OBVIOUS
  <2>1. /\ addr + i \in 1 .. Bytes /\ addr + i \in addr + 1 .. addr + width
        /\ (addr + i) - addr = i
    BY <1>1
  <2> QED  BY <2>1, <1>4
<1>9. Split(value, width)' = Split(value, width)
  BY <1>4 DEF Split
<1>10. Split(written.value, written.width)' = s
  BY <1>3, <1>4, <1>7 DEF Split
<1> QED  BY <1>1, <1>2, <1>6, <1>7, <1>8, <1>10 DEF BackendInv

THEOREM BackendInvariant == BackendSpec => []BackendInv
<1>1. BackendInit => BackendInv
  <2> SUFFICES ASSUME BackendInit PROVE BackendInv
    OBVIOUS
  <2>1. /\ little \in BOOLEAN /\ memory = [k \in 1 .. Bytes |-> 0]
        /\ written = [addr |-> 0, width |-> 0, value |-> 0]
    BY DEF BackendInit, NothingWritten
  <2>2. 0 \in 0 .. Radix - 1
    BY BackendAssumption
  <2>3. written.width = 0
    BY <2>1
  <2> QED  BY <2>1, <2>2, <2>3 DEF BackendInv, BackendTypeOK
<1>2. BackendInv /\ WriteFails => BackendInv'
  <2> SUFFICES ASSUME BackendInv, WriteFails PROVE BackendInv'
    OBVIOUS
  <2>1. little' = little /\ memory' = memory /\ written'.width = 0
    BY DEF WriteFails, NothingWritten
  <2> QED  BY <2>1 DEF BackendInv, BackendTypeOK
<1>3. BackendInv /\ UNCHANGED backendVars => BackendInv'
  <2> SUFFICES ASSUME BackendInv, UNCHANGED backendVars PROVE BackendInv'
    OBVIOUS
  <2>1. little' = little /\ memory' = memory /\ written' = written
    BY DEF backendVars
  <2>2. BackendTypeOK'
    BY <2>1 DEF BackendInv, BackendTypeOK
  <2>3. Split(written.value, written.width)' = Split(written.value, written.width)
    BY <2>1 DEF Split
  <2> QED  BY <2>1, <2>2, <2>3 DEF BackendInv
<1>4. BackendInv /\ [BackendNext]_backendVars => BackendInv'
  BY <1>2, <1>3, NextWrite DEF BackendNext
<1> QED  BY <1>1, <1>4, PTL DEF BackendSpec

\* Memory holds bytes: every byte of a value that is written is masked.
THEOREM BackendTypeCorrect == BackendSpec => []BackendTypeOK
<1>1. BackendInv => BackendTypeOK
  BY DEF BackendInv
<1> QED  BY <1>1, BackendInvariant, PTL

\* For memories of any size and bytes of any radix: a value of one, two, four
\* or eight bytes is read back from a big-endian target, one of up to two bytes
\* from a little-endian one, over whatever was there before.
THEOREM WrittenValuesAreRead == BackendSpec => []WrittenIsRead
<1>1. BackendInv => WrittenIsRead
  <2> SUFFICES ASSUME BackendInv, written.width > 0,
                      ~little \/ written.width <= 2
               PROVE  Reread = written.value
    BY DEF WrittenIsRead
  <2> DEFINE w == written.width
             v == written.value
             addr == written.addr
  <2>1. /\ BackendTypeOK /\ little \in BOOLEAN
        /\ addr \in Nat /\ w \in {1, 2, 4, 8} /\ w \in Nat
        /\ addr + w <= Bytes /\ v \in 0 .. Weight[w] - 1
        /\ \A i \in 1 .. w : memory[addr + i] = Split(v, w)[i]
    BY DEF BackendInv, BackendTypeOK
  <2>2. Reread = Load(SubSeq(memory, addr + 1, addr + w))
    BY DEF Reread, Read
  <2> HIDE DEF w, v, addr
  <2>3. PICK p \in [1 .. w -> Nat] :
          /\ p = SubSeq(memory, addr + 1, addr + w)
          /\ Len(p) = w
          /\ \A i \in 1 .. w : p[i] = memory[addr + i]
    BY <2>1, BytesRead
  <2>5. \A i \in 1 .. w : p[i] = Split(v, w)[i]
    BY <2>1, <2>3
  <2>6. ~little \/ w <= 2
    BY DEF w
  <2>7. v \in Nat /\ v \div Weight[w] = 0 /\ Weight[w] \in Nat
    <3>1. w \in 0 .. 8
      BY <2>1
    <3>2. Weight[w] \in Nat \ {0}
      BY <3>1, WeightType
    <3> QED  BY <2>1, <3>2, SmallQuotient
  <2>8. IsLowPart(Load(p), v, w)
    BY <2>1, <2>3, <2>5, <2>6, <2>7, RoundTrip
  <2> QED  BY <2>2, <2>3, <2>7, <2>8 DEF IsLowPart, v
<1> QED  BY <1>1, BackendInvariant, PTL

\* The bytes of a wide value, on either target, are those of its two halves,
\* which are read as such.
HalvesOf(addr, h, v) ==
  LET high == IF little THEN addr + h ELSE addr
      low == IF little THEN addr ELSE addr + h
  IN  Read(high, h) * Weight[h] + Read(low, h) = v

LEMMA HalvesTrip ==
  ASSUME BackendTypeOK, NEW h \in {1, 2, 4}, ~little \/ h <= 2,
         NEW w \in {1, 2, 4, 8}, w = h + h, NEW v \in 0 .. Weight[w] - 1,
         NEW addr \in Nat, addr + w <= Bytes,
         \A i \in 1 .. w : memory[addr + i] = Split(v, w)[i]
  PROVE  HalvesOf(addr, h, v)
<1> SUFFICES ASSUME NEW high \in Nat, high = (IF little THEN addr + h ELSE addr),
                    NEW low \in Nat, low = (IF little THEN addr ELSE addr + h)
             PROVE  Read(high, h) * Weight[h] + Read(low, h) = v
  BY DEF HalvesOf
<1>1. /\ h \in 0 .. 4 /\ h \in 0 .. 8 /\ w \in 0 .. 8 /\ h \in {1, 2, 4, 8}
      /\ h \in Nat /\ w \in Nat /\ Bytes \in Nat
  BY BackendAssumption
<1>2. PICK x \in Nat \ {0} : x = Weight[h]
  BY <1>1, WeightType
<1>3. Weight[w] = x * x /\ Weight[w] \in Nat \ {0}
  BY <1>1, <1>2, WeightSum, WeightType
<1>4. v \in Nat
  BY <1>3
<1>5. PICK q \in Nat : q = v \div x
  BY <1>2, <1>4, Division
<1>6. q \div x = 0
  <2>1. q \div x = v \div (x * x)
    BY <1>4, <1>5, DivisionTwice
  <2> QED  BY <2>1, <1>3, SmallQuotient
<1>7. \A a \in {high, low} :
        \E p \in [1 .. h -> Nat] :
          /\ p = SubSeq(memory, a + 1, a + h)
          /\ Len(p) = h
          /\ \A i \in 1 .. h : p[i] = memory[a + i]
  <2>1. high + h <= Bytes /\ low + h <= Bytes
    BY <1>1
  <2>2. h \in Nat
    BY <1>1
  <2> QED  BY <2>1, <2>2, BytesRead, Zenon
<1>8. PICK p \in [1 .. h -> Nat] :
        /\ p = SubSeq(memory, high + 1, high + h) /\ Len(p) = h
        /\ \A i \in 1 .. h : p[i] = memory[high + i]
  BY <1>7, Zenon
<1>9. PICK r \in [1 .. h -> Nat] :
        /\ r = SubSeq(memory, low + 1, low + h) /\ Len(r) = h
        /\ \A i \in 1 .. h : r[i] = memory[low + i]
  BY <1>7, Zenon
<1>10. \A i \in 1 .. h : p[i] = Split(q, h)[i]
  <2> SUFFICES ASSUME NEW i \in 1 .. h PROVE p[i] = Split(q, h)[i]
    OBVIOUS
  <2>1. PICK k \in 0 .. 4 : k = IF little THEN i - 1 ELSE h - i
    BY <1>1
  <2>2. PICK j \in 1 .. w : j = IF little THEN h + i ELSE i
    BY <1>1
  <2>3. high + i = addr + j
    BY <1>1, <2>2
  <2>4. (IF little THEN j - 1 ELSE w - j) = h + k
    BY <1>1, <2>1, <2>2
  <2>5. p[i] = Split(v, w)[j]
    <3>1. p[i] = memory[high + i]
      BY <1>8, Zenon
    <3>2. memory[addr + j] = Split(v, w)[j]
      BY Zenon
    <3> QED  BY <2>3, <3>1, <3>2, Zenon
  <2>6. Split(v, w)[j]
          = (v \div Weight[IF little THEN j - 1 ELSE w - j]) % Radix
    BY DEF Split
  <2>7. PICK y \in Nat \ {0} : y = Weight[k]
    <3>1. k \in 0 .. 8
      OBVIOUS
    <3> QED  BY <3>1, WeightType
  <2>8. Weight[h + k] = x * y
    BY <1>1, <1>2, <2>7, WeightSum
  <2>9. v \div (x * y) = (v \div x) \div y
    BY <1>4, DivisionTwice
  <2>10. Split(q, h)[i] = (q \div Weight[k]) % Radix
    BY <2>1 DEF Split
  <2> QED  BY <1>5, <2>4, <2>5, <2>6, <2>7, <2>8, <2>9, <2>10
<1>11. \A i \in 1 .. h : r[i] = Split(v, h)[i]
  <2> SUFFICES ASSUME NEW i \in 1 .. h PROVE r[i] = Split(v, h)[i]
    OBVIOUS
  <2>1. PICK k \in 0 .. 4 : k = IF little THEN i - 1 ELSE h - i
    BY <1>1
  <2>2. PICK j \in 1 .. w : j = IF little THEN i ELSE h + i
    BY <1>1
  <2>3. low + i = addr + j
    BY <1>1, <2>2
  <2>4. (IF little THEN j - 1 ELSE w - j) = k
    BY <1>1, <2>1, <2>2
  <2>5. r[i] = Split(v, w)[j]
    <3>1. r[i] = memory[low + i]
      BY <1>9, Zenon
    <3>2. memory[addr + j] = Split(v, w)[j]
      BY Zenon
    <3> QED  BY <2>3, <3>1, <3>2, Zenon
  <2>6. Split(v, w)[j]
          = (v \div Weight[IF little THEN j - 1 ELSE w - j]) % Radix
    BY DEF Split
  <2>7. Split(v, h)[i] = (v \div Weight[k]) % Radix
    BY <2>1 DEF Split
  <2> QED  BY <2>4, <2>5, <2>6, <2>7
<1>12. little \in BOOLEAN
  BY DEF BackendTypeOK
<1>13. IsLowPart(Load(p), q, h)
  BY <1>1, <1>8, <1>10, <1>12, RoundTrip
<1>14. IsLowPart(Load(r), v, h)
  BY <1>1, <1>4, <1>9, <1>11, <1>12, RoundTrip
<1>15. Load(p) = q
  BY <1>2, <1>6, <1>13 DEF IsLowPart
<1>16. q * x + Load(r) = v
  BY <1>2, <1>5, <1>14 DEF IsLowPart
<1> QED  BY <1>2, <1>8, <1>9, <1>15, <1>16 DEF Read

\* What a wide write leaves is found by reads of its two halves, in the order
\* in which the target keeps them, for any memory and any bytes.
THEOREM HalvesAlwaysAgree == BackendSpec => []HalvesAgree
<1>1. BackendInv => HalvesAgree
  <2> SUFFICES ASSUME BackendInv, written.width > 1,
                      ~little \/ written.width \div 2 <= 2
               PROVE  LET half == written.width \div 2
                          high == IF little THEN written.addr + half
                                  ELSE written.addr
                          low == IF little THEN written.addr
                                 ELSE written.addr + half
                      IN  Read(high, half) * Weight[half] + Read(low, half)
                            = written.value
    BY DEF HalvesAgree
  <2>0. BackendTypeOK
    BY DEF BackendInv
  <2>1. written.width > 0
    <3>1. written.width \in {0} \cup Widths
      BY <2>0 DEF BackendTypeOK
    <3>2. written.width \in {0, 1, 2, 4, 8}
      BY <3>1, BackendAssumption
    <3> QED  BY <3>2
  <2>2. PICK w \in {1, 2, 4, 8}, addr \in Nat, v \in Int :
          /\ w = written.width /\ addr = written.addr /\ v = written.value
          /\ v \in 0 .. Weight[w] - 1
          /\ addr + w <= Bytes
          /\ \A i \in 1 .. w : memory[addr + i] = Split(v, w)[i]
    BY <2>1 DEF BackendInv
  <2>3. PICK h \in {1, 2, 4} : h = w \div 2 /\ w = h + h
    BY <2>2
  <2>4. ~little \/ h <= 2
    BY <2>2, <2>3
  <2>5. HalvesOf(addr, h, v)
    <3>1. w = h + h
      BY <2>3
    <3>2. v \in 0 .. Weight[w] - 1 /\ addr + w <= Bytes
      BY <2>2
    <3>3. \A i \in 1 .. w : memory[addr + i] = Split(v, w)[i]
      BY <2>2
    <3>4. \A u \in 0 .. Weight[w] - 1 :
            \A a \in Nat :
              a + w <= Bytes /\ (\A i \in 1 .. w : memory[a + i] = Split(u, w)[i])
                => HalvesOf(a, h, u)
      BY ONLY <2>0, <2>4, <3>1, w \in {1, 2, 4, 8}, h \in {1, 2, 4}, HalvesTrip
    <3> QED  BY ONLY <3>2, <3>3, <3>4, addr \in Nat, Zenon
  <2> QED  BY <2>2, <2>3, <2>5 DEF HalvesOf
<1> QED  BY <1>1, BackendInvariant, PTL
=============================================================================
