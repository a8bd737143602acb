----------------------------- MODULE AlgorithmProofs -----------------------------
(***************************************************************************)
(* Proofs about the functions of Algorithms: what TimeOps::after says of a *)
(* clock that wraps, and which damage the checksums of CrcOps find.        *)
(***************************************************************************)
EXTENDS Algorithms, SequenceTheorems, WellFoundedInduction, NaturalsInduction, TLAPS

-----------------------------------------------------------------------------
(* Time: has an interval passed? *)

\* What wraps is less than one turn of the clock away.
LEMMA WrapLemma ==
  ASSUME NEW turn \in Nat, turn > 0, NEW time \in Int
  PROVE  /\ 0 <= time /\ time < turn => time % turn = time
         /\ turn <= time /\ time < 2 * turn => time % turn = time - turn
         /\ -turn <= time /\ time < 0 => time % turn = time + turn
<1>1. PICK wrapped \in 0 .. turn - 1 : wrapped = time % turn
  OBVIOUS
<1>2. PICK turns \in Int : turns = time \div turn
  OBVIOUS
<1>3. time = turns * turn + wrapped
  BY <1>1, <1>2
<1>4. ASSUME 0 <= time, time < turn PROVE wrapped = time
  <2>1. turns * turn < turn /\ turns * turn > -turn
    BY <1>3, <1>4
  <2>2. turns < 1 /\ turns > -1
    BY <2>1
  <2> QED BY <1>3, <2>2
<1>5. ASSUME turn <= time, time < 2 * turn PROVE wrapped = time - turn
  <2>1. turns * turn < 2 * turn /\ turns * turn > 0
    BY <1>3, <1>5
  <2>2. turns < 2 /\ turns > 0
    BY <2>1
  <2> QED BY <1>3, <2>2
<1>6. ASSUME -turn <= time, time < 0 PROVE wrapped = time + turn
  <2>1. turns * turn < 0 /\ turns * turn > -2 * turn
    BY <1>3, <1>6
  <2>2. turns < 0 /\ turns > -2
    BY <2>1
  <2> QED BY <1>3, <2>2
<1> QED BY <1>1, <1>4, <1>5, <1>6

LEMMA AfterLemma ==
  ASSUME NEW begin \in Time, NEW clock \in Time, NEW interval \in Time
  PROVE  /\ After(begin, clock, interval) \in BOOLEAN
         /\ After(begin, clock, interval) <=>
              /\ (clock - begin) % TimeRange >= interval
              /\ interval = 0 => clock >= begin
<1>1. PICK turn \in Nat : turn = TimeRange /\ turn > 0
  BY AlgorithmsAssumption
<1>2. /\ begin \in 0 .. turn - 1 /\ clock \in 0 .. turn - 1 /\ interval \in 0 .. turn - 1
  BY <1>1 DEF Time
<1>3. PICK dest \in Int : dest = (begin + interval) % turn
  BY <1>1, <1>2
<1>4. PICK passed \in Int : passed = (clock - begin) % turn
  BY <1>1, <1>2
<1>5. /\ begin + interval < turn => dest = begin + interval
      /\ begin + interval >= turn => dest = begin + interval - turn
  BY <1>1, <1>2, <1>3, WrapLemma
<1>6. /\ clock >= begin => passed = clock - begin
      /\ clock < begin => passed = clock - begin + turn
  BY <1>1, <1>2, <1>4, WrapLemma
<1>7. After(begin, clock, interval) <=>
        IF clock < begin THEN dest > begin \/ dest <= clock ELSE dest <= clock /\ dest >= begin
  BY <1>1, <1>3 DEF After
<1>8. After(begin, clock, interval) \in BOOLEAN
  BY <1>1, <1>3 DEF After
<1>9. (passed >= interval /\ (interval = 0 => clock >= begin)) <=>
        IF clock < begin THEN dest > begin \/ dest <= clock ELSE dest <= clock /\ dest >= begin
  BY <1>2, <1>5, <1>6
<1> QED BY <1>1, <1>4, <1>7, <1>8, <1>9

\* The part of MatchesReference about the time.
AfterMatches == answer # <<>> /\ sample.kind = "after" => answer = <<Expected(sample)>>

AlgIInv == sample \in Samples /\ (answer = <<>> \/ answer = <<Evaluated(sample)>>)

LEMMA AfterSample ==
  ASSUME sample \in Samples, sample.kind = "after"
  PROVE  sample.start \in Time /\ sample.now \in Time /\ sample.interval \in Time
<1>1. sample \notin [kind : {"temperature"}, raw : RawTemperature, bits : 9 .. 12]
  OBVIOUS
<1>2. sample \notin [kind : {"query"}, params : Params]
  OBVIOUS
<1>3. sample \notin [kind : {"serial"}, number : [1 .. SerialSize -> SerialByte],
                     rest : {<<>>, <<17>>}]
  OBVIOUS
<1>4. ASSUME NEW bytes \in Message
      PROVE  sample \notin [kind : {"crc"}, order : {"LSB", "MSB"}, bytes : {bytes},
                            flips : Bursts(8 * Len(bytes) + 8)]
  OBVIOUS
<1>5. sample \in [kind : {"after"}, start : Time, now : Time, interval : Time]
  BY <1>1, <1>2, <1>3, <1>4, Zenon DEF Samples
<1> QED BY <1>5

LEMMA EvaluatedAfter ==
  ASSUME AlgIInv, answer # <<>>, sample.kind = "after"
  PROVE  answer = <<Expected(sample)>>
<1>1. sample.start \in Time /\ sample.now \in Time /\ sample.interval \in Time
  BY AfterSample DEF AlgIInv
<1>2. Evaluated(sample) = After(sample.start, sample.now, sample.interval)
  BY DEF Evaluated
<1>3. Expected(sample) =
        (/\ (sample.now - sample.start) % TimeRange >= sample.interval
         /\ sample.interval = 0 => sample.now >= sample.start)
  BY DEF Expected
<1>4. Evaluated(sample) = Expected(sample)
  BY <1>1, <1>2, <1>3, AfterLemma
<1> QED BY <1>4 DEF AlgIInv

\* For an integer type of any width, TimeOps::after tells that the interval has passed
\* exactly when the clock, wrapping, has advanced by that much since the start; an
\* interval of zero counts as passed only while the clock has not wrapped.
THEOREM WrappingClockIsUnderstood == AlgSpec => []AfterMatches
<1>1. AlgInit => AlgIInv
  BY DEF AlgInit, AlgIInv
<1>2. AlgIInv /\ [AlgNext]_algVars => AlgIInv'
  BY DEF AlgIInv, AlgNext, algVars, Evaluate
<1>3. AlgIInv => AfterMatches
  BY EvaluatedAfter DEF AfterMatches
<1> QED BY <1>1, <1>2, <1>3, PTL DEF AlgSpec

-----------------------------------------------------------------------------
(* Checksums, of messages of any length.  A turn of crc8's loop is linear and loses      *)
(* nothing, so two transfers differ in the register from the first damaged byte on, and  *)
(* as long as they differ only there, to the end.  A burst reaches into a second byte at *)
(* most, and what its part in the first byte has made of the register is never the part  *)
(* in the second: run backwards, that part would have to come from behind its own place. *)

Order == {"LSB", "MSB"}

LEMMA CrcLemma ==
  ASSUME NEW order \in Order
  PROVE  /\ Crc[order].polynomial \in Byte /\ Crc[order].initial \in Byte
         /\ Wire(order, 7) \in Crc[order].polynomial
  BY DEF Order, Crc, Byte, Wire

LEMMA WireLemma ==
  ASSUME NEW order \in Order
  PROVE  /\ \A i \in 0 .. 7 : Wire(order, i) \in 0 .. 7 /\ Wire(order, Wire(order, i)) = i
         /\ \A i, j \in 0 .. 7 : Wire(order, i) = Wire(order, j) => i = j
  BY DEF Order, Wire

LEMMA XorLemma ==
  ASSUME NEW a \in Byte, NEW b \in Byte
  PROVE  /\ Xor(a, b) \in Byte /\ Xor(a, b) = Xor(b, a) /\ Xor(a, {}) = a /\ Xor({}, a) = a
         /\ Xor(a, b) = {} <=> a = b
         /\ \A i : i \in Xor(a, b) <=> ~(i \in a <=> i \in b)
  BY DEF Byte, Xor

\* One turn, place by place: the bits move by one towards the end of the wire.
LEMMA ShiftMember ==
  ASSUME NEW order \in Order, NEW x \in Byte
  PROVE  /\ ShiftOut(order, x) \in Byte
         /\ \A p \in 0 .. 7 :
              Wire(order, p) \in ShiftOut(order, x) <=>
                ~((p < 7 /\ Wire(order, p + 1) \in x) <=>
                  (Wire(order, 0) \in x /\ Wire(order, p) \in Crc[order].polynomial))
<1> DEFINE moved == {i \in 0 .. 7 : (IF order = "LSB" THEN i + 1 ELSE i - 1) \in x}
<1>1. moved \in Byte
  BY DEF Byte
<1>2. ASSUME NEW p \in 0 .. 7
      PROVE  Wire(order, p) \in moved <=> p < 7 /\ Wire(order, p + 1) \in x
  BY <1>2 DEF Order, Wire, Byte
<1> HIDE DEF moved
<1>3. ShiftOut(order, x) =
        IF Wire(order, 0) \in x THEN Xor(moved, Crc[order].polynomial) ELSE moved
  BY DEF ShiftOut, moved
<1> QED BY <1>1, <1>2, <1>3, CrcLemma, XorLemma

LEMMA ShiftLinear ==
  ASSUME NEW order \in Order, NEW x \in Byte, NEW y \in Byte
  PROVE  ShiftOut(order, Xor(x, y)) = Xor(ShiftOut(order, x), ShiftOut(order, y))
<1>1. Xor(x, y) \in Byte /\ ShiftOut(order, x) \in Byte /\ ShiftOut(order, y) \in Byte
      /\ ShiftOut(order, Xor(x, y)) \in Byte
      /\ Xor(ShiftOut(order, x), ShiftOut(order, y)) \in Byte
  BY XorLemma, ShiftMember
<1>2. ASSUME NEW p \in 0 .. 7
      PROVE  Wire(order, p) \in ShiftOut(order, Xor(x, y)) <=>
               Wire(order, p) \in Xor(ShiftOut(order, x), ShiftOut(order, y))
  <2>1. \A i : i \in Xor(x, y) <=> ~(i \in x <=> i \in y)
    BY XorLemma
  <2>2. \A i : i \in Xor(ShiftOut(order, x), ShiftOut(order, y)) <=>
                 ~(i \in ShiftOut(order, x) <=> i \in ShiftOut(order, y))
    BY <1>1, XorLemma
  <2> QED BY <1>1, <2>1, <2>2, ShiftMember
<1>3. ASSUME NEW i \in 0 .. 7
      PROVE  i \in ShiftOut(order, Xor(x, y)) <=> i \in Xor(ShiftOut(order, x), ShiftOut(order, y))
  <2>1. PICK p \in 0 .. 7 : Wire(order, p) = i
    BY WireLemma
  <2> QED BY <1>2, <2>1
<1> QED BY <1>1, <1>3 DEF Byte

\* No bit of x before, and none behind, a place on the wire.
From(order, x, p) == \A i \in x : Wire(order, i) >= p
Until(order, x, p) == \A i \in x : Wire(order, i) <= p

\* Bits that have not reached the end of the register only move.
LEMMA ShiftFrom ==
  ASSUME NEW order \in Order, NEW x \in Byte, NEW p \in 1 .. 7, From(order, x, p)
  PROVE  /\ From(order, ShiftOut(order, x), p - 1)
         /\ Wire(order, p) \in x => Wire(order, p - 1) \in ShiftOut(order, x)
<1>1. Wire(order, 0) \notin x
  BY WireLemma DEF From
<1>2. \A k \in 0 .. 7 :
        Wire(order, k) \in ShiftOut(order, x) <=> k < 7 /\ Wire(order, k + 1) \in x
  BY <1>1, ShiftMember
<1>3. Wire(order, p) \in x => Wire(order, p - 1) \in ShiftOut(order, x)
  <2>1. p - 1 \in 0 .. 7 /\ p - 1 < 7 /\ (p - 1) + 1 = p
    OBVIOUS
  <2> QED BY <1>2, <2>1
<1>4. ASSUME NEW i \in ShiftOut(order, x) PROVE Wire(order, i) >= p - 1
  <2>1. i \in 0 .. 7
    BY ShiftMember DEF Byte
  <2>2. PICK k \in 0 .. 7 : k = Wire(order, i) /\ Wire(order, k) = i
    BY <2>1, WireLemma
  <2>3. k < 7 /\ Wire(order, k + 1) \in x
    BY <1>2, <2>2
  <2>4. Wire(order, Wire(order, k + 1)) = k + 1
    BY <2>3, WireLemma
  <2>5. k + 1 >= p
    BY <2>3, <2>4 DEF From
  <2> QED BY <2>2, <2>5
<1> QED BY <1>3, <1>4 DEF From

\* A bit that leaves the register sets the other end: where that is not set, nothing left.
LEMMA ShiftUntil ==
  ASSUME NEW order \in Order, NEW x \in Byte, NEW p \in -1 .. 6,
         Until(order, ShiftOut(order, x), p)
  PROVE  Until(order, x, p + 1) /\ Wire(order, 0) \notin x
<1>1. Wire(order, 0) \notin x
  <2> SUFFICES ASSUME Wire(order, 0) \in x PROVE FALSE
    OBVIOUS
  <2>1. Wire(order, 7) \in ShiftOut(order, x)
    BY ShiftMember, CrcLemma
  <2>2. Wire(order, Wire(order, 7)) = 7
    BY WireLemma
  <2> QED BY <2>1, <2>2 DEF Until
<1>2. ASSUME NEW i \in x PROVE Wire(order, i) <= p + 1
  <2>1. i \in 0 .. 7
    BY DEF Byte
  <2>2. PICK k \in 0 .. 7 : k = Wire(order, i) /\ Wire(order, k) = i
    BY <2>1, WireLemma
  <2>3. k # 0
    BY <1>1, <2>2
  <2>4. PICK l \in 0 .. 6 : l + 1 = k
    BY <2>3
  <2>5. Wire(order, l) \in ShiftOut(order, x)
    BY <1>1, <2>2, <2>4, ShiftMember
  <2>6. Wire(order, Wire(order, l)) = l
    BY WireLemma
  <2>7. l <= p
    BY <2>5, <2>6 DEF Until
  <2> QED BY <2>2, <2>4, <2>7
<1> QED BY <1>1, <1>2 DEF Until

LEMMA ShiftNothing ==
  ASSUME NEW order \in Order, NEW x \in Byte
  PROVE  ShiftOut(order, x) = {} <=> x = {}
<1>1. ASSUME ShiftOut(order, x) = {} PROVE x = {}
  <2>1. Until(order, ShiftOut(order, x), -1)
    BY <1>1 DEF Until
  <2>2. Until(order, x, 0) /\ Wire(order, 0) \notin x
    BY <2>1, ShiftUntil
  <2>3. ASSUME NEW i \in x PROVE FALSE
    <3>1. i \in 0 .. 7 /\ Wire(order, i) \in 0 .. 7 /\ Wire(order, i) <= 0
      BY <2>2, WireLemma DEF Until, Byte
    <3>2. Wire(order, Wire(order, i)) = i
      BY <3>1, WireLemma
    <3> QED BY <2>2, <3>1, <3>2
  <2> QED BY <2>3
<1>2. ASSUME x = {} PROVE ShiftOut(order, x) = {}
  BY <1>2 DEF ShiftOut
<1> QED BY <1>1, <1>2

LEMMA EightLemma ==
  ASSUME NEW order \in Order, NEW x \in Byte, NEW y \in Byte
  PROVE  /\ ShiftEight(order, x) \in Byte
         /\ ShiftEight(order, Xor(x, y)) = Xor(ShiftEight(order, x), ShiftEight(order, y))
         /\ ShiftEight(order, x) = {} <=> x = {}
<1>1. ASSUME NEW a \in Byte, NEW b \in Byte
      PROVE  /\ ShiftTwo(order, a) \in Byte
             /\ ShiftTwo(order, Xor(a, b)) = Xor(ShiftTwo(order, a), ShiftTwo(order, b))
             /\ ShiftTwo(order, a) = {} <=> a = {}
  BY ShiftMember, ShiftLinear, ShiftNothing DEF ShiftTwo
<1>2. ASSUME NEW a \in Byte, NEW b \in Byte
      PROVE  /\ ShiftFour(order, a) \in Byte
             /\ ShiftFour(order, Xor(a, b)) = Xor(ShiftFour(order, a), ShiftFour(order, b))
             /\ ShiftFour(order, a) = {} <=> a = {}
  BY <1>1 DEF ShiftFour
<1> QED BY <1>2 DEF ShiftEight

\* A burst of at most eight bits that lies in two bytes: what the bits in the first make of
\* the checksum is not made up for by those in the second.
LEMMA BurstLemma ==
  ASSUME NEW order \in Order, NEW a \in Byte, NEW b \in Byte, NEW q \in 0 .. 7,
         From(order, a, q), Wire(order, q) \in a, Until(order, b, q - 1)
  PROVE  ShiftEight(order, a) # b
<1> SUFFICES ASSUME ShiftEight(order, a) = b PROVE FALSE
  OBVIOUS
<1> DEFINE S(x) == ShiftOut(order, x)
<1>1. PICK x \in [0 .. 8 -> Byte] :
        /\ x[0] = a /\ x[8] = b
        /\ \A i \in 0 .. 7 : x[i + 1] = S(x[i])
  <2> DEFINE x == [i \in 0 .. 8 |->
         IF i = 0 THEN a ELSE IF i = 1 THEN S(a) ELSE IF i = 2 THEN S(S(a))
         ELSE IF i = 3 THEN S(S(S(a))) ELSE IF i = 4 THEN S(S(S(S(a))))
         ELSE IF i = 5 THEN S(S(S(S(S(a))))) ELSE IF i = 6 THEN S(S(S(S(S(S(a))))))
         ELSE IF i = 7 THEN S(S(S(S(S(S(S(a))))))) ELSE S(S(S(S(S(S(S(S(a))))))))]
  <2>1. \A y \in Byte : S(y) \in Byte
    BY ShiftMember
  <2>2. x \in [0 .. 8 -> Byte]
    <3> HIDE DEF S
    <3> QED BY <2>1
  <2>3. x[0] = a /\ x[8] = b
    BY DEF ShiftEight, ShiftFour, ShiftTwo
  <2>4. ASSUME NEW i \in 0 .. 7 PROVE x[i + 1] = S(x[i])
    <3> HIDE DEF S
    <3> QED OBVIOUS
  <2> QED BY <2>2, <2>3, <2>4
<1> HIDE DEF S
<1>2. ASSUME NEW i \in 0 .. 7, i < q, From(order, x[i], q - i), Wire(order, q - i) \in x[i]
      PROVE  From(order, x[i + 1], q - (i + 1)) /\ Wire(order, q - (i + 1)) \in x[i + 1]
  <2>1. q - i \in 1 .. 7 /\ (q - i) - 1 = q - (i + 1) /\ x[i] \in Byte
    BY <1>2
  <2>2. From(order, S(x[i]), q - (i + 1)) /\ Wire(order, q - (i + 1)) \in S(x[i])
    BY <1>2, <2>1, ShiftFrom DEF S
  <2> QED BY <1>1, <2>2
<1>3. ASSUME NEW i \in 0 .. 7, i >= q, Until(order, x[i + 1], (q + 7) - (i + 1))
      PROVE  Until(order, x[i], (q + 7) - i) /\ Wire(order, 0) \notin x[i]
  <2>1. (q + 7) - (i + 1) \in -1 .. 6 /\ ((q + 7) - (i + 1)) + 1 = (q + 7) - i /\ x[i] \in Byte
    BY <1>3
  <2> QED BY <1>1, <1>3, <2>1, ShiftUntil DEF S
<1> DEFINE Early(i) == From(order, x[i], q - i) /\ Wire(order, q - i) \in x[i]
           Late(i) == Until(order, x[i], (q + 7) - i)
<1>4. Early(0) /\ Late(8)
  <2>1. q - 0 = q /\ (q + 7) - 8 = q - 1
    OBVIOUS
  <2> QED BY <1>1, <2>1
<1>5. \A i \in 0 .. 7 : i < q /\ Early(i) => Early(i + 1)
  BY <1>2
<1>6. \A i \in 0 .. 7 : i >= q /\ Late(i + 1) => Late(i) /\ Wire(order, 0) \notin x[i]
  BY <1>3
<1>7. Early(q) => Wire(order, 0) \in x[q]
  OBVIOUS
<1> HIDE DEF Early, Late
<1>8. Early(q)
  BY <1>4, <1>5
<1>9. Late(q + 1)
  BY <1>4, <1>6
<1> QED BY <1>6, <1>7, <1>8, <1>9

-----------------------------------------------------------------------------
(* The registers of crc8, byte by byte *)

\* What holds at the beginning, and from each step to the next, holds up to the end.
LEMMA UpTo ==
  ASSUME NEW n \in Nat, NEW T, 0 \in T, \A k \in 0 .. n - 1 : k \in T => k + 1 \in T
  PROVE  0 .. n \subseteq T
<1> DEFINE U == {k \in 0 .. n : k \notin T}
           R == OpToRel(<, Nat)
<1> SUFFICES ASSUME U # {} PROVE FALSE
  OBVIOUS
<1>1. IsWellFoundedOn(R, Nat)
  BY NatLessThanWellFounded
<1>2. \A i, j \in Nat : i < j => <<i, j>> \in R
  BY DEF OpToRel
<1>3. U \subseteq Nat
  OBVIOUS
<1> HIDE DEF R
<1>4. PICK k \in U : \A j \in U : ~(<<j, k>> \in R)
  BY <1>1, <1>3, WFMin
<1>5. k # 0 /\ k - 1 \in 0 .. n - 1 /\ (k - 1) + 1 = k
  OBVIOUS
<1>6. k - 1 \in U
  BY <1>5
<1>7. <<k - 1, k>> \in R
  BY <1>2, <1>5
<1> QED BY <1>4, <1>6, <1>7

\* The recursion is well-defined.
IsRegisters(order, bytes, n, f) ==
  /\ f \in [0 .. n -> Byte] /\ f[0] = Crc[order].initial
  /\ \A k \in 1 .. n : f[k] = ShiftEight(order, Xor(f[k - 1], bytes[k]))

LEMMA RegistersExist ==
  ASSUME NEW order \in Order, NEW bytes \in Seq(Byte)
  PROVE  \E f : IsRegisters(order, bytes, Len(bytes), f)
<1> DEFINE T == {n \in 0 .. Len(bytes) : \E f : IsRegisters(order, bytes, n, f)}
<1>1. Len(bytes) \in Nat /\ \A n \in 1 .. Len(bytes) : bytes[n] \in Byte
  BY ElementOfSeq
<1>2. 0 \in T
  <2>1. IsRegisters(order, bytes, 0, [k \in 0 .. 0 |-> Crc[order].initial])
    BY CrcLemma DEF IsRegisters
  <2> QED BY <1>1, <2>1
<1>3. ASSUME NEW n \in 0 .. Len(bytes) - 1, n \in T PROVE n + 1 \in T
  <2>1. PICK f : IsRegisters(order, bytes, n, f)
    BY <1>3
  <2>2. f \in [0 .. n -> Byte] /\ f[n] \in Byte /\ n \in Nat /\ bytes[n + 1] \in Byte
    BY <1>1, <2>1 DEF IsRegisters
  <2>3. PICK next \in Byte : next = ShiftEight(order, Xor(f[n], bytes[n + 1]))
    BY <2>2, XorLemma, EightLemma
  <2> DEFINE g == [k \in 0 .. n + 1 |-> IF k = n + 1 THEN next ELSE f[k]]
  <2>4. /\ g \in [0 .. n + 1 -> Byte] /\ g[n + 1] = next
        /\ \A k \in 0 .. n : g[k] = f[k]
    BY <2>2
  <2>5. g[0] = Crc[order].initial
    BY <2>1, <2>2, <2>4 DEF IsRegisters
  <2> HIDE DEF g
  <2>6. ASSUME NEW k \in 1 .. n + 1 PROVE g[k] = ShiftEight(order, Xor(g[k - 1], bytes[k]))
    <3>1. CASE k = n + 1
      <4>1. g[k] = next /\ g[k - 1] = f[n]
        BY <2>2, <2>4, <3>1
      <4> QED BY <2>3, <3>1, <4>1
    <3>2. CASE k \in 1 .. n
      <4>1. g[k] = f[k] /\ g[k - 1] = f[k - 1]
        BY <2>2, <2>4, <3>2
      <4> QED BY <2>1, <3>2, <4>1 DEF IsRegisters
    <3> QED BY <2>2, <3>1, <3>2
  <2>7. IsRegisters(order, bytes, n + 1, g)
    BY <2>4, <2>5, <2>6 DEF IsRegisters
  <2> QED BY <1>1, <2>2, <2>7
<1> HIDE DEF T
<1>4. 0 .. Len(bytes) \subseteq T
  BY <1>1, <1>2, <1>3, UpTo
<1> QED BY <1>1, <1>4 DEF T

LEMMA RegistersLemma ==
  ASSUME NEW order \in Order, NEW bytes \in Seq(Byte)
  PROVE  IsRegisters(order, bytes, Len(bytes), Registers(order, bytes))
<1> DEFINE Body(f) ==
      [n \in 0 .. Len(bytes) |->
         IF n = 0 THEN Crc[order].initial ELSE ShiftEight(order, Xor(f[n - 1], bytes[n]))]
<1>1. Len(bytes) \in Nat
  OBVIOUS
<1>2. PICK f : IsRegisters(order, bytes, Len(bytes), f)
  BY RegistersExist
<1>3. f = Body(f)
  BY <1>1, <1>2 DEF IsRegisters
<1>4. Registers(order, bytes) = CHOOSE r : r = Body(r)
  BY DEF Registers
<1> HIDE DEF Body
<1>5. Registers(order, bytes) = Body(Registers(order, bytes))
  BY <1>3, <1>4
<1> DEFINE r == Registers(order, bytes)
<1> HIDE DEF r
<1> USE DEF Body
<1>6. /\ r = [n \in 0 .. Len(bytes) |->
               IF n = 0 THEN Crc[order].initial ELSE ShiftEight(order, Xor(r[n - 1], bytes[n]))]
  BY <1>5 DEF r
<1>7. \A k \in 1 .. Len(bytes) : r[k] = ShiftEight(order, Xor(r[k - 1], bytes[k]))
  BY <1>1, <1>6
<1>8. r[0] = Crc[order].initial
  BY <1>1, <1>6
<1> DEFINE T == {n \in 0 .. Len(bytes) : r[n] \in Byte}
<1>9. 0 \in T
  BY <1>1, <1>8, CrcLemma
<1>10. ASSUME NEW n \in 0 .. Len(bytes) - 1, n \in T PROVE n + 1 \in T
  <2>1. n + 1 \in 1 .. Len(bytes) /\ (n + 1) - 1 = n
    BY <1>1
  <2>2. bytes[n + 1] \in Byte /\ r[n] \in Byte
    BY <1>10, <2>1, ElementOfSeq
  <2>3. r[n + 1] = ShiftEight(order, Xor(r[n], bytes[n + 1]))
    BY <1>7, <2>1
  <2>4. r[n + 1] \in Byte
    BY <2>2, <2>3, XorLemma, EightLemma
  <2> QED BY <1>1, <2>1, <2>4
<1> HIDE DEF T
<1>11. 0 .. Len(bytes) \subseteq T
  BY <1>1, <1>9, <1>10, UpTo
<1>12. \A n \in 0 .. Len(bytes) : r[n] \in Byte
  BY <1>11 DEF T
<1>13. r \in [0 .. Len(bytes) -> Byte]
  BY <1>6, <1>12
<1> QED BY <1>7, <1>8, <1>13 DEF IsRegisters, r

\* How the registers of two transfers differ depends only on where these differ.
Differ(order, n, damage, d) ==
  /\ damage \in [1 .. n + 1 -> Byte] /\ d \in [0 .. n -> Byte] /\ d[0] = {}
  /\ \A k \in 1 .. n : d[k] = ShiftEight(order, Xor(d[k - 1], damage[k]))

\* No damage from one byte to another.
Quiet(damage, from, to) == \A k \in from .. to : damage[k] = {}

LEMMA DifferLemma ==
  ASSUME NEW order \in Order, NEW n \in Nat, NEW sent \in Seq(Byte), Len(sent) = n,
         NEW got \in Seq(Byte), Len(got) = n, NEW damage \in [1 .. n + 1 -> Byte],
         \A k \in 1 .. n : got[k] = Xor(sent[k], damage[k])
  PROVE  \E d : /\ Differ(order, n, damage, d)
                /\ d[n] = Xor(Crc8(order, got), Crc8(order, sent))
<1> DEFINE s == Registers(order, sent)  g == Registers(order, got)
<1>1. IsRegisters(order, sent, n, s) /\ IsRegisters(order, got, n, g)
  BY RegistersLemma
<1>2. Crc8(order, got) = g[n] /\ Crc8(order, sent) = s[n]
  BY DEF Crc8
<1> HIDE DEF s, g
<1> DEFINE d == [k \in 0 .. n |-> Xor(g[k], s[k])]
<1>3. \A k \in 0 .. n : g[k] \in Byte /\ s[k] \in Byte /\ Xor(g[k], s[k]) \in Byte
  <2>1. g \in [0 .. n -> Byte] /\ s \in [0 .. n -> Byte]
    BY <1>1 DEF IsRegisters
  <2>2. \A k \in 0 .. n : g[k] \in Byte /\ s[k] \in Byte
    BY <2>1
  <2> QED BY <2>2, XorLemma
<1>4. d \in [0 .. n -> Byte] /\ d[n] = Xor(g[n], s[n]) /\ d[0] = Xor(g[0], s[0])
  BY <1>3
<1>5. d[0] = {}
  BY <1>1, <1>4, CrcLemma, XorLemma DEF IsRegisters
<1>6. ASSUME NEW k \in 1 .. n PROVE d[k] = ShiftEight(order, Xor(d[k - 1], damage[k]))
  <2>1. k - 1 \in 0 .. n /\ k \in 0 .. n /\ k \in 1 .. n + 1
    OBVIOUS
  <2>2. d[k] = Xor(g[k], s[k]) /\ d[k - 1] = Xor(g[k - 1], s[k - 1])
    BY <2>1
  <2>3. PICK x \in Byte, y \in Byte, b \in Byte, e \in Byte :
          x = g[k - 1] /\ y = s[k - 1] /\ b = sent[k] /\ e = damage[k]
    BY <1>3, <2>1, ElementOfSeq
  <2>4. /\ g[k] = ShiftEight(order, Xor(x, Xor(b, e)))
        /\ s[k] = ShiftEight(order, Xor(y, b))
    BY <1>1, <2>3 DEF IsRegisters
  <2>5. Xor(x, Xor(b, e)) \in Byte /\ Xor(y, b) \in Byte
    BY XorLemma
  <2>6. Xor(g[k], s[k]) = ShiftEight(order, Xor(Xor(x, Xor(b, e)), Xor(y, b)))
    BY <2>4, <2>5, EightLemma
  <2>7. Xor(Xor(x, Xor(b, e)), Xor(y, b)) = Xor(Xor(x, y), e)
    BY DEF Xor, Byte
  <2> QED BY <2>2, <2>3, <2>6, <2>7
<1> HIDE DEF d
<1>7. Differ(order, n, damage, d)
  BY <1>4, <1>5, <1>6 DEF Differ
<1> QED BY <1>2, <1>4, <1>7

\* No difference before the damage, and a difference is not lost behind it.
LEMMA DifferBefore ==
  ASSUME NEW order \in Order, NEW n \in Nat, NEW damage, NEW d,
         Differ(order, n, damage, d), NEW m \in 0 .. n, Quiet(damage, 1, m)
  PROVE  d[m] = {}
<1> DEFINE T == {k \in 0 .. m : d[k] = {}}
<1>1. 0 \in T
  BY DEF Differ
<1>2. ASSUME NEW k \in 0 .. m - 1, k \in T PROVE k + 1 \in T
  <2>1. k + 1 \in 1 .. n /\ (k + 1) - 1 = k /\ k + 1 \in 1 .. m
    OBVIOUS
  <2>2. d[k + 1] = ShiftEight(order, Xor({}, {}))
    BY <1>2, <2>1 DEF Differ, Quiet
  <2>3. {} \in Byte
    BY DEF Byte
  <2>4. d[k + 1] = {}
    BY <2>2, <2>3, XorLemma, EightLemma
  <2> QED BY <2>1, <2>4
<1> HIDE DEF T
<1>3. 0 .. m \subseteq T
  BY <1>1, <1>2, UpTo
<1>4. m \in T
  BY <1>3
<1> QED BY <1>4 DEF T

LEMMA DifferBehind ==
  ASSUME NEW order \in Order, NEW n \in Nat, NEW damage, NEW d,
         Differ(order, n, damage, d), NEW m \in 0 .. n, d[m] # {}, Quiet(damage, m + 1, n)
  PROVE  d[n] # {}
<1> DEFINE T == {k \in 0 .. n - m : d[m + k] # {}}
<1>1. 0 \in T
  <2>1. m + 0 = m /\ 0 \in 0 .. n - m
    OBVIOUS
  <2>2. d[m + 0] # {}
    BY <2>1
  <2> QED BY <2>1, <2>2
<1>2. ASSUME NEW k \in 0 .. (n - m) - 1, k \in T PROVE k + 1 \in T
  <2>1. /\ m + (k + 1) \in 1 .. n /\ m + (k + 1) - 1 = m + k /\ m + (k + 1) \in m + 1 .. n
        /\ m + k \in 0 .. n
    OBVIOUS
  <2>2. PICK j \in 1 .. n : j = m + (k + 1) /\ j - 1 = m + k /\ damage[j] = {}
    BY <2>1 DEF Quiet
  <2>3. d[m + k] \in Byte /\ d[m + k] # {}
    BY <1>2, <2>1 DEF Differ
  <2>4. d[j] = ShiftEight(order, Xor(d[m + k], {}))
    BY <2>2 DEF Differ
  <2>5. Xor(d[m + k], {}) = d[m + k] /\ {} \in Byte
    BY <2>3, XorLemma DEF Byte
  <2>6. d[j] # {}
    BY <2>3, <2>4, <2>5, EightLemma
  <2> QED BY <2>2, <2>6
<1>3. n - m \in Nat
  OBVIOUS
<1> HIDE DEF T
<1>4. 0 .. n - m \subseteq T
  BY <1>1, <1>2, <1>3, UpTo
<1>5. n - m \in T /\ m + (n - m) = n
  BY <1>3, <1>4
<1> QED BY <1>5 DEF T

\* Which bits of which byte a burst changes.
LEMMA DamageLemma ==
  ASSUME NEW order \in Order, NEW n \in Nat, NEW first \in 0 .. 8 * n + 7,
         NEW flips \in SUBSET (first .. first + 7), first \in flips
  PROVE  \E m \in 1 .. n + 1, q \in 0 .. 7 :
           /\ Wire(order, q) \in Damage(order, flips, m) /\ From(order, Damage(order, flips, m), q)
           /\ Until(order, Damage(order, flips, m + 1), q - 1)
           /\ \A k \in 1 .. n + 1 : k \notin {m, m + 1} => Damage(order, flips, k) = {}
<1>1. PICK m \in 1 .. n + 1, q \in 0 .. 7 : first = 8 * (m - 1) + q
  <2>1. PICK t \in 0 .. n, r \in 0 .. 7 : first = 8 * t + r
    <3>1. PICK t \in Int : t = first \div 8
      OBVIOUS
    <3>2. 8 * t <= first /\ first < 8 * t + 8
      BY <3>1
    <3>3. t \in 0 .. n /\ first - 8 * t \in 0 .. 7 /\ first = 8 * t + (first - 8 * t)
      BY <3>2
    <3> QED BY <3>3
  <2>2. t + 1 \in 1 .. n + 1 /\ first = 8 * ((t + 1) - 1) + r
    BY <2>1
  <2> QED BY <2>2
<1>2. ASSUME NEW k \in 1 .. n + 2, NEW i \in Damage(order, flips, k)
      PROVE  /\ i \in 0 .. 7 /\ Wire(order, i) \in 0 .. 7
             /\ first <= 8 * (k - 1) + Wire(order, i)
             /\ 8 * (k - 1) + Wire(order, i) <= first + 7
  BY WireLemma DEF Damage
<1>3. Wire(order, q) \in Damage(order, flips, m)
  <2>1. Wire(order, q) \in 0 .. 7 /\ Wire(order, Wire(order, q)) = q
    BY WireLemma
  <2> QED BY <1>1, <2>1 DEF Damage
<1>4. From(order, Damage(order, flips, m), q)
  <2> SUFFICES ASSUME NEW i \in Damage(order, flips, m) PROVE Wire(order, i) >= q
    BY DEF From
  <2> QED BY <1>1, <1>2
<1>5. Until(order, Damage(order, flips, m + 1), q - 1)
  <2> SUFFICES ASSUME NEW i \in Damage(order, flips, m + 1) PROVE Wire(order, i) <= q - 1
    BY DEF Until
  <2> QED BY <1>1, <1>2
<1>6. ASSUME NEW k \in 1 .. n + 1, k \notin {m, m + 1} PROVE Damage(order, flips, k) = {}
  <2> SUFFICES ASSUME NEW i \in Damage(order, flips, k) PROVE FALSE
    OBVIOUS
  <2>1. PICK p \in 0 .. 7 : p = Wire(order, i)
    BY <1>2
  <2>2. first <= 8 * (k - 1) + p /\ 8 * (k - 1) + p <= first + 7
    BY <1>2, <2>1
  <2>3. k < m \/ k > m + 1
    BY <1>6
  <2> QED BY <1>1, <2>2, <2>3
<1> QED BY <1>3, <1>4, <1>5, <1>6

LEMMA BufferLemma ==
  ASSUME NEW order \in Order, NEW bytes \in Seq(0 .. 255), NEW flips,
         NEW n \in Nat, n = Len(bytes)
  PROVE  /\ AsBits(bytes) \in Seq(Byte) /\ Len(AsBits(bytes)) = n
         /\ Front(Received(order, Sent(order, bytes), flips)) \in Seq(Byte)
         /\ Len(Front(Received(order, Sent(order, bytes), flips))) = n
         /\ \A k \in 1 .. n : Front(Received(order, Sent(order, bytes), flips))[k] =
                               Xor(AsBits(bytes)[k], Damage(order, flips, k))
         /\ Crc8(order, AsBits(bytes)) \in Byte
         /\ Last(Received(order, Sent(order, bytes), flips)) =
              Xor(Crc8(order, AsBits(bytes)), Damage(order, flips, n + 1))
         /\ \A k \in Int : Damage(order, flips, k) \in Byte
<1> DEFINE sent == AsBits(bytes)
           got == Received(order, Sent(order, bytes), flips)
           crc == Crc8(order, sent)
           buffer == Append(sent, crc)
           r == [k \in 1 .. n + 1 |-> Xor(buffer[k], Damage(order, flips, k))]
<1>1. n \in Nat
  OBVIOUS
<1>2. \A k \in 1 .. n : Bits(bytes[k]) \in Byte
  BY DEF Bits, Byte
<1>3. sent \in Seq(Byte) /\ Len(sent) = n /\ \A k \in 1 .. n : sent[k] \in Byte
  BY <1>1, <1>2 DEF AsBits
<1> HIDE DEF sent
<1>4. crc \in Byte
  <2>1. IsRegisters(order, sent, n, Registers(order, sent)) /\ n \in 0 .. n
    BY <1>1, <1>3, RegistersLemma
  <2> QED BY <1>3, <2>1 DEF Crc8, IsRegisters
<1> HIDE DEF crc
<1>5. /\ Len(buffer) = n + 1 /\ buffer[n + 1] = crc
      /\ \A k \in 1 .. n : buffer[k] = sent[k]
      /\ \A k \in 1 .. n + 1 : buffer[k] \in Byte
  BY <1>1, <1>3, <1>4
<1>6. Sent(order, bytes) = buffer
  BY DEF Sent, crc, sent
<1> HIDE DEF buffer
<1>7. got = r
  BY <1>5, <1>6 DEF Received, got
<1>8. ASSUME NEW k \in Int PROVE Damage(order, flips, k) \in Byte
  BY DEF Damage, Byte
<1>9. \A k \in 1 .. n + 1 : Xor(buffer[k], Damage(order, flips, k)) \in Byte
  BY <1>5, <1>8, XorLemma
<1>10. r \in Seq(Byte) /\ Len(r) = n + 1 /\ r # <<>>
  BY <1>1, <1>9
<1>11. \A k \in 1 .. n + 1 : r[k] = Xor(buffer[k], Damage(order, flips, k))
  OBVIOUS
<1> HIDE DEF r
<1>12. /\ Front(r) \in Seq(Byte) /\ Len(Front(r)) = n /\ Last(r) = r[n + 1]
       /\ \A k \in 1 .. n : Front(r)[k] = r[k]
  <2>1. Front(r) = [k \in 1 .. n |-> r[k]]
    BY <1>1, <1>10 DEF Front
  <2>2. \A k \in 1 .. n : r[k] \in Byte
    BY <1>9, <1>11, <1>1
  <2> QED BY <1>1, <1>10, <2>1, <2>2 DEF Last
<1>13. \A k \in 1 .. n : Front(r)[k] = Xor(sent[k], Damage(order, flips, k))
  BY <1>1, <1>5, <1>11, <1>12
<1>14. Last(r) = Xor(crc, Damage(order, flips, n + 1))
  BY <1>1, <1>5, <1>11, <1>12
<1> QED
  BY <1>1, <1>3, <1>4, <1>7, <1>8, <1>12, <1>13, <1>14 DEF crc, sent, got

\* Any burst is found, and nothing else.
LEMMA BurstIsFound ==
  ASSUME NEW order \in Order, NEW bytes \in Seq(0 .. 255),
         NEW flips \in Bursts(8 * Len(bytes) + 8)
  PROVE  Accepted(order, Received(order, Sent(order, bytes), flips)) <=> flips = {}
<1>1. PICK n \in Nat : n = Len(bytes)
  OBVIOUS
<1> DEFINE r == Received(order, Sent(order, bytes), flips)
           got == Front(r)
           sent == AsBits(bytes)
           damage == [k \in 1 .. n + 1 |-> Damage(order, flips, k)]
<1>2. /\ sent \in Seq(Byte) /\ Len(sent) = n /\ got \in Seq(Byte) /\ Len(got) = n
      /\ \A k \in 1 .. n : got[k] = Xor(sent[k], Damage(order, flips, k))
      /\ Crc8(order, sent) \in Byte
      /\ Last(r) = Xor(Crc8(order, sent), Damage(order, flips, n + 1))
      /\ \A k \in Int : Damage(order, flips, k) \in Byte
  BY <1>1, BufferLemma
<1>3. damage \in [1 .. n + 1 -> Byte] /\ \A k \in 1 .. n + 1 : damage[k] = Damage(order, flips, k)
  BY <1>2
<1>4. Accepted(order, r) <=> Crc8(order, got) = Last(r)
  BY DEF Accepted
<1> HIDE DEF r, got, sent, damage
<1>5. PICK d : /\ Differ(order, n, damage, d)
               /\ d[n] = Xor(Crc8(order, got), Crc8(order, sent))
  <2>1. \A k \in 1 .. n : got[k] = Xor(sent[k], damage[k])
    BY <1>2, <1>3
  <2> QED BY <1>2, <1>3, <2>1, DifferLemma
<1>6. Crc8(order, got) \in Byte /\ n + 1 \in 1 .. n + 1
  <2>1. IsRegisters(order, got, n, Registers(order, got))
    BY <1>2, RegistersLemma
  <2>2. n \in 0 .. n
    OBVIOUS
  <2> QED BY <1>2, <2>1, <2>2 DEF Crc8, IsRegisters
<1>7. Accepted(order, r) <=> d[n] = damage[n + 1]
  <2>1. Last(r) = Xor(Crc8(order, sent), damage[n + 1]) /\ damage[n + 1] \in Byte
    BY <1>2, <1>3, <1>6
  <2>2. \A x, y, e \in Byte : x = Xor(y, e) <=> Xor(x, y) = e
    BY DEF Xor, Byte
  <2> QED BY <1>2, <1>4, <1>5, <1>6, <2>1, <2>2
<1>8. ASSUME flips = {} PROVE Accepted(order, r)
  <2>1. \A k \in 1 .. n + 1 : damage[k] = {}
    BY <1>3, <1>8 DEF Damage
  <2>2. n \in 0 .. n /\ Quiet(damage, 1, n)
    BY <2>1 DEF Quiet
  <2>3. d[n] = {}
    BY <1>1, <1>5, <2>2, DifferBefore
  <2> QED BY <1>6, <1>7, <2>1, <2>3
<1>9. ASSUME flips # {} PROVE ~Accepted(order, r)
  <2>1. PICK first \in 0 .. (8 * n + 8) - 1, more \in SUBSET (1 .. 7) :
          flips = {k \in {first} \cup {first + j : j \in more} : k < 8 * n + 8}
    BY <1>1, <1>9 DEF Bursts
  <2>2. first \in 0 .. 8 * n + 7 /\ first \in flips /\ flips \in SUBSET (first .. first + 7)
    BY <2>1
  <2>3. PICK m \in 1 .. n + 1, q \in 0 .. 7 :
          /\ Wire(order, q) \in Damage(order, flips, m) /\ From(order, Damage(order, flips, m), q)
          /\ Until(order, Damage(order, flips, m + 1), q - 1)
          /\ \A k \in 1 .. n + 1 : k \notin {m, m + 1} => Damage(order, flips, k) = {}
    BY <2>2, DamageLemma
  <2>4. m - 1 \in 0 .. n /\ \A k \in 1 .. m - 1 : damage[k] = {}
    BY <1>1, <1>3, <2>3
  <2>5. d[m - 1] = {}
    <3>2. PICK before \in 0 .. n : before = m - 1
      BY <2>4
    <3>3. Quiet(damage, 1, before)
      BY <2>4, <3>2 DEF Quiet
    <3>4. d[before] = {}
      BY <1>1, <1>5, <3>3, DifferBefore
    <3> QED BY <3>2, <3>4
  <2>6. CASE m = n + 1
    <3>1. d[n] = {} /\ damage[n + 1] # {}
      BY <1>1, <1>3, <1>6, <2>3, <2>5, <2>6
    <3> QED BY <1>7, <3>1
  <2>7. CASE m \in 1 .. n
    <3>1. PICK a \in Byte, b \in Byte : a = damage[m] /\ b = damage[m + 1]
      BY <1>3, <2>7
    <3>2. From(order, a, q) /\ Wire(order, q) \in a /\ Until(order, b, q - 1)
      BY <1>3, <2>3, <2>7, <3>1
    <3>3. ShiftEight(order, a) # b /\ ShiftEight(order, a) \in Byte
      BY <3>2, BurstLemma, EightLemma
    <3>4. d[m] = ShiftEight(order, a)
      <4>1. d[m] = ShiftEight(order, Xor({}, a))
        BY <1>5, <2>5, <2>7, <3>1 DEF Differ
      <4>2. {} \in Byte
        BY DEF Byte
      <4> QED BY <4>1, <4>2, XorLemma
    <3>5. CASE m = n
      BY <1>7, <3>1, <3>3, <3>4, <3>5
    <3>6. CASE m < n
      <4>1. m + 1 \in 1 .. n /\ (m + 1) - 1 = m /\ m + 1 \in 0 .. n
        BY <2>7, <3>6
      <4>2. d[m + 1] = ShiftEight(order, Xor(d[m], b))
        BY <1>5, <3>1, <4>1 DEF Differ
      <4>3. Xor(d[m], b) \in Byte /\ Xor(d[m], b) # {}
        BY <3>3, <3>4, XorLemma
      <4>4. d[m + 1] # {}
        BY <4>2, <4>3, EightLemma
      <4>5. \A k \in (m + 1) + 1 .. n : damage[k] = {}
        BY <1>3, <2>3, <4>1
      <4>6. d[n] # {}
        <5>1. PICK next \in 0 .. n : next = m + 1
          BY <4>1
        <5>2. d[next] # {} /\ Quiet(damage, next + 1, n)
          BY <4>4, <4>5, <5>1 DEF Quiet
        <5> QED BY <1>1, <1>5, <5>2, DifferBehind
      <4>7. damage[n + 1] = {}
        BY <1>3, <1>6, <2>3, <3>6
      <4> QED BY <1>7, <4>6, <4>7
    <3> QED BY <2>7, <3>5, <3>6
  <2> QED BY <2>6, <2>7
<1> QED BY <1>8, <1>9 DEF r

LEMMA CrcSample ==
  ASSUME sample \in Samples, sample.kind = "crc"
  PROVE  /\ sample.order \in Order /\ sample.bytes \in Seq(0 .. 255)
         /\ sample.flips \in Bursts(8 * Len(sample.bytes) + 8)
<1>1. sample \notin [kind : {"temperature"}, raw : RawTemperature, bits : 9 .. 12]
  OBVIOUS
<1>2. sample \notin [kind : {"query"}, params : Params]
  OBVIOUS
<1>3. sample \notin [kind : {"serial"}, number : [1 .. SerialSize -> SerialByte],
                     rest : {<<>>, <<17>>}]
  OBVIOUS
<1>4. sample \notin [kind : {"after"}, start : Time, now : Time, interval : Time]
  OBVIOUS
<1>5. PICK bytes \in Message :
        sample \in [kind : {"crc"}, order : {"LSB", "MSB"}, bytes : {bytes},
                    flips : Bursts(8 * Len(bytes) + 8)]
  BY <1>1, <1>2, <1>3, <1>4, Zenon DEF Samples
<1>6. bytes \in Seq(0 .. 255)
  BY AlgorithmsAssumption
<1>7. /\ sample.order \in Order /\ sample.bytes = bytes
      /\ sample.flips \in Bursts(8 * Len(bytes) + 8)
  BY <1>5 DEF Order
<1> QED BY <1>6, <1>7

\* For messages of any length: a burst of at most eight bits anywhere in a transfer, in
\* its bytes, its checksum or across, is found on both buses, and an undamaged transfer
\* is accepted.
THEOREM EveryBurstIsFound == AlgSpec => []BurstsAreFound
<1>1. AlgInit => AlgIInv
  BY DEF AlgInit, AlgIInv
<1>2. AlgIInv /\ [AlgNext]_algVars => AlgIInv'
  BY DEF AlgIInv, AlgNext, algVars, Evaluate
<1>3. AlgIInv => BurstsAreFound
  <2> SUFFICES ASSUME AlgIInv, answer # <<>>, sample.kind = "crc"
               PROVE  answer = <<sample.flips = {}>>
    BY DEF BurstsAreFound
  <2> DEFINE accepted ==
        Accepted(sample.order, Received(sample.order, Sent(sample.order, sample.bytes),
                                        sample.flips))
  <2>1. accepted <=> sample.flips = {}
    BY CrcSample, BurstIsFound DEF AlgIInv
  <2>2. Evaluated(sample) = accepted
    BY DEF Evaluated
  <2>3. accepted = (sample.flips = {})
    BY <2>1 DEF Accepted
  <2> HIDE DEF accepted
  <2> QED BY <2>2, <2>3 DEF AlgIInv
<1> QED BY <1>1, <1>2, <1>3, PTL DEF AlgSpec
=============================================================================
