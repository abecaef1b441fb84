--------------------------- MODULE LogPagesProofs ---------------------------
(***************************************************************************)
(* What AdminCommand and LogPages compute for every size, status, width    *)
(* and drive, and what holds of every run of LogPages.                     *)
(*                                                                         *)
(* The order is: the arithmetic of a command; induction, for the functions *)
(* defined by recursion; the decoding of each page; what a drive goes      *)
(* through; the inductive invariant and one lemma per action; and from it  *)
(* the properties.                                                         *)
(***************************************************************************)
EXTENDS LogPages, FiniteSetTheorems, TLAPS

\* passthru.go:66 and :79: a size that logPageSize accepts, of those an int can
\* hold whose dwords fit a uint32, is the size that the drive transfers, and the
\* page number arrives beside it.
THEOREM SizeArrives ==
  ASSUME NEW size \in Nat, size <= 4 * Word, logPageSizeFits(size),
         NEW pageID \in 0..255
  PROVE  /\ transferred(logPageCDW10(pageID, size)) = size
         /\ lid(logPageCDW10(pageID, size)) = pageID
<1> DEFINE n == size \div 4 - 1
<1>1. PICK q \in Nat : size = 4 * q /\ q >= 1
  <2>1. size % 4 = 0 /\ size > 0
    BY DEF logPageSizeFits
  <2>2. size = 4 * (size \div 4) + (size % 4) /\ size \div 4 \in Nat
    OBVIOUS
  <2> QED  BY <2>1, <2>2
<1>2. n = q - 1 /\ n \in Nat /\ n < Word
  BY <1>1, WordAssumption
<1>3. numd(size) = n
  BY <1>2, WordAssumption DEF numd
<1>4. n < 65536
  BY <1>3 DEF logPageSizeFits
<1>5. logPageCDW10(pageID, size) = pageID + n * 65536
  BY <1>2, <1>3, <1>4 DEF logPageCDW10
<1>6. (pageID + n * 65536) \div 65536 = n /\ (pageID + n * 65536) % 256 = pageID
  BY <1>2, <1>4
<1> QED
  BY <1>1, <1>2, <1>5, <1>6 DEF transferred, lid

\* errinfo.go:20 and identify.go:28: whatever a drive says of the length of its
\* error log, a read of the whole log is one that logPageSize accepts.
THEOREM WholeLogFits ==
  ASSUME NEW elpe \in 0..255
  PROVE  logPageSizeFits((elpe + 1) * ErrorInfoEntrySize)
<1> DEFINE size == (elpe + 1) * ErrorInfoEntrySize
<1>1. size = 4 * (16 * elpe + 16) /\ size > 0
  BY DEF ErrorInfoEntrySize
<1>2. size % 4 = 0 /\ size \div 4 - 1 = 16 * elpe + 15
  BY <1>1
<1>3. 16 * elpe + 15 \in 0..4095
  OBVIOUS
<1>4. numd(size) = 16 * elpe + 15
  BY <1>2, <1>3, WordAssumption DEF numd
<1> QED
  BY <1>1, <1>2, <1>3, <1>4 DEF logPageSizeFits

\* passthru.go:99 and logpage/errinfo.go:43: decodeStatus and ParseErrorInfo take the
\* same type and code out of a status, though one has it without the phase tag
\* and the other with it, and whatever stands in the bits above.
THEOREM StatusReadAlike ==
  ASSUME NEW s \in Statuses, NEW phase \in 0..1
  PROVE  /\ StatusType(statusField(s)) = s.sct /\ entryType(statusWord(s, phase)) = s.sct
         /\ StatusCode(statusField(s)) = s.sc /\ entryCode(statusWord(s, phase)) = s.sc
<1>1. s.sct \in 0..7 /\ s.sc \in 0..255 /\ s.above \in Nat
  <2>1. s.above \in 0..15 /\ s.sct \in 0..7 /\ s.sc \in 0..255
    BY DEF Statuses
  <2> QED  BY <2>1
<1>2. PICK sc \in 0..255, sct \in 0..7, above \in Nat :
        sc = s.sc /\ sct = s.sct /\ above = s.above
  <2> USE <1>1
  <2> WITNESS s.sc \in 0..255, s.sct \in 0..7, s.above \in Nat
  <2> QED  OBVIOUS
<1>3. statusField(s) = sc + 256 * sct + 2048 * above
  BY <1>2 DEF statusField
<1>4. statusWord(s, phase) = phase + 2 * statusField(s)
  BY DEF statusWord
<1>5. PICK high \in Nat : high = sct + 8 * above
  OBVIOUS
<1>6. PICK f \in Nat : f = sc + 256 * high
  OBVIOUS
<1>7. statusField(s) = f
  BY <1>3, <1>5, <1>6
<1>8. f % 256 = sc /\ f \div 256 = high
  BY <1>6
<1>9. high % 8 = sct
  BY <1>5
<1>10. PICK low \in 0..511 : low = phase + 2 * sc
  OBVIOUS
<1>11. PICK w \in Nat : w = phase + 2 * f
  OBVIOUS
<1>12. w \div 2 = f
  BY <1>11
<1>13. w = low + 512 * high
  BY <1>6, <1>10, <1>11
<1>14. w \div 512 = high
  BY <1>13
<1> QED
  BY <1>2, <1>4, <1>7, <1>8, <1>9, <1>11, <1>12, <1>14
  DEF StatusType, StatusCode, entryType, entryCode

\* Induction, as a statement about sets: a set of numbers has a least one.
LEMMA Smallest ==
  ASSUME NEW S \in SUBSET Nat, S # {}
  PROVE  \E m \in S : \A k \in S : m <= k
<1>1. PICK m \in S : \A k \in S : <<k, m>> \notin OpToRel(<, Nat)
  BY NatLessThanWellFounded, WFMin
<1>2. \A k \in S : ~(k < m)
  BY <1>1 DEF OpToRel
<1> QED  BY <1>2

\* Induction up to n, for a property given by the set that has it.
LEMMA SetInduction ==
  ASSUME NEW n \in Nat, NEW S, 0 \in S,
         \A i \in 1..n : i - 1 \in S => i \in S
  PROVE  \A i \in 0..n : i \in S
<1> DEFINE Bad == {k \in 0..n : k \notin S}
<1>1. SUFFICES ASSUME Bad # {}  PROVE FALSE
  OBVIOUS
<1>2. Bad \in SUBSET Nat
  OBVIOUS
<1>3. PICK m \in Bad : \A k \in Bad : m <= k
  <2> HIDE DEF Bad
  <2> QED  BY <1>1, <1>2, Smallest
<1>4. m \in 1..n /\ m - 1 \notin Bad /\ m - 1 \in 0..n
  BY <1>3
<1> QED
  BY <1>3, <1>4

\* A function that is computed from the values before it exists.
Recursive(f, n, start, step) ==
  /\ f[0] = start
  /\ \A i \in 1..n : f[i] = step[<<i, f[i - 1]>>]

\* There is a function that a step computes from a start.
LEMMA Recursion ==
  ASSUME NEW n \in Nat, NEW T, NEW start \in T, NEW step \in [(1..n) \X T -> T]
  PROVE  \E f \in [0..n -> T] : Recursive(f, n, start, step)
<1> DEFINE S == {k \in 0..n : \E f \in [0..k -> T] : Recursive(f, k, start, step)}
<1>1. 0 \in S
  <2> DEFINE f == [i \in 0..0 |-> start]
  <2>1. f \in [0..0 -> T] /\ Recursive(f, 0, start, step)
    BY DEF Recursive
  <2> HIDE DEF f
  <2> QED  BY <2>1
<1>2. ASSUME NEW m \in 1..n, m - 1 \in S
      PROVE  m \in S
  <2>1. PICK f \in [0..m - 1 -> T] : Recursive(f, m - 1, start, step)
    BY <1>2
  <2> DEFINE g == [i \in 0..m |-> IF i = m THEN step[<<m, f[m - 1]>>] ELSE f[i]]
  <2>2. g \in [0..m -> T]
    <3> SUFFICES ASSUME NEW i \in 0..m  PROVE g[i] \in T
      OBVIOUS
    <3>1. CASE i = m
      <4>1. f[m - 1] \in T /\ <<m, f[m - 1]>> \in (1..n) \X T
        OBVIOUS
      <4> QED  BY <3>1, <4>1
    <3>2. CASE i # m
      BY <3>2
    <3> QED  BY <3>1, <3>2
  <2>3. g[0] = start
    BY <2>1 DEF Recursive
  <2>4. \A i \in 1..m : g[i] = step[<<i, g[i - 1]>>]
    <3> TAKE i \in 1..m
    <3>1. CASE i = m
      <4>1. g[i] = step[<<m, f[m - 1]>>]  BY <3>1
      <4>2. g[i - 1] = f[m - 1]  BY <3>1
      <4> QED  BY <3>1, <4>1, <4>2
    <3>2. CASE i # m
      <4>1. i \in 1..m - 1 /\ g[i] = f[i] /\ g[i - 1] = f[i - 1]
        BY <3>2
      <4>2. f[i] = step[<<i, f[i - 1]>>]
        BY <4>1, <2>1 DEF Recursive
      <4> QED  BY <4>1, <4>2
    <3> QED  BY <3>1, <3>2
  <2>5. Recursive(g, m, start, step)
    BY <2>3, <2>4 DEF Recursive
  <2> HIDE DEF g
  <2> QED  BY <2>2, <2>5
<1>3. n \in S
  <2> HIDE DEF S
  <2> QED  BY <1>1, <1>2, SetInduction
<1> QED
  BY <1>3

LEMMA MinOfTwo ==
  ASSUME NEW a \in Int, NEW b \in Int
  PROVE  Min({a, b}) = IF a <= b THEN a ELSE b
BY DEF Min

-----------------------------------------------------------------------------
(* Numbers as bytes.                                                       *)

LEMMA Multiplied ==
  ASSUME NEW a \in Nat, NEW b \in Nat
  PROVE  a * b \in Nat
OBVIOUS

\* The recursion of Power has the solution it is written for.
LEMMA PowerIs ==
  /\ Power \in [0..16 -> Nat \ {0}]
  /\ Power[0] = 1
  /\ \A n \in 1..16 : Power[n] = Base * Power[n - 1]
<1>0. Base \in Nat \ {0}
  BY LogPagesAssumption
<1> DEFINE T == Nat \ {0}
           step == [x \in (1..16) \X T |-> Base * x[2]]
<1>1. step \in [(1..16) \X T -> T]
  BY <1>0
<1>2. PICK f \in [0..16 -> T] : Recursive(f, 16, 1, step)
  <2>1. 1 \in T /\ 16 \in Nat
    OBVIOUS
  <2> HIDE DEF step, T
  <2> QED  BY <1>1, <2>1, Recursion
<1>3. \A n \in 1..16 : f[n] = Base * f[n - 1]
  <2> TAKE n \in 1..16
  <2>1. <<n, f[n - 1]>> \in (1..16) \X T
    OBVIOUS
  <2>2. step[<<n, f[n - 1]>>] = Base * f[n - 1]
    BY <2>1
  <2> QED  BY <2>2, <1>2 DEF Recursive
<1>4. f = [n \in 0..16 |-> IF n = 0 THEN 1 ELSE Base * f[n - 1]]
  BY <1>2, <1>3 DEF Recursive
<1>5. Power = [n \in 0..16 |-> IF n = 0 THEN 1 ELSE Base * Power[n - 1]]
  BY <1>4 DEF Power
<1>6. Power[0] = 1 /\ \A n \in 1..16 : Power[n] = Base * Power[n - 1]
  <2> HIDE DEF T
  <2> QED  BY <1>5
<1>7. \A n \in 0..16 : Power[n] \in T
  <2> DEFINE S == {k \in 0..16 : Power[k] \in T}
  <2>1. 0 \in S /\ 16 \in Nat
    BY <1>6
  <2>2. \A i \in 1..16 : i - 1 \in S => i \in S
    BY <1>0, <1>6
  <2>3. \A n \in 0..16 : n \in S
    <3> HIDE DEF S
    <3> QED  BY <2>1, <2>2, SetInduction
  <2> QED  BY <2>3
<1>8. Power \in [0..16 -> T]
  BY <1>5, <1>7
<1> QED  BY <1>6, <1>8

\* The last value is what the bytes from the first one on hold.
LEMMA LittleEndianIs ==
  ASSUME NEW n \in 0..16, NEW b, Len(b) = n, \A i \in 1..n : b[i] \in Nat
  PROVE  /\ littleEndian(b) \in [0..n -> Nat]
         /\ littleEndian(b)[0] = 0
         /\ \A i \in 1..n : littleEndian(b)[i] = b[n + 1 - i] + Base * littleEndian(b)[i - 1]
<1>0. Base \in Nat
  BY LogPagesAssumption
<1> DEFINE step == [x \in (1..n) \X Nat |-> b[n + 1 - x[1]] + Base * x[2]]
<1>1. step \in [(1..n) \X Nat -> Nat]
  <2> SUFFICES ASSUME NEW x \in (1..n) \X Nat  PROVE b[n + 1 - x[1]] + Base * x[2] \in Nat
    OBVIOUS
  <2>1. n + 1 - x[1] \in 1..n /\ x[2] \in Nat
    OBVIOUS
  <2>2. b[n + 1 - x[1]] \in Nat /\ Base * x[2] \in Nat
    BY <1>0, <2>1, Multiplied
  <2> QED  BY <2>2
<1>2. PICK f \in [0..n -> Nat] : Recursive(f, n, 0, step)
  <2>1. n \in Nat /\ 0 \in Nat
    OBVIOUS
  <2> HIDE DEF step
  <2> QED  BY <1>1, <2>1, Recursion
<1>3. \A i \in 1..n : f[i] = b[n + 1 - i] + Base * f[i - 1]
  <2> TAKE i \in 1..n
  <2>1. <<i, f[i - 1]>> \in (1..n) \X Nat
    OBVIOUS
  <2>2. step[<<i, f[i - 1]>>] = b[n + 1 - i] + Base * f[i - 1]
    BY <2>1
  <2> QED  BY <2>2, <1>2 DEF Recursive
<1> HIDE DEF step
<1>4. f = [i \in 0..n |-> IF i = 0 THEN 0 ELSE b[n + 1 - i] + Base * f[i - 1]]
  BY <1>2, <1>3 DEF Recursive
<1> DEFINE g == littleEndian(b)
<1>5. g = [i \in 0..n |-> IF i = 0 THEN 0 ELSE b[n + 1 - i] + Base * g[i - 1]]
  BY <1>4, Zenon DEF littleEndian
<1> HIDE DEF g
<1>6. g[0] = 0 /\ \A i \in 1..n : g[i] = b[n + 1 - i] + Base * g[i - 1]
  BY <1>5
<1>7. \A i \in 0..n : g[i] \in Nat
  <2> DEFINE S == {k \in 0..n : g[k] \in Nat}
  <2>1. 0 \in S /\ n \in Nat
    BY <1>6
  <2>2. ASSUME NEW i \in 1..n, i - 1 \in S  PROVE i \in S
    <3>1. n + 1 - i \in 1..n /\ g[i - 1] \in Nat /\ i \in 0..n
      BY <2>2
    <3>2. b[n + 1 - i] \in Nat /\ Base * g[i - 1] \in Nat
      BY <1>0, <3>1, Multiplied
    <3>3. g[i] = b[n + 1 - i] + Base * g[i - 1]
      BY <1>6
    <3>4. g[i] \in Nat
      <4>1. PICK x, y : x = b[n + 1 - i] /\ y = Base * g[i - 1]
        OBVIOUS
      <4>2. x \in Nat /\ y \in Nat
        BY <4>1, <3>2, Zenon
      <4>3. g[i] = x + y
        BY <4>1, <3>3, Zenon
      <4> QED  BY <4>2, <4>3
    <3> QED  BY <3>1, <3>4
  <2>3. \A i \in 0..n : i \in S
    <3> HIDE DEF S
    <3> QED  BY <2>1, <2>2, SetInduction
  <2> QED  BY <2>3
<1>8. g \in [0..n -> Nat]
  BY <1>5, <1>7
<1> QED  BY <1>6, <1>8 DEF g

\* Dividing by a product is dividing twice.
LEMMA DivTwice ==
  ASSUME NEW v \in Nat, NEW p \in Nat \ {0}, NEW q \in Nat \ {0}
  PROVE  /\ q * p \in Nat \ {0}
         /\ v \div (q * p) = (v \div p) \div q
<1> DEFINE a == v \div p
           r == v % p
           c == a \div q
           t == a % q
           e == p * t + r
<1>1. a \in Nat /\ r \in Nat /\ r <= p - 1 /\ v = p * a + r
  OBVIOUS
<1>2. c \in Nat /\ t \in Nat /\ t <= q - 1 /\ a = q * c + t
  BY <1>1
<1> HIDE DEF a, r, c, t
<1>3. v = (q * p) * c + e
  <2>1. v = p * (q * c + t) + r
    BY <1>1, <1>2
  <2>2. p * (q * c + t) = (q * p) * c + p * t
    BY <1>2
  <2> QED  BY <1>1, <1>2, <2>1, <2>2, Multiplied
<1>4. q * p \in Nat \ {0}
  OBVIOUS
<1>5. e \in Nat /\ e < q * p
  <2>1. p * t <= p * (q - 1)
    BY <1>2
  <2>2. p * (q - 1) = q * p - p
    OBVIOUS
  <2> QED  BY <1>1, <1>2, <2>1, <2>2, Multiplied
<1> HIDE DEF e
<1>6. v \div (q * p) = c
  <2>1. PICK m \in Nat \ {0} : m = q * p
    BY <1>4
  <2>2. v = m * c + e /\ e < m
    BY <1>3, <1>5, <2>1
  <2>3. v \div m = c
    BY <1>2, <1>5, <2>2
  <2> QED  BY <2>1, <2>3
<1> QED
  BY <1>4, <1>6 DEF c, a

\* optional.go:17: what the drive encodes is what the exporter decodes, unless
\* every bit of it is set.
THEOREM FieldReadBack ==
  ASSUME NEW n \in 1..16, NEW v \in {None} \cup 0..Power[n] - 1
  PROVE  LET b == [i \in 1..n |-> IF v = None THEN Base - 1
                                 ELSE (v \div Power[i - 1]) % Base]
         IN  readOptUint(b) = IF v \in {None, Power[n] - 1} THEN None ELSE v
<1> DEFINE b == [i \in 1..n |-> IF v = None THEN Base - 1
                                 ELSE (v \div Power[i - 1]) % Base]
           g == littleEndian(b)
<1>0. Base \in Nat \ {0, 1}
  BY LogPagesAssumption
<1>1. /\ \A i \in 0..n : Power[i] \in Nat \ {0}
      /\ Power[0] = 1
      /\ \A i \in 1..n : Power[i] = Base * Power[i - 1]
  BY PowerIs
<1>2. Len(b) = n
  OBVIOUS
<1>3. \A i \in 1..n : b[i] \in Nat
  BY <1>0, <1>1 DEF None
<1>4. /\ g \in [0..n -> Nat]
      /\ g[0] = 0
      /\ \A i \in 1..n : g[i] = b[n + 1 - i] + Base * g[i - 1]
  <2>1. n \in 0..16
    OBVIOUS
  <2> HIDE DEF b
  <2> QED  BY <1>2, <1>3, <2>1, LittleEndianIs
<1>5. CASE v = None
  <2> DEFINE S == {i \in 0..n : g[i] = Power[i] - 1}
  <2>1. 0 \in S /\ n \in Nat
    BY <1>1, <1>4
  <2>2. ASSUME NEW i \in 1..n, i - 1 \in S  PROVE i \in S
    <3>1. b[n + 1 - i] = Base - 1
      BY <1>5
    <3>2. PICK k \in Nat : k = Power[i - 1]
      BY <1>1
    <3>3. g[i] = Base - 1 + Base * (k - 1)
      BY <1>4, <2>2, <3>1, <3>2
    <3>4. Base * (k - 1) = Base * k - Base
      BY <1>0
    <3>5. g[i] = Base * k - 1
      BY <1>0, <3>3, <3>4
    <3> QED  BY <1>1, <3>2, <3>5
  <2>3. \A i \in 0..n : i \in S
    <3> HIDE DEF S
    <3> QED  BY <2>1, <2>2, SetInduction
  <2>4. g[n] = Power[n] - 1
    BY <2>3
  <2> HIDE DEF g, b
  <2>5. readOptUint(b) = None
    BY <1>2, <2>4 DEF readOptUint, g
  <2> QED  BY <1>5, <2>5 DEF b
<1>6. CASE v # None
  <2> DEFINE S == {i \in 0..n : g[i] = v \div Power[n - i]}
  <2>0. v \in Nat /\ v < Power[n]
    BY <1>1, <1>6
  <2>1. 0 \in S /\ n \in Nat
    <3>1. PICK k \in Nat : k = Power[n] /\ v < k
      BY <1>1, <2>0
    <3>2. v \div k = 0
      BY <2>0, <3>1
    <3>3. g[0] = v \div Power[n - 0]
      BY <1>4, <3>1, <3>2
    <3> QED  BY <3>3
  <2>2. ASSUME NEW i \in 1..n, i - 1 \in S  PROVE i \in S
    <3>1. PICK k \in 0..n - 1 : k = n - i
      OBVIOUS
    <3>2. b[n + 1 - i] = (v \div Power[k]) % Base
      BY <1>6, <3>1
    <3>3. g[i - 1] = v \div Power[k + 1]
      BY <2>2, <3>1
    <3>4. Power[k + 1] = Base * Power[k] /\ Power[k] \in Nat \ {0}
      BY <1>1, <3>1
    <3>5. v \div Power[k + 1] = (v \div Power[k]) \div Base
      BY <1>0, <2>0, <3>4, DivTwice
    <3>6. PICK a \in Nat : a = v \div Power[k]
      BY <2>0, <3>4
    <3>7. g[i] = (a % Base) + Base * (a \div Base)
      BY <1>4, <3>2, <3>3, <3>5, <3>6
    <3>8. (a % Base) + Base * (a \div Base) = a
      BY <1>0
    <3> QED  BY <3>1, <3>6, <3>7, <3>8
  <2>3. \A i \in 0..n : i \in S
    <3> HIDE DEF S
    <3> QED  BY <2>1, <2>2, SetInduction
  <2>4. g[n] = v
    BY <1>1, <2>0, <2>3
  <2> HIDE DEF g, b
  <2>5. readOptUint(b) = IF v = Power[n] - 1 THEN None ELSE v
    BY <1>2, <2>4 DEF readOptUint, g
  <2> QED  BY <1>6, <2>5 DEF b
<1> QED
  BY <1>5, <1>6

LEMMA StagesAre ==
  /\ Len(Stages) = 6
  /\ Pages = {"0x02", "0xc0", "0x03", "0x01", "0x06"}
  /\ {Stages[i] : i \in 1..Len(Stages)} = Pages \cup {"identify"}
  /\ Stages[1] = "identify"
  /\ \A i, j \in 1..6 : Stages[i] = Stages[j] => i = j
<1>1. Len(Stages) = 6
  BY DEF Stages
<1>2. /\ Stages[1] = "identify" /\ Stages[2] = "0x02" /\ Stages[3] = "0xc0"
      /\ Stages[4] = "0x03" /\ Stages[5] = "0x01" /\ Stages[6] = "0x06"
  BY DEF Stages
<1>3. 2..6 = {2, 3, 4, 5, 6} /\ 1..6 = {1, 2, 3, 4, 5, 6}
  OBVIOUS
<1>4. Pages = {"0x02", "0xc0", "0x03", "0x01", "0x06"}
  BY <1>1, <1>2, <1>3 DEF Pages
<1>5. {Stages[i] : i \in 1..Len(Stages)} = Pages \cup {"identify"}
  BY <1>1, <1>2, <1>3, <1>4
<1>6. \A i, j \in 1..6 : Stages[i] = Stages[j] => i = j
  BY <1>2, <1>3
<1> QED  BY <1>1, <1>2, <1>4, <1>5, <1>6

\* What a set of metrics counts up to, if each of them counts the things that
\* belong to it and every thing belongs to one.
LEMMA TotalIs ==
  ASSUME NEW I, IsFiniteSet(I), NEW told, NEW f \in [I -> told],
         \A m \in told : m[2] = Cardinality({i \in I : f[i] = m})
  PROVE  Total(told) = Cardinality(I)
<1> DEFINE G(m) == {i \in I : f[i] = m}
           Units == UNION {{m} \X (1..m[2]) : m \in told}
           h == [m \in told |-> CHOOSE g : g \in Bijection(1..m[2], G(m))]
           u == [x \in Units |-> h[x[1]][x[2]]]
<1>1. \A m \in told : h[m] \in Bijection(1..m[2], G(m))
  <2> TAKE m \in told
  <2>1. IsFiniteSet(G(m)) /\ m[2] = Cardinality(G(m))
    BY FS_Subset
  <2>2. \E g : g \in Bijection(1..m[2], G(m))
    BY <2>1, FS_CardinalityType DEF ExistsBijection
  <2> HIDE DEF G
  <2> QED  BY <2>2
<1>2. \A m \in told : /\ h[m] \in [1..m[2] -> G(m)]
                      /\ \A a, b \in 1..m[2] : h[m][a] = h[m][b] => a = b
                      /\ \A i \in G(m) : \E n \in 1..m[2] : h[m][n] = i
  <2> TAKE m \in told
  <2>1. h[m] \in Bijection(1..m[2], G(m))
    BY <1>1
  <2> HIDE DEF h, G
  <2> QED  BY <2>1 DEF Bijection, Injection, Surjection, IsInjective
<1> HIDE DEF h
<1>3. \A x \in Units : x[1] \in told /\ x[2] \in 1..x[1][2] /\ x = <<x[1], x[2]>>
  OBVIOUS
<1>4. \A m \in told : \A n \in 1..m[2] : <<m, n>> \in Units
  OBVIOUS
<1> HIDE DEF Units
<1>5. \A x \in Units : u[x] \in I /\ f[u[x]] = x[1]
  <2> TAKE x \in Units
  <2>1. u[x] = h[x[1]][x[2]] /\ x[1] \in told /\ x[2] \in 1..x[1][2]
    BY <1>3
  <2>2. h[x[1]] \in [1..x[1][2] -> G(x[1])]
    BY <1>2, <2>1
  <2>3. u[x] \in G(x[1])
    <3> HIDE DEF G, u
    <3> QED  BY <2>1, <2>2
  <2> QED  BY <2>3
<1>6. \A x, y \in Units : u[x] = u[y] => x = y
  <2> SUFFICES ASSUME NEW x \in Units, NEW y \in Units, u[x] = u[y]  PROVE x = y
    OBVIOUS
  <2>1. x[1] = y[1]
    BY <1>5
  <2>2. h[x[1]][x[2]] = h[x[1]][y[2]]
    BY <2>1
  <2>3. x[2] = y[2]
    BY <1>2, <1>3, <2>1, <2>2
  <2> QED  BY <1>3, <2>1, <2>3
<1>7. \A i \in I : \E x \in Units : u[x] = i
  <2> TAKE i \in I
  <2>1. f[i] \in told /\ i \in G(f[i])
    OBVIOUS
  <2>2. PICK n \in 1..f[i][2] : h[f[i]][n] = i
    BY <1>2, <2>1
  <2>3. <<f[i], n>> \in Units /\ u[<<f[i], n>>] = i
    BY <1>4, <2>1, <2>2
  <2> QED  BY <2>3
<1>8. u \in Injection(Units, I) /\ u \in Surjection(Units, I)
  <2>1. u \in [Units -> I]
    BY <1>5
  <2>2. DOMAIN u = Units
    OBVIOUS
  <2> HIDE DEF u
  <2> QED  BY <1>6, <1>7, <2>1, <2>2 DEF Injection, Surjection, IsInjective
<1>9. Cardinality(Units) = Cardinality(I)
  BY <1>8, FS_Injection
<1> QED
  BY <1>9 DEF Total, Units

-----------------------------------------------------------------------------
(* What the collectors make of a drive.                                    *)

\* A drive as it can be: more than its type.
Sound(d) ==
  /\ d \in Drives
  /\ Len(d.log) <= d.logSize /\ Len(d.runs) <= RunSlots
  /\ d.active # 0 /\ d.slots[d.active] \in {"rev1", "rev2"}
  /\ d.next # 0 => d.slots[d.next] \in {"rev1", "rev2"}
  /\ \A f \in DOMAIN Fields : d.fields[f] \in {None} \cup 0..Power[Fields[f]] - 1

LEMMA SizesAreNumbers == \A n \in 1..256 : n \in Nat \ {0}
OBVIOUS

\* The facts about a drive that the proofs below cite.
LEMMA SoundFacts ==
  ASSUME NEW d, Sound(d)
  PROVE  /\ d.refuses \in Refusals /\ d.logSize \in 1..256 /\ d.logSize \in Nat \ {0}
         /\ d.log \in Seq(Statuses) /\ Len(d.log) \in Nat /\ Len(d.log) <= d.logSize
         /\ DOMAIN d.log = 1..Len(d.log)
         /\ \A i \in 1..Len(d.log) : d.log[i] \in Statuses
         /\ d.total \in Nat
         /\ d.runs \in Seq(Outcomes) /\ Len(d.runs) \in Nat /\ Len(d.runs) <= RunSlots
         /\ DOMAIN d.runs = 1..Len(d.runs)
         /\ \A i \in 1..Len(d.runs) : d.runs[i] \in [result : 0..14, code : 0..15]
         /\ d.testing \in 0..15
         /\ d.active \in 1..7 /\ d.next \in 0..7
         /\ d.slots \in [1..7 -> Texts]
         /\ d.slots[d.active] \in {"rev1", "rev2"}
         /\ d.next # 0 => d.slots[d.next] \in {"rev1", "rev2"}
         /\ \A f \in DOMAIN Fields : d.fields[f] \in {None} \cup 0..Power[Fields[f]] - 1
<1>1. d.logSize \in LogSizes /\ d.runs \in Seq(Outcomes) /\ d.log \in Seq(Statuses)
  BY DEF Sound, Drives
<1>2. d.logSize \in 1..256
  BY <1>1, LogPagesAssumption
<1>2a. d.logSize \in Nat \ {0}
  BY <1>2, SizesAreNumbers, Zenon
<1>3. \A i \in 1..Len(d.runs) : d.runs[i] \in [result : 0..14, code : 0..15]
  BY <1>1, LogPagesAssumption
<1>4. Len(d.log) \in Nat /\ Len(d.runs) \in Nat /\ DOMAIN d.runs = 1..Len(d.runs)
      /\ DOMAIN d.log = 1..Len(d.log)
  BY <1>1
<1>5. \A i \in 1..Len(d.log) : d.log[i] \in Statuses
  BY <1>1
<1>6. /\ d.refuses \in Refusals /\ d.total \in Nat /\ d.testing \in 0..15
      /\ d.active \in 0..7 /\ d.next \in 0..7 /\ d.slots \in [1..7 -> Texts]
  BY DEF Sound, Drives
<1>7. d.active \in 1..7
  BY <1>6 DEF Sound
<1> QED
  BY <1>1, <1>2, <1>2a, <1>3, <1>4, <1>5, <1>6, <1>7 DEF Sound

LEMMA NamesAre ==
  /\ Names["0x02"] = {"critical_warning_flag"}
  /\ Names["0x03"] = {"firmware_slot_info", "firmware_active_slot", "firmware_next_slot"}
  /\ Names["0x01"] = {"error_log_retained_entries"}
  /\ Names["0x06"] = {"self_test_running", "self_test_results", "self_test_last_result"}
  /\ Names["0xc0"] = {f[1] : f \in DOMAIN Fields}
BY StagesAre DEF Names

\* No two collectors have a metric name in common (the assumption says it for the
\* names that the constants give).
LEMMA NamesDiffer ==
  /\ \A p \in Pages : "supported" \notin Names[p]
  /\ \A p, q \in Pages : p # q => Names[p] \cap Names[q] = {}
<1>1. \A p \in Pages : p # "0xc0" => Names[p] \cap Names["0xc0"] = {}
  BY LogPagesAssumption
<1>2. "supported" \notin Names["0xc0"]
  BY LogPagesAssumption, NamesAre
<1> QED
  BY <1>1, <1>2, NamesAre, StagesAre

\* errinfo.go:30: the entries that were read are those the log holds, as many as
\* were asked for.
LEMMA ErrorInfoDecoded ==
  ASSUME NEW d, Sound(d), NEW entries \in Nat
  PROVE  ParseErrorInfo(ErrorInfoPage(d, entries)) =
           [i \in 1..Min({Len(d.log), entries}) |-> <<d.log[i].sct, d.log[i].sc>>]
<1> DEFINE page == ErrorInfoPage(d, entries)
           n == Min({Len(d.log), entries})
<1>1. Len(d.log) \in Nat /\ \A i \in 1..Len(d.log) : d.log[i] \in Statuses
  BY SoundFacts
<1>2. n \in Nat /\ \A i \in 1..entries : i <= Len(d.log) <=> i \in 1..n
  BY <1>1, MinOfTwo
<1>2a. 1..n \subseteq 1..entries /\ 1..n \subseteq 1..Len(d.log)
  <2>1. n <= entries /\ n <= Len(d.log)
    BY <1>1, MinOfTwo
  <2> HIDE DEF n
  <2> QED  BY <1>1, <1>2, <2>1
<1>3. Len(page) = entries
  BY DEF ErrorInfoPage
<1>4. \A i \in 1..n : /\ page[i] = [word |-> statusWord(d.log[i], 1), count |-> 1]
                      /\ ~allZero(page[i])
                      /\ entryType(page[i].word) = d.log[i].sct
                      /\ entryCode(page[i].word) = d.log[i].sc
  <2> TAKE i \in 1..n
  <2>1. page[i] = [word |-> statusWord(d.log[i], 1), count |-> 1]
    BY <1>1, <1>2, <1>2a DEF ErrorInfoPage
  <2>2. d.log[i] \in Statuses
    BY <1>1, <1>2a
  <2> HIDE DEF page
  <2>3. page[i].word = statusWord(d.log[i], 1) /\ page[i].count = 1
    BY <2>1
  <2>4. /\ entryType(page[i].word) = d.log[i].sct
        /\ entryCode(page[i].word) = d.log[i].sc
    BY <2>2, <2>3, StatusReadAlike
  <2> QED  BY <2>1, <2>3, <2>4 DEF allZero
<1>5. \A i \in 1..entries : i \notin 1..n => allZero(page[i])
  BY <1>1, <1>2 DEF ErrorInfoPage, allZero
<1> HIDE DEF page, n
<1>6. {j \in 1..Len(page) : ~allZero(page[j])} = 1..n
  BY <1>2a, <1>3, <1>4, <1>5
<1>7. ParseErrorInfo(page) = [i \in 1..n |-> <<entryType(page[i].word), entryCode(page[i].word)>>]
  BY <1>6 DEF ParseErrorInfo
<1> QED
  BY <1>4, <1>7 DEF page, n

\* selftest.go:18: the runs that were read are those the drive keeps.
LEMMA SelfTestDecoded ==
  ASSUME NEW d, Sound(d)
  PROVE  LET runs == ParseSelfTest(SelfTestPage(d))
         IN  /\ DOMAIN runs = 1..Len(d.runs)
             /\ \A i \in 1..Len(d.runs) :
                  runs[i].result = d.runs[i].result /\ runs[i].code = d.runs[i].code
<1> DEFINE page == SelfTestPage(d)
           runs == ParseSelfTest(page)
           n == Len(d.runs)
<1>1. n \in Nat /\ n <= RunSlots /\ RunSlots \in Nat
      /\ \A i \in 1..n : d.runs[i] \in [result : 0..14, code : 0..15]
  BY SoundFacts, LogPagesAssumption
<1>2. /\ Len(page.entries) = RunSlots
      /\ \A i \in 1..RunSlots :
           page.entries[i] = IF i <= n THEN 16 * d.runs[i].code + d.runs[i].result ELSE 15
  BY <1>1 DEF SelfTestPage
<1> HIDE DEF page
<1>3. \A i \in 1..n : /\ page.entries[i] % 16 = d.runs[i].result
                      /\ page.entries[i] \div 16 = d.runs[i].code
                      /\ page.entries[i] % 16 # resultUnused
  <2> TAKE i \in 1..n
  <2>1. PICK r \in 0..14, c \in 0..15 : r = d.runs[i].result /\ c = d.runs[i].code
    <3>1. d.runs[i] \in [result : 0..14, code : 0..15]
      BY <1>1
    <3> QED  BY <3>1
  <2>2. i \in 1..RunSlots
    BY <1>1
  <2>3. page.entries[i] = 16 * c + r
    BY <1>1, <1>2, <2>1, <2>2
  <2>4. page.entries[i] % 16 = r /\ page.entries[i] \div 16 = c
    BY <2>3
  <2>5. r # resultUnused
    BY DEF resultUnused
  <2> HIDE DEF runs, n
  <2> QED  BY <2>1, <2>4, <2>5, Zenon
<1>4. \A i \in 1..RunSlots : i \notin 1..n => page.entries[i] % 16 = resultUnused
  BY <1>1, <1>2 DEF resultUnused
<1>5. {j \in 1..Len(page.entries) : page.entries[j] % 16 # resultUnused} = 1..n
  BY <1>1, <1>2, <1>3, <1>4
<1>6. runs = [i \in 1..n |->
        [result |-> page.entries[i] % 16, code |-> page.entries[i] \div 16]]
  BY <1>5 DEF ParseSelfTest
<1> HIDE DEF runs, n
<1>7. /\ DOMAIN runs = 1..n
      /\ \A i \in 1..n : runs[i].result = d.runs[i].result /\ runs[i].code = d.runs[i].code
  BY <1>3, <1>6
<1> QED
  BY <1>7 DEF runs, page, n

\* fwslot.go:40: the two slot numbers of the first byte, and the texts of the slots.
LEMMA FirmwareDecoded ==
  ASSUME NEW d, Sound(d)
  PROVE  LET f == ParseFirmwareSlots(FirmwareSlotPage(d))
         IN  /\ f.active = d.active /\ f.next = d.next
             /\ \A i \in 1..7 : f.revisions[i] = asciiField(d.slots[i])
<1>1. d.active \in 0..7 /\ d.next \in 0..7
  BY SoundFacts
<1>2. PICK a \in 0..7, n \in 0..7 : a = d.active /\ n = d.next
  BY <1>1
<1>3. (a + 16 * n) % 8 = a /\ ((a + 16 * n) \div 16) % 8 = n
  OBVIOUS
<1>4. FirmwareSlotPage(d).byte0 = a + 16 * n /\ FirmwareSlotPage(d).slots = d.slots
  BY <1>2 DEF FirmwareSlotPage
<1> QED
  BY <1>2, <1>3, <1>4 DEF ParseFirmwareSlots

\* ocp.go: each field is the drive's value, or absent.
LEMMA OCPDecoded ==
  ASSUME NEW d, Sound(d)
  PROVE  LET p == ParseOCPSmart(OCPSmartPage(d))
         IN  /\ DOMAIN p = DOMAIN Fields
             /\ \A f \in DOMAIN Fields :
                  p[f] = IF d.fields[f] \in {None, Power[Fields[f]] - 1} THEN None
                         ELSE d.fields[f]
<1> DEFINE bytes(f) == [i \in 1..Fields[f] |-> IF d.fields[f] = None THEN Base - 1
                             ELSE (d.fields[f] \div Power[i - 1]) % Base]
           p == ParseOCPSmart(OCPSmartPage(d))
<1>1. OCPSmartPage(d) = [f \in DOMAIN Fields |-> bytes(f)]
  BY DEF OCPSmartPage
<1>2. \A f \in DOMAIN Fields :
        readOptUint(bytes(f)) = IF d.fields[f] \in {None, Power[Fields[f]] - 1} THEN None
                                ELSE d.fields[f]
  <2> TAKE f \in DOMAIN Fields
  <2>1. Fields[f] \in 1..16 /\ d.fields[f] \in {None} \cup 0..Power[Fields[f]] - 1
    BY SoundFacts, LogPagesAssumption
  <2> QED  BY <2>1, FieldReadBack
<1> HIDE DEF bytes
<1>3. p = [f \in DOMAIN Fields |-> readOptUint(bytes(f))]
  BY <1>1 DEF ParseOCPSmart
<1> HIDE DEF p
<1>4. DOMAIN p = DOMAIN Fields /\ \A f \in DOMAIN Fields : p[f] = readOptUint(bytes(f))
  BY <1>3
<1>5. /\ DOMAIN p = DOMAIN Fields
      /\ \A f \in DOMAIN Fields :
           p[f] = IF d.fields[f] \in {None, Power[Fields[f]] - 1} THEN None
                  ELSE d.fields[f]
  BY <1>2, <1>4
<1> QED  BY <1>5 DEF p

LEMMA CountType ==
  ASSUME NEW s, NEW n \in Nat, DOMAIN s \subseteq 1..n, NEW key
  PROVE  Count(s, key) \in Nat
<1>1. IsFiniteSet({i \in DOMAIN s : s[i] = key})
  <2>1. IsFiniteSet(1..n)
    BY FS_Interval
  <2> QED  BY <2>1, FS_Subset
<1> QED
  BY <1>1, FS_CardinalityType DEF Count

\* Told of one page: its names, numbers for values, and no series twice.
Tidy(told, p) ==
  /\ \A m \in told : m[1][1] \in Names[p] /\ m[2] \in Nat
  /\ \A m, n \in told : m[1] = n[1] => m = n

\* Collector by collector: the values are numbers, the names its own, and no
\* series comes twice.
LEMMA SmartTidy ==
  ASSUME NEW d
  PROVE  Tidy(collectSmart(d), "0x02")
BY NamesAre DEF Tidy, collectSmart, Metric

LEMMA OCPTidy ==
  ASSUME NEW d, Sound(d)
  PROVE  Tidy(collectOCP(d), "0xc0")
<1> DEFINE p == ParseOCPSmart(OCPSmartPage(d))
<1>1. DOMAIN p = DOMAIN Fields
  BY OCPDecoded
<1>2. \A f \in DOMAIN Fields : p[f] # None => p[f] \in Nat
  <2> TAKE f \in DOMAIN Fields
  <2>1. p[f] = IF d.fields[f] \in {None, Power[Fields[f]] - 1} THEN None
               ELSE d.fields[f]
    BY OCPDecoded
  <2>2. d.fields[f] \in {None} \cup 0..Power[Fields[f]] - 1
    BY SoundFacts
  <2>3. Power[Fields[f]] \in Nat
    <3>1. Fields[f] \in 1..16
      BY LogPagesAssumption
    <3> QED  BY <3>1, PowerIs
  <2> HIDE DEF p
  <2> QED  BY <2>1, <2>2, <2>3
<1> HIDE DEF p
<1>3. collectOCP(d) = {Metric(f, p[f], f) : f \in {g \in DOMAIN p : p[g] # None}}
  BY DEF collectOCP, p
<1> QED
  BY <1>1, <1>2, <1>3, NamesAre DEF Tidy, Metric

LEMMA FirmwareTidy ==
  ASSUME NEW d, Sound(d)
  PROVE  Tidy(collectFirmwareSlots(d), "0x03")
<1> DEFINE f == ParseFirmwareSlots(FirmwareSlotPage(d))
<1>1. f.active \in Nat /\ f.next \in Nat
  BY SoundFacts, FirmwareDecoded
<1> HIDE DEF f
<1>2. collectFirmwareSlots(d) =
        {Metric(<<"firmware_slot_info", s[1], s[2]>>, 1, s) : s \in PopulatedSlots(f)}
        \cup {Metric(<<"firmware_active_slot">>, f.active, 0)}
        \cup (IF f.next = 0 THEN {} ELSE {Metric(<<"firmware_next_slot">>, f.next, 0)})
  BY DEF collectFirmwareSlots, f
<1>3. \A s \in PopulatedSlots(f) : s = <<s[1], s[2]>>
  <2> TAKE s \in PopulatedSlots(f)
  <2>1. PICK i \in 1..7 : s = <<i, f.revisions[i]>>
    BY DEF PopulatedSlots
  <2> QED  BY <2>1
<1> HIDE DEF f
<1>4. ASSUME NEW m \in collectFirmwareSlots(d)
      PROVE  \/ \E s \in PopulatedSlots(f) :
                  s = <<s[1], s[2]>> /\ m = <<<<"firmware_slot_info", s[1], s[2]>>, 1, s>>
             \/ m = <<<<"firmware_active_slot">>, f.active, 0>>
             \/ m = <<<<"firmware_next_slot">>, f.next, 0>>
  BY <1>2, <1>3 DEF Metric
<1> QED
  BY <1>1, <1>4, NamesAre DEF Tidy

LEMMA ErrorInfoTidy ==
  ASSUME NEW d, Sound(d), NEW entries \in Nat
  PROVE  Tidy(collectErrorInfo(d, entries), "0x01")
<1> DEFINE s == ParseErrorInfo(ErrorInfoPage(d, entries))
           n == Min({Len(d.log), entries})
<1>0. s = [i \in 1..n |-> <<d.log[i].sct, d.log[i].sc>>]
  BY ErrorInfoDecoded
<1>1. n \in Nat /\ DOMAIN s = 1..n
  <2>1. Len(d.log) \in Nat
    BY SoundFacts
  <2>2. n \in Nat
    BY <2>1, MinOfTwo
  <2> HIDE DEF s, n
  <2> QED  BY <1>0, <2>2
<1>2. \A i \in DOMAIN s : s[i] = <<s[i][1], s[i][2]>>
  <2> HIDE DEF s, n
  <2> QED  BY <1>0
<1> HIDE DEF s, n
<1>3. \A k \in Range(s) : k = <<k[1], k[2]>> /\ Count(s, k) \in Nat
  BY <1>1, <1>2, CountType DEF Range
<1>4. collectErrorInfo(d, entries) =
        {Metric(<<"error_log_retained_entries", k[1], k[2]>>, Count(s, k), k) : k \in Range(s)}
  BY DEF collectErrorInfo, s
<1> QED
  BY <1>3, <1>4, NamesAre DEF Tidy, Metric

\* The two tables give a name to a name only if it is the same one, so grouping
\* under the names puts nothing under a label twice.
LEMMA SelfTestNamed ==
  ASSUME NEW r
  PROVE  /\ selfTestResultName(selfTestKey(r)[1]) = selfTestKey(r)[1]
         /\ selfTestCodeName(selfTestKey(r)[2]) = selfTestKey(r)[2]
         /\ selfTestKey(r) = <<selfTestKey(r)[1], selfTestKey(r)[2]>>
BY DEF selfTestKey, selfTestResultName, selfTestCodeName

LEMMA SelfTestTidy ==
  ASSUME NEW d, Sound(d)
  PROVE  Tidy(collectSelfTest(d), "0x06")
<1> DEFINE page == SelfTestPage(d)
           runs == ParseSelfTest(page)
           keys == [i \in DOMAIN runs |-> selfTestKey(runs[i])]
           last == runs[Min(DOMAIN runs)].result
<1>1. /\ DOMAIN runs = 1..Len(d.runs) /\ Len(d.runs) \in Nat
      /\ \A i \in 1..Len(d.runs) : runs[i].result = d.runs[i].result
      /\ \A i \in 1..Len(d.runs) : d.runs[i] \in [result : 0..14, code : 0..15]
  BY SelfTestDecoded, SoundFacts
<1> HIDE DEF page, runs
<1>2. DOMAIN keys = 1..Len(d.runs) /\ \A i \in DOMAIN keys : keys[i] = selfTestKey(runs[i])
  BY <1>1
<1> HIDE DEF keys
<1>3. \A k \in Range(keys) : /\ selfTestResultName(k[1]) = k[1] /\ selfTestCodeName(k[2]) = k[2]
                             /\ k = <<k[1], k[2]>> /\ Count(keys, k) \in Nat
  <2> TAKE k \in Range(keys)
  <2>1. PICK i \in DOMAIN keys : k = selfTestKey(runs[i])
    BY <1>2 DEF Range
  <2>2. Count(keys, k) \in Nat
    BY <1>1, <1>2, CountType
  <2> QED  BY <2>1, <2>2, SelfTestNamed
<1>4. DOMAIN runs # {} => last \in Nat
  <2> SUFFICES ASSUME DOMAIN runs # {}  PROVE last \in Nat
    OBVIOUS
  <2>1. 1 \in DOMAIN runs /\ \A i \in DOMAIN runs : 1 <= i
    BY <1>1
  <2>2. Min(DOMAIN runs) \in DOMAIN runs
    BY <2>1 DEF Min
  <2>3. PICK i : i = Min(DOMAIN runs)
    OBVIOUS
  <2>4. i \in 1..Len(d.runs) /\ last = runs[i].result
    BY <1>1, <2>2, <2>3
  <2>5. last = d.runs[i].result /\ d.runs[i] \in [result : 0..14, code : 0..15]
    BY <1>1, <2>4
  <2> HIDE DEF last
  <2> QED  BY <2>5
<1>5. collectSelfTest(d) =
        {Metric(<<"self_test_running">>, IF page.running # 0 THEN 1 ELSE 0, 0)}
        \cup {Metric(<<"self_test_results", selfTestResultName(k[1]),
                      selfTestCodeName(k[2])>>, Count(keys, k), k) : k \in Range(keys)}
        \cup (IF DOMAIN runs = {} THEN {}
              ELSE {Metric(<<"self_test_last_result">>, last, 0)})
  BY DEF collectSelfTest, page, runs, keys
<1> HIDE DEF last
<1>6. ASSUME NEW m \in collectSelfTest(d)
      PROVE  \/ m = <<<<"self_test_running">>, IF page.running # 0 THEN 1 ELSE 0, 0>>
             \/ \E k \in Range(keys) :
                  k = <<k[1], k[2]>> /\ m = <<<<"self_test_results", k[1], k[2]>>, Count(keys, k), k>>
             \/ DOMAIN runs # {} /\ m = <<<<"self_test_last_result">>, last, 0>>
  BY <1>3, <1>5 DEF Metric
<1>7. \A m \in collectSelfTest(d) : m[1][1] \in Names["0x06"] /\ m[2] \in Nat
  BY <1>3, <1>4, <1>6, NamesAre
<1>8. \A m, n \in collectSelfTest(d) : m[1] = n[1] => m = n
  BY <1>6
<1> QED
  BY <1>7, <1>8 DEF Tidy

LEMMA CollectedTidy ==
  ASSUME NEW p \in Pages, NEW d, Sound(d), NEW entries \in Nat
  PROVE  Tidy(Collected(p, d, entries), p)
BY StagesAre, SmartTidy, OCPTidy, FirmwareTidy, ErrorInfoTidy, SelfTestTidy DEF Collected

-----------------------------------------------------------------------------
(* What happens to a drive.                                                *)

\* A circular log that is not over-full does not become so, and moves on by one.
LEMMA PushIs ==
  ASSUME NEW S, NEW log \in Seq(S), NEW e \in S, NEW size \in Nat \ {0},
         Len(log) <= size, NEW new, new = Push(e, log, size)
  PROVE  /\ new \in Seq(S)
         /\ Len(new) \in Nat /\ Len(new) <= size /\ Len(new) >= Len(log)
         /\ Len(log) < size => Len(new) = Len(log) + 1
         /\ \A i \in 1..Len(new) : new[i] = IF i = 1 THEN e ELSE log[i - 1]
<1> DEFINE all == <<e>> \o log
           n == Min({Len(log) + 1, size})
<1>1. n \in Nat /\ n <= size /\ n <= Len(log) + 1 /\ n >= Len(log)
      /\ (Len(log) < size => n = Len(log) + 1)
  BY MinOfTwo
<1>2. /\ all \in Seq(S) /\ Len(all) = Len(log) + 1
      /\ \A i \in 1..Len(log) + 1 : all[i] = IF i = 1 THEN e ELSE log[i - 1]
  OBVIOUS
<1>3. new = SubSeq(all, 1, n)
  BY DEF Push
<1> HIDE DEF all, n
<1>4. /\ new \in Seq(S) /\ Len(new) = n
      /\ \A i \in 1..n : new[i] = all[i]
  BY <1>1, <1>2, <1>3
<1> QED
  BY <1>1, <1>2, <1>4

LEMMA PrefixIs ==
  ASSUME NEW S, NEW q \in Seq(S), NEW n \in Nat
  PROVE  LET p == SubSeq(q, 1, Min({Len(q), n}))
         IN  p \in Seq(S) /\ Len(p) <= n
<1> DEFINE k == Min({Len(q), n})
           p == SubSeq(q, 1, k)
<1>1. Len(q) \in Nat /\ \A i \in 1..Len(q) : q[i] \in S
  OBVIOUS
<1>2. k \in Nat /\ k <= n /\ k <= Len(q)
  BY <1>1, MinOfTwo
<1> HIDE DEF k
<1>3. p = [i \in 1..k |-> q[i]]
  BY <1>1, <1>2
<1> HIDE DEF p
<1>4. p \in Seq(S) /\ Len(p) = k
  BY <1>1, <1>2, <1>3
<1>5. p \in Seq(S) /\ Len(p) <= n
  BY <1>2, <1>4
<1> QED
  BY <1>5 DEF p, k

\* A drive later on: what it is stays, and its error log may have grown by one.
Ages(d, e) ==
  /\ e.refuses = d.refuses /\ e.logSize = d.logSize
  /\ \/ e.log = d.log /\ e.total = d.total
     \/ \E s \in Statuses : e.log = Push(s, d.log, d.logSize) /\ e.total = d.total + 1

LEMMA RefusalsAre ==
  ASSUME NEW d, Sound(d), NEW p \in DOMAIN d.refuses
  PROVE  d.refuses[p] \in Statuses
BY SoundFacts, LogPagesAssumption

\* An entry is added to the error log of a drive that can be.
LEMMA LoggedIs ==
  ASSUME NEW d, Sound(d), NEW s \in Statuses
  PROVE  Sound(Logged(d, s)) /\ Ages(d, Logged(d, s)) /\ Logged(d, s).total = d.total + 1
         /\ Logged(d, s).log = Push(s, d.log, d.logSize)
<1> DEFINE e == Logged(d, s)
           new == Push(s, d.log, d.logSize)
<1>1. d \in Drives
  BY DEF Sound
<1>2. e = [d EXCEPT !.log = new, !.total = d.total + 1]
  BY <1>1 DEF Logged, Drives
<1>3. d.log \in Seq(Statuses) /\ Len(d.log) <= d.logSize /\ d.logSize \in 1..256
      /\ d.total \in Nat
  BY SoundFacts
<1>4. new \in Seq(Statuses) /\ Len(new) <= d.logSize
  <2>1. d.logSize \in Nat \ {0}
    BY SoundFacts
  <2> QED  BY <1>3, <2>1, PushIs
<1> HIDE DEF e, new
<1>5. /\ e \in Drives
      /\ e.log = new /\ e.total = d.total + 1
      /\ e.refuses = d.refuses /\ e.logSize = d.logSize /\ e.runs = d.runs
      /\ e.active = d.active /\ e.next = d.next /\ e.slots = d.slots /\ e.fields = d.fields
  <2>1. d.total + 1 \in Nat
    BY <1>3
  <2>2. PICK n \in Nat : n = d.total + 1
    BY <2>1
  <2> QED  BY <1>1, <1>2, <1>4, <2>2 DEF Drives
<1>6. Sound(e)
  BY <1>4, <1>5 DEF Sound
<1>7. Ages(d, e)
  BY <1>5 DEF Ages, new
<1> QED
  BY <1>5, <1>6, <1>7 DEF e, new

LEMMA OutcomesAre == Outcomes \subseteq [result : 0..14, code : 0..15]
BY LogPagesAssumption

\* Whatever happens to a drive, it stays one that can be, and ages.
LEMMA LifeStep ==
  ASSUME Sound(drive), Life
  PROVE  Sound(drive') /\ Ages(drive, drive') /\ UNCHANGED <<polls, poll>>
         /\ events < MaxEvents /\ events' = events + 1
<1>0. drive \in Drives
  BY DEF Sound
<1>1. CASE LogError
  BY <1>1, LoggedIs, LogPagesAssumption DEF LogError, Happen
<1>2. CASE StartTest
  <2>1. PICK o \in Outcomes : Happen([drive EXCEPT !.testing = o.code])
    BY <1>2 DEF StartTest
  <2>2. o.code \in 0..15
    BY OutcomesAre
  <2> QED  BY <1>0, <2>1, <2>2 DEF Happen, Sound, Ages, Drives
<1>3. CASE EndTest
  <2>1. PICK o \in Outcomes :
          Happen([drive EXCEPT !.testing = 0, !.runs = Push(o, @, RunSlots)])
    BY <1>3 DEF EndTest
  <2> DEFINE new == Push(o, drive.runs, RunSlots)
  <2>2. new \in Seq(Outcomes) /\ Len(new) <= RunSlots
    BY SoundFacts, PushIs, LogPagesAssumption
  <2>3. Happen([drive EXCEPT !.testing = 0, !.runs = new])
    BY <1>0, <2>1 DEF Drives
  <2> HIDE DEF new
  <2>4. PICK none \in 0..15 : none = 0
    OBVIOUS
  <2>4a. drive' = [drive EXCEPT !.testing = none, !.runs = new]
    BY <2>3, <2>4 DEF Happen
  <2>5. /\ drive' \in Drives
        /\ drive'.log = drive.log /\ drive'.total = drive.total
        /\ drive'.refuses = drive.refuses /\ drive'.logSize = drive.logSize
        /\ drive'.runs = new /\ drive'.active = drive.active /\ drive'.next = drive.next
        /\ drive'.slots = drive.slots /\ drive'.fields = drive.fields
    BY <1>0, <2>2, <2>4a DEF Drives
  <2> QED  BY <2>2, <2>3, <2>5 DEF Happen, Sound, Ages
<1>4. CASE Download
  <2>1. PICK n \in 2..3, r \in {"rev1", "rev2"} :
          Happen([drive EXCEPT !.slots[n] = r, !.next = n])
    BY <1>4 DEF Download
  <2> DEFINE new == [drive.slots EXCEPT ![n] = r]
  <2>2. Happen([drive EXCEPT !.slots = new, !.next = n])
    BY <1>0, <2>1 DEF Drives
  <2>3. drive.slots \in [1..7 -> Texts] /\ drive.active \in 1..7
    BY SoundFacts
  <2>4. new \in [1..7 -> Texts] /\ new[drive.active] \in {"rev1", "rev2"}
        /\ new[n] \in {"rev1", "rev2"}
    BY <2>3 DEF Texts, Sound
  <2> HIDE DEF new
  <2>5. n \in 0..7
    OBVIOUS
  <2>5a. drive' = [drive EXCEPT !.slots = new, !.next = n]
    BY <2>2 DEF Happen
  <2>6. /\ drive' \in Drives
        /\ drive'.log = drive.log /\ drive'.total = drive.total
        /\ drive'.refuses = drive.refuses /\ drive'.logSize = drive.logSize
        /\ drive'.runs = drive.runs /\ drive'.active = drive.active /\ drive'.next = n
        /\ drive'.slots = new /\ drive'.fields = drive.fields
    BY <1>0, <2>4, <2>5, <2>5a DEF Drives
  <2> QED  BY <2>2, <2>4, <2>6 DEF Happen, Sound, Ages
<1>5. CASE Reset
  <2>1. drive.next # 0 /\ Happen([drive EXCEPT !.active = drive.next, !.next = 0])
    BY <1>5 DEF Reset
  <2>2. PICK a \in 0..7, none \in 0..7 : a = drive.next /\ none = 0
    BY SoundFacts
  <2>2a. drive' = [drive EXCEPT !.active = a, !.next = none]
    BY <2>1, <2>2 DEF Happen
  <2>3. /\ drive' \in Drives
        /\ drive'.log = drive.log /\ drive'.total = drive.total
        /\ drive'.refuses = drive.refuses /\ drive'.logSize = drive.logSize
        /\ drive'.runs = drive.runs /\ drive'.active = drive.next /\ drive'.next = 0
        /\ drive'.slots = drive.slots /\ drive'.fields = drive.fields
    BY <1>0, <2>2, <2>2a DEF Drives
  <2> QED  BY <2>1, <2>3 DEF Happen, Sound, Ages
<1>6. CASE Warn
  <2>1. PICK new \in SUBSET (0..7) : Happen([drive EXCEPT !.warnings = new])
    BY <1>6, LogPagesAssumption DEF Warn
  <2> QED  BY <1>0, <2>1 DEF Happen, Sound, Ages, Drives
<1>7. CASE Overheat
  <2> DEFINE v == Throttle(drive.fields[Throttled])
             new == [drive.fields EXCEPT ![Throttled] = v]
  <2>1. drive.fields[Throttled] # None /\ Happen([drive EXCEPT !.fields = new])
    BY <1>0, <1>7 DEF Overheat, Drives
  <2>2. Throttled \in DOMAIN Fields /\ Fields[Throttled] \in 1..16
    BY LogPagesAssumption
  <2>3. v \in 0..Power[Fields[Throttled]] - 1
    <3>1. drive.fields[Throttled] \in Nat
      BY <2>1, <2>2, SoundFacts
    <3>2. Base \in Nat \ {0, 1}
      BY LogPagesAssumption
    <3>3. v \in Nat /\ v <= Base - 1
      BY <3>1, <3>2, MinOfTwo DEF Throttle
    <3>4. PICK k \in Nat \ {0} : k = Power[Fields[Throttled] - 1]
      BY <2>2, PowerIs
    <3>5. Power[Fields[Throttled]] = Base * k
      BY <2>2, <3>4, PowerIs
    <3>6. Base <= Base * k
      BY <3>2
    <3> HIDE DEF v
    <3> QED  BY <3>2, <3>3, <3>5, <3>6
  <2>4. drive.fields \in [DOMAIN Fields -> Nat \cup {None}]
    BY <1>0 DEF Drives
  <2> HIDE DEF v
  <2>5. new \in [DOMAIN Fields -> Nat \cup {None}]
        /\ \A f \in DOMAIN Fields : new[f] \in {None} \cup 0..Power[Fields[f]] - 1
    BY <2>2, <2>3, <2>4, SoundFacts
  <2> HIDE DEF new
  <2> QED  BY <1>0, <2>1, <2>5 DEF Happen, Sound, Ages, Drives
<1> QED
  BY <1>1, <1>2, <1>3, <1>4, <1>5, <1>6, <1>7 DEF Life

LEMMA UsedAreSound ==
  ASSUME NEW d \in UsedDrives
  PROVE  Sound(d)
<1>1. PICK r \in Refusals, n \in LogSizes, past \in Pasts,
           implemented \in {{}, DOMAIN Fields} : d = UsedDrive(r, n, past, implemented)
  BY DEF UsedDrives
<1> DEFINE log == SubSeq(past.log, 1, Min({Len(past.log), n}))
           runs == SubSeq(past.runs, 1, Min({Len(past.runs), RunSlots}))
           slots == [i \in 1..7 |-> IF i = 1 THEN "rev1" ELSE IF i = 7 THEN "blanks"
                                    ELSE "zeros"]
           fields == [f \in DOMAIN Fields |->
                        IF f \in implemented THEN Power[Fields[f]] - 2 ELSE None]
<1>2. past.log \in Seq(Statuses) /\ past.runs \in Seq(Outcomes)
      /\ n \in 1..256 /\ RunSlots \in Nat \ {0}
  BY LogPagesAssumption
<1>3. log \in Seq(Statuses) /\ Len(log) <= n /\ Len(past.log) \in Nat
  <2>1. n \in Nat
    BY <1>2, SizesAreNumbers
  <2>2. Len(past.log) \in Nat
    BY <1>2
  <2> QED  BY <1>2, <2>1, <2>2, PrefixIs
<1>4. runs \in Seq(Outcomes) /\ Len(runs) <= RunSlots
  BY <1>2, PrefixIs
<1>5. slots \in [1..7 -> Texts] /\ slots[1] = "rev1"
  BY DEF Texts
<1>6. \A f \in DOMAIN Fields : Power[Fields[f]] - 2 \in 0..Power[Fields[f]] - 1
  <2> TAKE f \in DOMAIN Fields
  <2>1. Fields[f] \in 1..16 /\ Base \in Nat \ {0, 1}
    BY LogPagesAssumption
  <2>2. PICK k \in Nat \ {0} : k = Power[Fields[f] - 1]
    BY <2>1, PowerIs
  <2>3. Power[Fields[f]] = Base * k
    BY <2>1, <2>2, PowerIs
  <2>4. 2 <= Base * k
    BY <2>1
  <2> QED  BY <2>1, <2>3, <2>4
<1>7. fields \in [DOMAIN Fields -> Nat \cup {None}]
      /\ \A f \in DOMAIN Fields : fields[f] \in {None} \cup 0..Power[Fields[f]] - 1
  BY <1>6
<1> HIDE DEF log, runs, slots, fields
<1>8. d = [refuses |-> r, logSize |-> n, log |-> log, total |-> Len(past.log),
           runs |-> runs, testing |-> 0, warnings |-> {}, active |-> 1, next |-> 0,
           slots |-> slots, fields |-> fields]
  BY <1>1 DEF UsedDrive, log, runs, slots, fields
<1>9. d \in Drives
  BY <1>3, <1>4, <1>5, <1>7, <1>8 DEF Drives
<1> QED
  BY <1>3, <1>4, <1>5, <1>7, <1>8, <1>9 DEF Sound

-----------------------------------------------------------------------------
(* The inductive invariant.                                                *)

\* The collector of this page has had its turn.
Passed(p) == \E i \in 1..6 : i < stage /\ Stages[i] = p

Bounded ==
  /\ Sound(drive)
  /\ events \in 0..MaxEvents /\ polls \in 0..MaxPolls /\ stage \in 1..7
  /\ errorLogEntries \in {0, drive.logSize}
  /\ pageUnsupported \subseteq Pages

\* Each page found the drive as it once was.
SeenBefore ==
  \A p \in DOMAIN seen :
    /\ p \in Pages \cup {"identify"} /\ Passed(p)
    /\ Sound(seen[p])
    /\ seen[p].refuses = drive.refuses /\ seen[p].logSize = drive.logSize
    /\ seen[p].total <= drive.total

\* Every metric is a collector's, and of what its page held.
Emitted ==
  \A m \in metrics : \E p \in Pages :
    /\ Passed(p)
    /\ \/ m \in {Supported(p, 0), Supported(p, 1)}
       \/ Answered(p) /\ m \in Collected(p, seen[p], Arriving)

\* A page that was read is told in full, and not as absent.
Complete ==
  \A p \in Pages : Supported(p, 1) \in metrics =>
    /\ p \in DOMAIN seen /\ Supported(p, 0) \notin metrics
    /\ Collected(p, seen[p], Arriving) \subseteq metrics

\* The drive d has the refusal of page p in its log, under the number "at",
\* unless it was pushed out.
Recorded(d, at, p) ==
  /\ p \in DOMAIN d.refuses
  /\ decodeStatus(statusField(d.refuses[p])) = "unsupported"
  /\ d.total - at >= 1
  /\ d.total - at <= d.logSize =>
       d.total - at <= Len(d.log) /\ d.log[d.total - at] = d.refuses[p]

\* The pages that this poll asked for and that were refused.
RefusedNow == {p \in Pages \cap DOMAIN seen : Supported(p, 0) \in metrics}

OnRecord ==
  /\ \A p \in RefusedNow :
       /\ Recorded(drive, seen[p].total, p)
       /\ Answered("0x01") /\ seen["0x01"].total > seen[p].total
            => Recorded(seen["0x01"], seen[p].total, p)
  /\ \A p, q \in RefusedNow : seen[p].total = seen[q].total => p = q

IInv == Bounded /\ SeenBefore /\ Emitted /\ Complete /\ OnRecord

\* passthru.go:66: a read of the error log gets all of it, or the newest eight
\* entries.
LEMMA WholeLogArrives ==
  ASSUME Sound(drive), errorLogEntries \in {0, drive.logSize}
  PROVE  logPageSizeFits(PageSize("0x01")) /\ Arriving = Reach /\ Reach \in Nat
<1>1. PICK elpe \in 0..255 : Reach = elpe + 1
  <2>1. drive.logSize \in 1..256 /\ 8 \in 1..256
    BY SoundFacts
  <2>2. Reach \in 1..256
    BY <2>1 DEF Reach, FallbackEntries
  <2>3. \A n \in 1..256 : n - 1 \in 0..255 /\ n = (n - 1) + 1
    OBVIOUS
  <2> QED  BY <2>2, <2>3
<1>2. PageSize("0x01") = (elpe + 1) * ErrorInfoEntrySize
  <2>1. PageSize("0x01") = ErrorInfoEntrySize * Reach
    <3>1. errorLogEntries > 0 => errorLogEntries = drive.logSize
      OBVIOUS
    <3> QED  BY <3>1 DEF PageSize, Reach
  <2> QED  BY <1>1, <2>1 DEF ErrorInfoEntrySize
<1> DEFINE size == (elpe + 1) * ErrorInfoEntrySize
<1>3. logPageSizeFits(size)
  BY WholeLogFits
<1>4. size = 64 * elpe + 64 /\ size \in Nat /\ size <= 4 * Word
  BY WordAssumption DEF ErrorInfoEntrySize
<1>5. PageID["0x01"] = 1 /\ 1 \in 0..255
  BY StagesAre DEF PageID
<1> HIDE DEF size
<1>6. transferred(logPageCDW10(1, size)) = size
  BY <1>3, <1>4, <1>5, SizeArrives
<1>7. size \div ErrorInfoEntrySize = elpe + 1
  BY <1>4 DEF ErrorInfoEntrySize
<1> QED
  BY <1>1, <1>2, <1>3, <1>5, <1>6, <1>7 DEF Arriving, size

LEMMA SupportedApart ==
  /\ \A p, q, x, y : Supported(p, x) = Supported(q, y) => p = q /\ x = y
  /\ \A p, x : Supported(p, x)[1][1] = "supported" /\ Supported(p, x)[2] = x
BY DEF Supported, Metric

\* No collector's metric is mistaken for the one that tells of the page itself.
LEMMA NotSupported ==
  ASSUME NEW p \in Pages, NEW d, Sound(d), NEW entries \in Nat, NEW q, NEW x
  PROVE  Supported(q, x) \notin Collected(p, d, entries)
<1>1. Tidy(Collected(p, d, entries), p)
  BY CollectedTidy
<1> QED
  BY <1>1, SupportedApart, NamesDiffer DEF Tidy

LEMMA AgesFacts ==
  ASSUME NEW d, NEW e, Sound(d), Ages(d, e)
  PROVE  e.refuses = d.refuses /\ e.logSize = d.logSize /\ d.total <= e.total
<1>1. d.total \in Nat
  BY SoundFacts
<1>2. e.total = d.total \/ e.total = d.total + 1
  BY DEF Ages
<1>3. d.total <= e.total
  BY <1>1, <1>2
<1> QED  BY <1>3 DEF Ages

LEMMA LogGrows ==
  ASSUME NEW d, Sound(d), NEW s \in Statuses, NEW l, l = Push(s, d.log, d.logSize)
  PROVE  /\ Len(l) \in Nat /\ Len(l) >= Len(d.log)
         /\ Len(d.log) < d.logSize => Len(l) = Len(d.log) + 1
         /\ \A j \in 1..Len(l) : l[j] = IF j = 1 THEN s ELSE d.log[j - 1]
<1>1. d.log \in Seq(Statuses) /\ d.logSize \in Nat \ {0} /\ Len(d.log) <= d.logSize
  BY SoundFacts
<1>2. PICK log, size : log = d.log /\ size = d.logSize
  OBVIOUS
<1>3. log \in Seq(Statuses) /\ size \in Nat \ {0} /\ Len(log) <= size /\ l = Push(s, log, size)
  BY <1>1, <1>2
<1>4. /\ Len(l) \in Nat /\ Len(l) >= Len(log)
      /\ Len(log) < size => Len(l) = Len(log) + 1
      /\ \A j \in 1..Len(l) : l[j] = IF j = 1 THEN s ELSE log[j - 1]
  BY <1>3, PushIs
<1> QED  BY <1>2, <1>4, Zenon

\* What was recorded stays so, while the log grows over it.
LEMMA StaysRecorded ==
  ASSUME NEW d, NEW e, Sound(d), Sound(e), Ages(d, e), NEW at \in Nat, NEW p,
         Recorded(d, at, p)
  PROVE  Recorded(e, at, p)
<1> DEFINE i == d.total - at
<1>1. CASE e.log = d.log /\ e.total = d.total
  BY <1>1 DEF Recorded, Ages
<1>2. ASSUME NEW s \in Statuses, e.log = Push(s, d.log, d.logSize), e.total = d.total + 1
      PROVE  Recorded(e, at, p)
  <2>1. /\ d.log \in Seq(Statuses) /\ Len(d.log) \in Nat /\ Len(d.log) <= d.logSize
        /\ d.logSize \in Nat \ {0} /\ d.total \in Nat
    BY SoundFacts
  <2>2. i \in Nat /\ i >= 1 /\ (i <= d.logSize => i <= Len(d.log) /\ d.log[i] = d.refuses[p])
    BY <2>1 DEF Recorded
  <2>3. e.total - at = i + 1
    BY <1>2, <2>1
  <2>4. /\ Len(e.log) \in Nat /\ Len(e.log) >= Len(d.log)
        /\ Len(d.log) < d.logSize => Len(e.log) = Len(d.log) + 1
        /\ \A j \in 1..Len(e.log) : e.log[j] = IF j = 1 THEN s ELSE d.log[j - 1]
    BY <1>2, LogGrows
  <2>5. ASSUME i + 1 <= d.logSize
        PROVE  i + 1 <= Len(e.log) /\ e.log[i + 1] = d.refuses[p]
    <3>1. i <= Len(d.log) /\ d.log[i] = d.refuses[p]
      BY <2>1, <2>2, <2>5
    <3> HIDE DEF i
    <3>2. i + 1 <= Len(e.log)
      BY <2>1, <2>2, <2>4, <2>5, <3>1
    <3>3. i + 1 \in 1..Len(e.log) /\ i + 1 # 1 /\ (i + 1) - 1 = i
      BY <2>2, <2>4, <3>2
    <3>4. e.log[i + 1] = d.log[i]
      BY <2>4, <3>3
    <3> QED  BY <3>1, <3>2, <3>4
  <2> HIDE DEF i
  <2> QED  BY <2>2, <2>3, <2>5 DEF Recorded, Ages
<1> QED  BY <1>1, <1>2 DEF Ages

\* An entry that is new is recorded.
LEMMA NowRecorded ==
  ASSUME NEW d, Sound(d), NEW p \in DOMAIN d.refuses,
         decodeStatus(statusField(d.refuses[p])) = "unsupported"
  PROVE  Recorded(Logged(d, d.refuses[p]), d.total, p)
<1> DEFINE s == d.refuses[p]
           e == Logged(d, s)
<1>1. s \in Statuses
  BY RefusalsAre
<1>2. e.total = d.total + 1 /\ e.log = Push(s, d.log, d.logSize) /\ Ages(d, e)
  BY <1>1, LoggedIs
<1>3. /\ d.log \in Seq(Statuses) /\ Len(d.log) <= d.logSize /\ Len(d.log) \in Nat
      /\ d.logSize \in Nat \ {0} /\ d.total \in Nat
  BY SoundFacts
<1> HIDE DEF s, e
<1>4. /\ Len(e.log) \in Nat /\ Len(e.log) >= Len(d.log)
      /\ Len(d.log) < d.logSize => Len(e.log) = Len(d.log) + 1
      /\ \A j \in 1..Len(e.log) : e.log[j] = IF j = 1 THEN s ELSE d.log[j - 1]
  BY <1>1, <1>2, LogGrows
<1>5. 1 <= Len(e.log) /\ e.log[1] = s
  BY <1>3, <1>4
<1>6. e.total - d.total = 1
  BY <1>2, <1>3
<1> QED
  BY <1>2, <1>5, <1>6 DEF Recorded, Ages, s, e

LEMMA BoundedFacts ==
  ASSUME Bounded
  PROVE  /\ Arriving \in Nat /\ Arriving = Reach
         /\ Sound(drive) /\ drive.total \in Nat
         /\ stage \in 1..7 /\ Len(Stages) = 6
BY WholeLogArrives, SoundFacts, StagesAre DEF Bounded

\* The collector whose turn it is has told nothing yet.
LEMMA Fresh ==
  ASSUME IInv, NEW p \in Pages \cup {"identify"}, Turn(p)
  PROVE  /\ ~Passed(p) /\ p \notin DOMAIN seen
         /\ Passed(p)' /\ \A q : Passed(q) => Passed(q)'
         /\ \A q \in DOMAIN seen : q # p
         /\ \A x : Supported(p, x) \notin metrics
         /\ stage \in 1..6 /\ stage' \in 1..7
<1>1. stage \in 1..6 /\ Stages[stage] = p /\ stage' = stage + 1 /\ stage' \in 1..7
  <2>1. stage <= Len(Stages) /\ Stages[stage] = p /\ stage' = stage + 1
    BY DEF Turn
  <2>2. stage \in 1..7 /\ Len(Stages) = 6
    BY BoundedFacts DEF IInv
  <2> QED  BY <2>1, <2>2
<1>2. ~Passed(p)
  BY <1>1, StagesAre DEF Passed
<1>3. p \notin DOMAIN seen
  BY <1>2 DEF IInv, SeenBefore
<1>4. Passed(p)' /\ \A q : Passed(q) => Passed(q)'
  BY <1>1 DEF Passed
<1>5. ASSUME NEW x, Supported(p, x) \in metrics  PROVE FALSE
  <2>1. PICK q \in Pages :
          /\ Passed(q)
          /\ \/ Supported(p, x) \in {Supported(q, 0), Supported(q, 1)}
             \/ Answered(q) /\ Supported(p, x) \in Collected(q, seen[q], Arriving)
    BY <1>5 DEF IInv, Emitted
  <2>2. q # p
    BY <1>2, <2>1
  <2>3. Answered(q) /\ Supported(p, x) \in Collected(q, seen[q], Arriving)
    BY <2>1, <2>2, SupportedApart
  <2>4. Sound(seen[q]) /\ Arriving \in Nat
    BY <2>3, BoundedFacts DEF Answered, IInv, SeenBefore
  <2> QED  BY <2>3, <2>4, NotSupported
<1> QED
  BY <1>1, <1>2, <1>3, <1>4, <1>5

LEMMA InitInv == Init => IInv
<1> SUFFICES ASSUME Init PROVE IInv
  OBVIOUS
<1>1. Sound(drive)
  BY UsedAreSound DEF Init
<1>2. Bounded
  BY <1>1, StagesAre, LogPagesAssumption DEF Init, Bounded
<1>3. DOMAIN seen = {}
  BY DEF Init
<1> QED
  BY <1>2, <1>3 DEF Init, IInv, SeenBefore, Emitted, Complete, OnRecord, RefusedNow

\* One lemma per action: it preserves the invariant.
LEMMA LifeInv ==
  ASSUME IInv, Life
  PROVE  IInv'
<1>1. /\ Sound(drive) /\ Sound(drive') /\ Ages(drive, drive')
      /\ UNCHANGED <<polls, poll>> /\ events < MaxEvents /\ events' = events + 1
  BY LifeStep DEF IInv, Bounded
<1>2. /\ drive'.refuses = drive.refuses /\ drive'.logSize = drive.logSize
      /\ drive.total <= drive'.total /\ drive.total \in Nat /\ drive'.total \in Nat
  BY <1>1, AgesFacts, SoundFacts
<1>3. /\ stage' = stage /\ errorLogEntries' = errorLogEntries
      /\ pageUnsupported' = pageUnsupported /\ metrics' = metrics /\ seen' = seen
  BY <1>1 DEF poll
<1>4. Arriving' = Arriving
  BY <1>3 DEF Arriving, PageSize
<1>5. Bounded'
  BY <1>1, <1>2, <1>3, LogPagesAssumption DEF IInv, Bounded
<1>6. SeenBefore'
  <2> SUFFICES ASSUME NEW p \in DOMAIN seen
               PROVE  /\ p \in Pages \cup {"identify"} /\ Passed(p)
                      /\ Sound(seen[p])
                      /\ seen[p].refuses = drive'.refuses /\ seen[p].logSize = drive'.logSize
                      /\ seen[p].total <= drive'.total
    BY <1>3 DEF SeenBefore, Passed
  <2>1. /\ p \in Pages \cup {"identify"} /\ Passed(p) /\ Sound(seen[p])
        /\ seen[p].refuses = drive.refuses /\ seen[p].logSize = drive.logSize
        /\ seen[p].total <= drive.total
    BY DEF IInv, SeenBefore
  <2>2. seen[p].total \in Nat
    BY <2>1, SoundFacts
  <2> QED  BY <1>2, <2>1, <2>2
<1>7. Emitted'
  BY <1>3, <1>4 DEF IInv, Emitted, Passed, Answered
<1>8. Complete'
  BY <1>3, <1>4 DEF IInv, Complete
<1>9. OnRecord'
  <2>1. RefusedNow' = RefusedNow /\ (Answered("0x01")' <=> Answered("0x01"))
    BY <1>3 DEF RefusedNow, Answered
  <2>2. ASSUME NEW p \in RefusedNow  PROVE Recorded(drive', seen[p].total, p)
    <3>1. p \in DOMAIN seen /\ Recorded(drive, seen[p].total, p)
      BY DEF RefusedNow, IInv, OnRecord
    <3>2. seen[p].total \in Nat
      BY <3>1, SoundFacts DEF IInv, SeenBefore
    <3> QED  BY <1>1, <3>1, <3>2, StaysRecorded
  <2> QED  BY <1>3, <2>1, <2>2 DEF IInv, OnRecord
<1> QED
  BY <1>5, <1>6, <1>7, <1>8, <1>9 DEF IInv

LEMMA StartPollInv ==
  ASSUME IInv, StartPoll
  PROVE  IInv'
<1>1. Bounded'
  BY LogPagesAssumption DEF StartPoll, IInv, Bounded
<1>2. DOMAIN seen' = {} /\ metrics' = {}
  BY DEF StartPoll
<1> QED
  BY <1>1, <1>2 DEF IInv, SeenBefore, Emitted, Complete, OnRecord, RefusedNow

LEMMA IdentifyInv ==
  ASSUME IInv, Identify
  PROVE  IInv'
<1>1. Turn("identify") /\ Asked("identify") /\ UNCHANGED <<pageUnsupported, metrics>>
  BY DEF Identify
<1>2. stage = 1
  BY <1>1, StagesAre, BoundedFacts DEF Turn, IInv
<1>3. \A p : ~Passed(p)
  BY <1>2 DEF Passed
<1>4. DOMAIN seen = {} /\ metrics = {}
  BY <1>3 DEF IInv, SeenBefore, Emitted
<1>5. DOMAIN seen' = {"identify"} /\ seen'["identify"] = drive
  BY <1>1, <1>4 DEF Asked
<1>6. Sound(drive) /\ Sound(drive') /\ Ages(drive, drive')
      /\ errorLogEntries' \in {errorLogEntries, drive.logSize}
  <2>1. Sound(drive)
    BY DEF IInv, Bounded
  <2>2. CASE "identify" \notin DOMAIN drive.refuses
    <3>1. drive' = drive
      BY <2>2 DEF Identify
    <3>2. ParseIdentify(IdentifyPage(drive)).errorLogEntries = drive.logSize
      BY <2>1, SoundFacts DEF ParseIdentify, IdentifyPage
    <3>3. errorLogEntries' \in {errorLogEntries, drive.logSize}
      BY <2>2, <3>2 DEF Identify
    <3> QED  BY <2>1, <3>1, <3>3 DEF Ages
  <2>3. CASE "identify" \in DOMAIN drive.refuses
    <3>1. drive' = Logged(drive, drive.refuses["identify"]) /\ UNCHANGED errorLogEntries
      BY <2>3 DEF Identify
    <3>2. drive.refuses["identify"] \in Statuses
      BY <2>1, <2>3, RefusalsAre
    <3> QED  BY <2>1, <3>1, <3>2, LoggedIs
  <2> QED  BY <2>2, <2>3
<1>7. /\ drive'.refuses = drive.refuses /\ drive'.logSize = drive.logSize
      /\ drive.total <= drive'.total
  BY <1>6, AgesFacts
<1>8. Bounded'
  BY <1>1, <1>2, <1>6, <1>7 DEF IInv, Bounded, Turn
<1>9. SeenBefore'
  <2>1. Passed("identify")'
    BY <1>1, Fresh
  <2> QED  BY <1>5, <1>6, <1>7, <2>1 DEF SeenBefore
<1> QED
  BY <1>1, <1>4, <1>8, <1>9 DEF IInv, Emitted, Complete, OnRecord, RefusedNow

LEMMA SkipInv ==
  ASSUME IInv, NEW p \in Pages, Skip(p)
  PROVE  IInv'
<1>1. /\ Turn(p) /\ metrics' = metrics \cup {Supported(p, 0)}
      /\ drive' = drive /\ errorLogEntries' = errorLogEntries
      /\ pageUnsupported' = pageUnsupported /\ seen' = seen
  BY DEF Skip
<1>2. /\ Passed(p)' /\ \A q : Passed(q) => Passed(q)'
      /\ \A q \in DOMAIN seen : q # p
      /\ stage' \in 1..7
  BY <1>1, Fresh
<1>3. Arriving' = Arriving
  BY <1>1 DEF Arriving, PageSize
<1>4. /\ \A q : Supported(q, 1) \in metrics' <=> Supported(q, 1) \in metrics
      /\ \A q \in DOMAIN seen : Supported(q, 0) \in metrics' <=> Supported(q, 0) \in metrics
      /\ \A q : Answered(q)' <=> Answered(q)
  <2>1. /\ \A q : Supported(q, 1) \in metrics' <=> Supported(q, 1) \in metrics
        /\ \A q \in DOMAIN seen : Supported(q, 0) \in metrics' <=> Supported(q, 0) \in metrics
    BY <1>1, <1>2, SupportedApart
  <2> QED  BY <1>1, <2>1 DEF Answered, Supported
<1>5. Bounded'
  BY <1>1, <1>2 DEF IInv, Bounded, Turn
<1>6. SeenBefore'
  BY <1>1, <1>2 DEF IInv, SeenBefore
<1>7. Emitted'
  <2> SUFFICES ASSUME NEW m \in metrics'
               PROVE  \E q \in Pages :
                        /\ Passed(q)'
                        /\ \/ m \in {Supported(q, 0), Supported(q, 1)}
                           \/ Answered(q)' /\ m \in Collected(q, seen'[q], Arriving')
    BY DEF Emitted, Supported, Metric
  <2>1. CASE m \in metrics
    BY <1>1, <1>2, <1>3, <1>4, <2>1 DEF IInv, Emitted
  <2>2. CASE m = Supported(p, 0)
    BY <1>2, <2>2
  <2> QED  BY <1>1, <2>1, <2>2
<1>8. Complete'
  <2> SUFFICES ASSUME NEW q \in Pages, Supported(q, 1) \in metrics'
               PROVE  /\ q \in DOMAIN seen' /\ Supported(q, 0) \notin metrics'
                      /\ Collected(q, seen'[q], Arriving') \subseteq metrics'
    BY DEF Complete, Supported, Metric
  <2> QED  BY <1>1, <1>3, <1>4 DEF IInv, Complete
<1>9. RefusedNow' = RefusedNow
  <2>1. RefusedNow' = {q \in Pages \cap DOMAIN seen' : Supported(q, 0) \in metrics'}
    BY DEF RefusedNow, Supported, Metric
  <2> QED  BY <1>1, <1>4, <2>1 DEF RefusedNow
<1>10. OnRecord'
  BY <1>1, <1>4, <1>9 DEF IInv, OnRecord
<1> QED
  BY <1>5, <1>6, <1>7, <1>8, <1>10 DEF IInv

LEMMA AskedIs ==
  ASSUME NEW p, Asked(p)
  PROVE  /\ DOMAIN seen' = DOMAIN seen \cup {p} /\ seen'[p] = drive
         /\ \A q \in DOMAIN seen : q # p => seen'[q] = seen[q]
BY DEF Asked

LEMMA ReadInv ==
  ASSUME IInv, NEW p \in Pages, Read(p)
  PROVE  IInv'
<1>1. /\ Turn(p) /\ Asked(p)
      /\ metrics' = metrics \cup {Supported(p, 1)} \cup Collected(p, drive, Arriving)
      /\ drive' = drive /\ errorLogEntries' = errorLogEntries
      /\ pageUnsupported' = pageUnsupported
  BY DEF Read
<1>2. /\ Passed(p)' /\ \A q : Passed(q) => Passed(q)'
      /\ \A q \in DOMAIN seen : q # p
      /\ \A x : Supported(p, x) \notin metrics
      /\ p \notin DOMAIN seen /\ stage' \in 1..7
  BY <1>1, Fresh
<1>3. /\ DOMAIN seen' = DOMAIN seen \cup {p} /\ seen'[p] = drive
      /\ \A q \in DOMAIN seen : seen'[q] = seen[q]
  BY <1>1, <1>2, AskedIs
<1>4. Arriving' = Arriving
  BY <1>1 DEF Arriving, PageSize
<1>5. Sound(drive) /\ Arriving \in Nat /\ drive.total \in Nat
  BY BoundedFacts DEF IInv
<1>6. \A q, x : Supported(q, x) \in metrics' <=>
                  \/ Supported(q, x) \in metrics
                  \/ Supported(q, x) = Supported(p, 1)
  BY <1>1, <1>5, NotSupported
<1>7. /\ \A q : q # p => (Supported(q, 1) \in metrics' <=> Supported(q, 1) \in metrics)
      /\ \A q : Supported(q, 0) \in metrics' <=> Supported(q, 0) \in metrics
      /\ Supported(p, 1) \in metrics' /\ Supported(p, 0) \notin metrics'
  BY <1>2, <1>6, SupportedApart
<1>8. /\ Answered(p)'
      /\ \A q : q # p => (Answered(q)' <=> Answered(q))
  BY <1>3, <1>7 DEF Answered, Supported
<1>9. Bounded'
  BY <1>1, <1>2 DEF IInv, Bounded, Turn
<1>10. SeenBefore'
  <2> SUFFICES ASSUME NEW q \in DOMAIN seen'
               PROVE  /\ q \in Pages \cup {"identify"} /\ Passed(q)'
                      /\ Sound(seen'[q])
                      /\ seen'[q].refuses = drive.refuses /\ seen'[q].logSize = drive.logSize
                      /\ seen'[q].total <= drive.total
    BY <1>1 DEF SeenBefore
  <2>1. CASE q = p
    BY <1>2, <1>3, <1>5, <2>1
  <2>2. CASE q \in DOMAIN seen
    BY <1>2, <1>3, <2>2 DEF IInv, SeenBefore
  <2> QED  BY <1>3, <2>1, <2>2
<1>11. Emitted'
  <2> SUFFICES ASSUME NEW m \in metrics'
               PROVE  \E q \in Pages :
                        /\ Passed(q)'
                        /\ \/ m \in {Supported(q, 0), Supported(q, 1)}
                           \/ Answered(q)' /\ m \in Collected(q, seen'[q], Arriving')
    BY DEF Emitted, Supported, Metric
  <2>1. CASE m \in metrics
    <3>1. PICK q \in Pages :
            /\ Passed(q)
            /\ \/ m \in {Supported(q, 0), Supported(q, 1)}
               \/ Answered(q) /\ m \in Collected(q, seen[q], Arriving)
      BY <2>1 DEF IInv, Emitted
    <3>2. Answered(q) => q \in DOMAIN seen /\ Answered(q)'
      BY <1>2, <1>8 DEF Answered
    <3> QED  BY <1>2, <1>3, <1>4, <3>1, <3>2
  <2>2. CASE m = Supported(p, 1) \/ m \in Collected(p, drive, Arriving)
    BY <1>2, <1>3, <1>4, <1>8, <2>2
  <2> QED  BY <1>1, <2>1, <2>2
<1>12. Complete'
  <2> SUFFICES ASSUME NEW q \in Pages, Supported(q, 1) \in metrics'
               PROVE  /\ q \in DOMAIN seen' /\ Supported(q, 0) \notin metrics'
                      /\ Collected(q, seen'[q], Arriving') \subseteq metrics'
    BY DEF Complete, Supported, Metric
  <2>1. CASE q = p
    BY <1>1, <1>3, <1>4, <1>7, <2>1
  <2>2. CASE q # p
    <3>1. /\ q \in DOMAIN seen /\ Supported(q, 0) \notin metrics
          /\ Collected(q, seen[q], Arriving) \subseteq metrics
      BY <1>7, <2>2 DEF IInv, Complete
    <3> QED  BY <1>1, <1>3, <1>4, <1>7, <3>1
  <2> QED  BY <2>1, <2>2
<1>13. RefusedNow' = RefusedNow
  <2>1. RefusedNow' = {q \in Pages \cap DOMAIN seen' : Supported(q, 0) \in metrics'}
    BY DEF RefusedNow, Supported, Metric
  <2> QED  BY <1>3, <1>7, <2>1 DEF RefusedNow
<1>14. OnRecord'
  <2>1. \A q \in RefusedNow : q \in DOMAIN seen /\ seen'[q] = seen[q]
    BY <1>3 DEF RefusedNow
  <2>2. ASSUME NEW q \in RefusedNow
        PROVE  /\ Recorded(drive, seen[q].total, q)
               /\ Answered("0x01")' /\ seen'["0x01"].total > seen[q].total
                    => Recorded(seen'["0x01"], seen[q].total, q)
    <3>1. /\ Recorded(drive, seen[q].total, q)
          /\ Answered("0x01") /\ seen["0x01"].total > seen[q].total
               => Recorded(seen["0x01"], seen[q].total, q)
      BY DEF IInv, OnRecord
    <3>2. CASE p = "0x01"
      BY <1>3, <3>1, <3>2
    <3>3. CASE p # "0x01"
      <4>1. Answered("0x01")' => Answered("0x01") /\ seen'["0x01"] = seen["0x01"]
        BY <1>3, <1>8, <3>3 DEF Answered
      <4> QED  BY <3>1, <4>1
    <3> QED  BY <3>2, <3>3
  <2>3. \A q, r \in RefusedNow : seen'[q].total = seen'[r].total => q = r
    BY <2>1 DEF IInv, OnRecord
  <2> QED  BY <1>1, <1>13, <2>1, <2>2, <2>3 DEF OnRecord
<1> QED
  BY <1>9, <1>10, <1>11, <1>12, <1>14 DEF IInv

LEMMA RefusedInv ==
  ASSUME IInv, NEW p \in Pages, Refused(p)
  PROVE  IInv'
<1> DEFINE absent == decodeStatus(statusField(drive.refuses[p])) = "unsupported"
<1>1. /\ Turn(p) /\ Asked(p) /\ p \in DOMAIN drive.refuses
      /\ drive' = Logged(drive, drive.refuses[p])
      /\ errorLogEntries' = errorLogEntries
  BY DEF Refused
<1>1a. \/ /\ absent
          /\ pageUnsupported' = pageUnsupported \cup {p}
          /\ metrics' = metrics \cup {Supported(p, 0)}
       \/ pageUnsupported' = pageUnsupported /\ metrics' = metrics
  BY DEF Refused
<1> HIDE DEF absent
<1>2. /\ Passed(p)' /\ \A q : Passed(q) => Passed(q)'
      /\ \A q \in DOMAIN seen : q # p
      /\ \A x : Supported(p, x) \notin metrics
      /\ p \notin DOMAIN seen /\ stage' \in 1..7
  BY <1>1, Fresh
<1>3. /\ DOMAIN seen' = DOMAIN seen \cup {p} /\ seen'[p] = drive
      /\ \A q \in DOMAIN seen : seen'[q] = seen[q]
  BY <1>1, <1>2, AskedIs
<1>4. Arriving' = Arriving
  BY <1>1 DEF Arriving, PageSize
<1>5. Sound(drive) /\ drive.total \in Nat
  BY BoundedFacts DEF IInv
<1>6. /\ Sound(drive') /\ Ages(drive, drive') /\ drive'.total = drive.total + 1
      /\ drive'.refuses = drive.refuses /\ drive'.logSize = drive.logSize
  <2>1. drive.refuses[p] \in Statuses
    BY <1>1, <1>5, RefusalsAre
  <2> QED  BY <1>1, <1>5, <2>1, LoggedIs, AgesFacts
<1>7. /\ metrics \subseteq metrics' /\ metrics' \subseteq metrics \cup {Supported(p, 0)}
      /\ \A q : Supported(q, 1) \in metrics' <=> Supported(q, 1) \in metrics
      /\ \A q : q # p => (Supported(q, 0) \in metrics' <=> Supported(q, 0) \in metrics)
      /\ Supported(p, 0) \in metrics' => absent
  BY <1>1a, <1>2, SupportedApart
<1>8. /\ ~Answered(p) /\ ~Answered(p)'
      /\ \A q : Answered(q)' <=> Answered(q)
  BY <1>2, <1>3, <1>7 DEF Answered, Supported
<1>9. Bounded'
  <2>1. pageUnsupported' \subseteq Pages
    BY <1>1a DEF IInv, Bounded
  <2> QED  BY <1>1, <1>2, <1>6, <2>1 DEF IInv, Bounded, Turn
<1>10. SeenBefore'
  <2> SUFFICES ASSUME NEW q \in DOMAIN seen'
               PROVE  /\ q \in Pages \cup {"identify"} /\ Passed(q)'
                      /\ Sound(seen'[q])
                      /\ seen'[q].refuses = drive'.refuses
                      /\ seen'[q].logSize = drive'.logSize
                      /\ seen'[q].total <= drive'.total
    BY DEF SeenBefore
  <2>1. CASE q = p
    BY <1>2, <1>3, <1>5, <1>6, <2>1
  <2>2. CASE q \in DOMAIN seen
    <3>1. /\ q \in Pages \cup {"identify"} /\ Passed(q) /\ Sound(seen[q])
          /\ seen[q].refuses = drive.refuses /\ seen[q].logSize = drive.logSize
          /\ seen[q].total <= drive.total
      BY <2>2 DEF IInv, SeenBefore
    <3>2. seen[q].total \in Nat
      BY <3>1, SoundFacts
    <3> QED  BY <1>2, <1>3, <1>5, <1>6, <2>2, <3>1, <3>2
  <2> QED  BY <1>3, <2>1, <2>2
<1>11. Emitted'
  <2> SUFFICES ASSUME NEW m \in metrics'
               PROVE  \E q \in Pages :
                        /\ Passed(q)'
                        /\ \/ m \in {Supported(q, 0), Supported(q, 1)}
                           \/ Answered(q)' /\ m \in Collected(q, seen'[q], Arriving')
    BY DEF Emitted, Supported, Metric
  <2>1. CASE m \in metrics
    <3>1. PICK q \in Pages :
            /\ Passed(q)
            /\ \/ m \in {Supported(q, 0), Supported(q, 1)}
               \/ Answered(q) /\ m \in Collected(q, seen[q], Arriving)
      BY <2>1 DEF IInv, Emitted
    <3>2. Answered(q) => q \in DOMAIN seen /\ Answered(q)'
      BY <1>8 DEF Answered
    <3> QED  BY <1>2, <1>3, <1>4, <3>1, <3>2
  <2>2. CASE m = Supported(p, 0)
    BY <1>2, <2>2
  <2> QED  BY <1>7, <2>1, <2>2
<1>12. Complete'
  <2> SUFFICES ASSUME NEW q \in Pages, Supported(q, 1) \in metrics'
               PROVE  /\ q \in DOMAIN seen' /\ Supported(q, 0) \notin metrics'
                      /\ Collected(q, seen'[q], Arriving') \subseteq metrics'
    BY DEF Complete, Supported, Metric
  <2>1. /\ q \in DOMAIN seen /\ Supported(q, 0) \notin metrics
        /\ Collected(q, seen[q], Arriving) \subseteq metrics
    BY <1>7 DEF IInv, Complete
  <2> QED  BY <1>2, <1>3, <1>4, <1>7, <2>1
<1>13. /\ RefusedNow' \subseteq RefusedNow \cup {p} /\ p \notin RefusedNow
       /\ p \in RefusedNow' => absent
  <2>1. RefusedNow' = {q \in Pages \cap DOMAIN seen' : Supported(q, 0) \in metrics'}
    BY DEF RefusedNow, Supported, Metric
  <2> QED  BY <1>2, <1>3, <1>7, <2>1 DEF RefusedNow
<1>14. OnRecord'
  <2>1. \A q \in RefusedNow : /\ q \in DOMAIN seen /\ seen'[q] = seen[q]
                              /\ seen[q].total \in Nat /\ seen[q].total < drive.total
                              /\ Recorded(drive, seen[q].total, q)
    <3> TAKE q \in RefusedNow
    <3>1. q \in DOMAIN seen /\ seen'[q] = seen[q]
      BY <1>3 DEF RefusedNow
    <3>2. seen[q].total \in Nat
      BY <3>1, SoundFacts DEF IInv, SeenBefore
    <3>3. Recorded(drive, seen[q].total, q)
      BY DEF IInv, OnRecord
    <3> QED  BY <1>5, <3>1, <3>2, <3>3 DEF Recorded
  <2>2. Answered("0x01")' => Answered("0x01") /\ seen'["0x01"] = seen["0x01"]
    BY <1>2, <1>3, <1>8 DEF Answered
  <2>3. ASSUME NEW q \in RefusedNow
        PROVE  /\ Recorded(drive', seen'[q].total, q)
               /\ Answered("0x01")' /\ seen'["0x01"].total > seen'[q].total
                    => Recorded(seen'["0x01"], seen'[q].total, q)
    <3>1. Recorded(drive', seen'[q].total, q)
      BY <1>5, <1>6, <2>1, StaysRecorded
    <3>2. Answered("0x01")' /\ seen'["0x01"].total > seen'[q].total
            => Recorded(seen'["0x01"], seen'[q].total, q)
      BY <2>1, <2>2 DEF IInv, OnRecord
    <3> QED  BY <3>1, <3>2
  <2>4. ASSUME p \in RefusedNow'
        PROVE  /\ Recorded(drive', seen'[p].total, p)
               /\ ~(Answered("0x01")' /\ seen'["0x01"].total > seen'[p].total)
    <3>1. Recorded(drive', drive.total, p)
      BY <1>1, <1>5, <1>13, <2>4, NowRecorded DEF absent
    <3>2. Answered("0x01") => seen["0x01"].total <= drive.total /\ seen["0x01"].total \in Nat
      BY SoundFacts DEF Answered, IInv, SeenBefore
    <3> QED  BY <1>3, <1>5, <2>2, <3>1, <3>2
  <2>5. \A q, r \in RefusedNow' : seen'[q].total = seen'[r].total => q = r
    <3>1. \A q, r \in RefusedNow : seen'[q].total = seen'[r].total => q = r
      BY <2>1 DEF IInv, OnRecord
    <3>2. \A q \in RefusedNow : seen'[q].total # seen'[p].total
      BY <1>3, <1>5, <2>1
    <3> QED  BY <1>13, <3>1, <3>2
  <2> QED  BY <1>13, <2>3, <2>4, <2>5 DEF OnRecord
<1> QED
  BY <1>9, <1>10, <1>11, <1>12, <1>14 DEF IInv

\* The invariant is one: of every run, for any drives, statuses, widths and bounds.
THEOREM Invariant == Spec => []IInv
<1>1. ASSUME IInv, [Next]_vars  PROVE IInv'
  <2>1. CASE Life
    BY <1>1, <2>1, LifeInv
  <2>2. CASE StartPoll
    BY <1>1, <2>2, StartPollInv
  <2>3. CASE Identify
    BY <1>1, <2>3, IdentifyInv
  <2>4. CASE \E p \in Pages : Skip(p) \/ Read(p) \/ Refused(p)
    BY <1>1, <2>4, SkipInv, ReadInv, RefusedInv
  <2>5. CASE Rest \/ UNCHANGED vars
    <3>1. UNCHANGED vars
      BY <2>5 DEF Rest
    <3> QED
      BY <1>1, <3>1 DEF vars, poll, IInv, Bounded, SeenBefore, Passed, Emitted, Answered,
         Complete, OnRecord, RefusedNow, Arriving, PageSize
  <2> QED  BY <1>1, <2>1, <2>2, <2>3, <2>4, <2>5 DEF Next
<1> QED
  BY InitInv, <1>1, PTL DEF Spec

\* What an answered page tells under one of its names is what its collector made
\* of the drive, and nothing else.
LEMMA AnsweredIs ==
  ASSUME IInv, NEW p \in Pages, Answered(p)
  PROVE  /\ Sound(seen[p]) /\ Arriving \in Nat /\ p \in DOMAIN seen
         /\ Tidy(Collected(p, seen[p], Arriving), p)
         /\ \A name \in Names[p] :
              Told(name) = {<<m[1], m[2]>> :
                m \in {n \in Collected(p, seen[p], Arriving) : n[1][1] = name}}
<1>1. p \in DOMAIN seen /\ Sound(seen[p]) /\ Arriving \in Nat
  BY BoundedFacts DEF Answered, IInv, SeenBefore
<1>2. Tidy(Collected(p, seen[p], Arriving), p)
  BY <1>1, CollectedTidy
<1>3. Collected(p, seen[p], Arriving) \subseteq metrics
  BY DEF Answered, Supported, IInv, Complete
<1>4. ASSUME NEW m \in metrics, m[1][1] \in Names[p]
      PROVE  m \in Collected(p, seen[p], Arriving)
  <2>1. PICK q \in Pages :
          \/ m \in {Supported(q, 0), Supported(q, 1)}
          \/ Answered(q) /\ m \in Collected(q, seen[q], Arriving)
    BY DEF IInv, Emitted
  <2>2. Answered(q) /\ m \in Collected(q, seen[q], Arriving)
    BY <1>4, <2>1, SupportedApart, NamesDiffer
  <2>3. m[1][1] \in Names[q]
    <3>1. Sound(seen[q])
      BY <2>2 DEF Answered, IInv, SeenBefore
    <3> QED  BY <1>1, <2>2, <3>1, CollectedTidy DEF Tidy
  <2>4. q = p
    BY <1>4, <2>3, NamesDiffer
  <2> QED  BY <2>2, <2>4
<1>5. ASSUME NEW name \in Names[p]
      PROVE  Told(name) = {<<m[1], m[2]>> :
                m \in {n \in Collected(p, seen[p], Arriving) : n[1][1] = name}}
  <2>1. {n \in metrics : n[1][1] = name}
          = {n \in Collected(p, seen[p], Arriving) : n[1][1] = name}
    BY <1>3, <1>4
  <2> QED  BY <2>1 DEF Told
<1> QED
  BY <1>1, <1>2, <1>5

\* The variables have their types, and every metric's value is a number.
THEOREM TypeCorrect == Spec => []TypeOK
<1>1. ASSUME IInv  PROVE TypeOK
  <2> USE <1>1
  <2>1. /\ drive \in Drives /\ drive.logSize \in LogSizes
    BY DEF IInv, Bounded, Sound, Drives
  <2>2. \A m \in metrics : m[2] \in Nat
    <3> TAKE m \in metrics
    <3>1. PICK p \in Pages :
            \/ m \in {Supported(p, 0), Supported(p, 1)}
            \/ Answered(p) /\ m \in Collected(p, seen[p], Arriving)
      BY DEF IInv, Emitted
    <3> QED  BY <3>1, SupportedApart, AnsweredIs DEF Tidy
  <2>3. /\ DOMAIN seen \subseteq {Stages[i] : i \in 1..Len(Stages)}
        /\ \A p \in DOMAIN seen : seen[p] \in Drives
    BY StagesAre DEF IInv, SeenBefore, Sound
  <2>4. stage \in 1..Len(Stages) + 1
    <3>1. stage \in 1..7 /\ Len(Stages) = 6
      BY BoundedFacts DEF IInv
    <3> QED  BY <3>1
  <2> QED
    BY <2>1, <2>2, <2>3, <2>4 DEF IInv, Bounded, TypeOK
<1> QED
  BY Invariant, <1>1, PTL

\* errinfo.go:52 and selftest.go:95: no response holds two metrics of one series,
\* whatever the collectors are and whichever pages were refused.
THEOREM Distinct == Spec => []SeriesDistinct
<1>1. ASSUME IInv, NEW m \in metrics, NEW n \in metrics, m[1] = n[1]
      PROVE  m = n
  <2>1. PICK p \in Pages :
          \/ m \in {Supported(p, 0), Supported(p, 1)}
          \/ Answered(p) /\ m \in Collected(p, seen[p], Arriving)
    BY <1>1 DEF IInv, Emitted
  <2>2. PICK q \in Pages :
          \/ n \in {Supported(q, 0), Supported(q, 1)}
          \/ Answered(q) /\ n \in Collected(q, seen[q], Arriving)
    BY <1>1 DEF IInv, Emitted
  <2>3. /\ Answered(p) => Tidy(Collected(p, seen[p], Arriving), p)
        /\ Answered(q) => Tidy(Collected(q, seen[q], Arriving), q)
    BY <1>1, AnsweredIs
  <2>4. CASE m \in {Supported(p, 0), Supported(p, 1)}
    <3>1. n[1] = <<"supported", p>> /\ n[1][1] = "supported"
      BY <1>1, <2>4 DEF Supported, Metric
    <3>2. n \in {Supported(q, 0), Supported(q, 1)}
      BY <2>2, <2>3, <3>1, NamesDiffer DEF Tidy
    <3>3. p = q
      <4>1. n[1] = <<"supported", q>>
        BY <3>2 DEF Supported, Metric
      <4> QED  BY <3>1, <4>1
    <3>4. ~(Supported(p, 1) \in metrics /\ Supported(p, 0) \in metrics)
      BY <1>1 DEF IInv, Complete
    <3> QED  BY <1>1, <2>4, <3>2, <3>3, <3>4
  <2>5. CASE Answered(p) /\ m \in Collected(p, seen[p], Arriving)
    <3>1. m[1][1] \in Names[p]
      BY <2>3, <2>5 DEF Tidy
    <3>2. Answered(q) /\ n \in Collected(q, seen[q], Arriving)
      BY <1>1, <2>2, <3>1, NamesDiffer, SupportedApart
    <3>3. q = p
      BY <1>1, <2>3, <3>1, <3>2, NamesDiffer DEF Tidy
    <3> QED  BY <1>1, <2>3, <2>5, <3>2, <3>3 DEF Tidy
  <2> QED  BY <2>1, <2>4, <2>5
<1>2. IInv => SeriesDistinct
  BY <1>1 DEF SeriesDistinct
<1> QED
  BY Invariant, <1>2, PTL

LEMMA OneTold ==
  ASSUME NEW a, NEW b, NEW c
  PROVE  {<<m[1], m[2]>> : m \in {<<a, b, c>>}} = {<<a, b>>}
OBVIOUS

\* optional.go:16: a field of page 0xc0 of any width, in bytes of any size, has a
\* metric with the drive's value exactly if it is not all ones.
THEOREM FieldsAreTold == Spec => []FieldsTold
<1>1. ASSUME IInv, Answered("0xc0"), NEW f \in DOMAIN Fields
      PROVE  LET v == seen["0xc0"].fields[f]
             IN  {m[2] : m \in Told(f[1])} =
                   IF v \in {None, Power[Fields[f]] - 1} THEN {} ELSE {v}
  <2> DEFINE d == seen["0xc0"]
             p == ParseOCPSmart(OCPSmartPage(d))
             v == d.fields[f]
  <2>1. "0xc0" \in Pages /\ f[1] \in Names["0xc0"]
    BY StagesAre, NamesAre
  <2>2. Sound(d) /\ Told(f[1]) = {<<m[1], m[2]>> :
          m \in {n \in Collected("0xc0", d, Arriving) : n[1][1] = f[1]}}
    BY <1>1, <2>1, AnsweredIs
  <2>3. Collected("0xc0", d, Arriving) = collectOCP(d)
    BY DEF Collected
  <2>4. /\ DOMAIN p = DOMAIN Fields
        /\ p[f] = IF v \in {None, Power[Fields[f]] - 1} THEN None ELSE v
    BY <2>2, OCPDecoded
  <2> HIDE DEF d, p
  <2>5. collectOCP(d) = {Metric(g, p[g], g) : g \in {h \in DOMAIN p : p[h] # None}}
    BY DEF collectOCP, p
  <2>6. \A g \in DOMAIN Fields : g[1] = f[1] => g = f
    BY LogPagesAssumption
  <2>7. {n \in Collected("0xc0", d, Arriving) : n[1][1] = f[1]}
          = IF p[f] = None THEN {} ELSE {<<f, p[f], f>>}
    BY <2>3, <2>4, <2>5, <2>6 DEF Metric
  <2>8. {m[2] : m \in Told(f[1])} = IF p[f] = None THEN {} ELSE {p[f]}
    <3>1. CASE p[f] = None
      BY <2>2, <2>7, <3>1
    <3>2. CASE p[f] # None
      <4>1. {n \in Collected("0xc0", d, Arriving) : n[1][1] = f[1]} = {<<f, p[f], f>>}
        BY <2>7, <3>2
      <4>2. Told(f[1]) = {<<f, p[f]>>}
        BY <2>2, <4>1, OneTold
      <4> QED  BY <3>2, <4>2
    <3> QED  BY <3>1, <3>2
  <2> QED  BY <2>4, <2>8 DEF d
<1>2. IInv => FieldsTold
  BY <1>1 DEF FieldsTold
<1> QED
  BY Invariant, <1>2, PTL

\* The flags that the exporter finds in the byte are those the drive put there.
LEMMA WarningsDecoded ==
  ASSUME NEW d, d.warnings \subseteq 0..7
  PROVE  {b \in 0..7 : HasWarning(CriticalWarning(d), Mask[b + 1])} = d.warnings
<1> DEFINE bit(b) == IF b \in d.warnings THEN 1 ELSE 0
           n == CriticalWarning(d)
<1>1. \A b \in 0..7 : bit(b) \in {0, 1}
  OBVIOUS
<1>2. n = bit(0) + 2 * bit(1) + 4 * bit(2) + 8 * bit(3) + 16 * bit(4) + 32 * bit(5)
            + 64 * bit(6) + 128 * bit(7)
  BY DEF CriticalWarning, Mask
<1> HIDE DEF bit, n
<1>3. \A b \in 0..7 : (n \div Mask[b + 1]) % 2 = bit(b)
  <2>1. PICK a \in {0, 1}, b \in {0, 1}, c \in {0, 1}, e \in {0, 1},
             f \in {0, 1}, g \in {0, 1}, h \in {0, 1}, i \in {0, 1} :
          /\ bit(0) = a /\ bit(1) = b /\ bit(2) = c /\ bit(3) = e
          /\ bit(4) = f /\ bit(5) = g /\ bit(6) = h /\ bit(7) = i
    BY <1>1
  <2>3. n = a + 2 * b + 4 * c + 8 * e + 16 * f + 32 * g + 64 * h + 128 * i
    BY <1>2, <2>1
  <2>4. /\ (n \div 1) % 2 = a
        /\ (n \div 2) % 2 = b
        /\ (n \div 4) % 2 = c
        /\ (n \div 8) % 2 = e
        /\ (n \div 16) % 2 = f
        /\ (n \div 32) % 2 = g
        /\ (n \div 64) % 2 = h
        /\ (n \div 128) % 2 = i
    <3>1. PICK m : m = n
      OBVIOUS
    <3>2. m = a + 2 * b + 4 * c + 8 * e + 16 * f + 32 * g + 64 * h + 128 * i
      BY <2>3, <3>1, Zenon
    <3>3. /\ (m \div 1) % 2 = a
          /\ (m \div 2) % 2 = b
          /\ (m \div 4) % 2 = c
          /\ (m \div 8) % 2 = e
          /\ (m \div 16) % 2 = f
          /\ (m \div 32) % 2 = g
          /\ (m \div 64) % 2 = h
          /\ (m \div 128) % 2 = i
      BY <3>2
    <3> QED  BY <3>1, <3>3, Zenon
  <2> TAKE k \in 0..7
  <2> QED  BY <2>1, <2>4 DEF Mask
<1>4. \A b \in 0..7 : HasWarning(n, Mask[b + 1]) <=> b \in d.warnings
  BY <1>3 DEF HasWarning, bit
<1> QED  BY <1>4 DEF n

\* collector/smart.go:68 and :123: the flags of Critical Warning are told as the drive has
\* them, whatever values the byte takes: Warnings is any set of its 256 values.
THEOREM WarningsAreTold == Spec => []WarningsTold
<1>1. ASSUME IInv, Answered("0x02")
      PROVE  LET set == seen["0x02"].warnings
             IN  Told("critical_warning_flag") =
                   {<<<<"critical_warning_flag", b>>, 1>> : b \in set}
                     \cup {<<<<"critical_warning_flag", b>>, 0>> : b \in (0..5) \ set}
  <2> DEFINE d == seen["0x02"]
  <2>1. "0x02" \in Pages /\ "critical_warning_flag" \in Names["0x02"]
    BY StagesAre, NamesAre
  <2>2. Sound(d) /\ Told("critical_warning_flag") = {<<m[1], m[2]>> :
          m \in {n \in Collected("0x02", d, Arriving) : n[1][1] = "critical_warning_flag"}}
    BY <1>1, <2>1, AnsweredIs
  <2>3. d.warnings \subseteq 0..7
    BY <2>2 DEF Sound, Drives
  <2> HIDE DEF d
  <2> DEFINE v == [b \in 0..7 |-> IF b \in d.warnings THEN 1 ELSE 0]
             X == {<<<<"critical_warning_flag", b>>, v[b], b>> : b \in 0..5 \cup d.warnings}
  <2>4. Collected("0x02", d, Arriving) = X
    <3>1. \A b \in 0..5 \cup d.warnings : v[b] = IF b \in d.warnings THEN 1 ELSE 0
      BY <2>3
    <3> HIDE DEF v
    <3> QED  BY <2>3, <3>1, WarningsDecoded DEF Collected, collectSmart, Metric
  <2>5. {n \in X : n[1][1] = "critical_warning_flag"} = X
    <3>1. ASSUME NEW n \in X  PROVE n[1][1] = "critical_warning_flag"
      <4>1. PICK b : n = <<<<"critical_warning_flag", b>>, v[b], b>>
        OBVIOUS
      <4> QED  BY <4>1
    <3> HIDE DEF X
    <3> QED  BY <3>1
  <2>6. Told("critical_warning_flag") =
          {<<<<"critical_warning_flag", b>>, v[b]>> : b \in 0..5 \cup d.warnings}
    <3>1. Told("critical_warning_flag") = {<<m[1], m[2]>> : m \in X}
      <4> HIDE DEF X
      <4> QED  BY <2>2, <2>4, <2>5
    <3> DEFINE R == {<<<<"critical_warning_flag", b>>, v[b]>> : b \in 0..5 \cup d.warnings}
    <3> HIDE DEF v
    <3>2. ASSUME NEW y \in Told("critical_warning_flag")  PROVE y \in R
      <4>1. PICK m \in X : y = <<m[1], m[2]>>
        BY <3>1
      <4>2. PICK b \in 0..5 \cup d.warnings :
              m = <<<<"critical_warning_flag", b>>, v[b], b>>
        OBVIOUS
      <4>3. y = <<<<"critical_warning_flag", b>>, v[b]>>
        BY <4>1, <4>2
      <4> QED  BY <4>3
    <3>3. ASSUME NEW y \in R  PROVE y \in Told("critical_warning_flag")
      <4>1. PICK b \in 0..5 \cup d.warnings : y = <<<<"critical_warning_flag", b>>, v[b]>>
        OBVIOUS
      <4>2. PICK m : m = <<<<"critical_warning_flag", b>>, v[b], b>>
        OBVIOUS
      <4>3. m \in X
        BY <4>2
      <4>4. y = <<m[1], m[2]>>
        BY <4>1, <4>2
      <4> HIDE DEF X
      <4> QED  BY <3>1, <4>3, <4>4
    <3> HIDE DEF R, X
    <3>4. Told("critical_warning_flag") = R
      BY <3>2, <3>3
    <3> QED  BY <3>4 DEF R
  <2>7. Told("critical_warning_flag") =
          {<<<<"critical_warning_flag", b>>, 1>> : b \in d.warnings}
            \cup {<<<<"critical_warning_flag", b>>, 0>> : b \in (0..5) \ d.warnings}
    <3>1. {<<<<"critical_warning_flag", b>>, v[b]>> : b \in 0..5 \cup d.warnings}
            = {<<<<"critical_warning_flag", b>>, v[b]>> : b \in d.warnings}
                \cup {<<<<"critical_warning_flag", b>>, v[b]>> : b \in (0..5) \ d.warnings}
      <4> HIDE DEF v
      <4> QED  OBVIOUS
    <3>2. {<<<<"critical_warning_flag", b>>, v[b]>> : b \in d.warnings}
            = {<<<<"critical_warning_flag", b>>, 1>> : b \in d.warnings}
      BY <2>3
    <3>3. {<<<<"critical_warning_flag", b>>, v[b]>> : b \in (0..5) \ d.warnings}
            = {<<<<"critical_warning_flag", b>>, 0>> : b \in (0..5) \ d.warnings}
      <4>1. \A b \in (0..5) \ d.warnings : v[b] = 0
        OBVIOUS
      <4> HIDE DEF v
      <4> QED  BY <4>1
    <3> HIDE DEF v
    <3> QED  BY <2>6, <3>1, <3>2, <3>3
  <2> QED  BY <2>7 DEF d
<1>2. IInv => WarningsTold
  BY <1>1 DEF WarningsTold
<1> QED
  BY Invariant, <1>2, PTL

\* fwslot.go:45: the slot numbers of the active and the next revision lead to the
\* revisions themselves.
THEOREM SlotsAgree == Spec => []FirmwareSlotsAgree
<1>1. ASSUME IInv, Answered("0x03")  PROVE FirmwareSlotsAgree
  <2> DEFINE d == seen["0x03"]
             f == ParseFirmwareSlots(FirmwareSlotPage(d))
             all == collectFirmwareSlots(d)
  <2>1. "0x03" \in Pages
    BY StagesAre
  <2>2. /\ Sound(d)
        /\ \A name \in Names["0x03"] :
             Told(name) = {<<m[1], m[2]>> : m \in {n \in all : n[1][1] = name}}
    <3>1. Collected("0x03", d, Arriving) = all
      BY DEF Collected
    <3> HIDE DEF all
    <3> QED  BY <1>1, <2>1, <3>1, AnsweredIs
  <2>3. \A m \in all : m[1][1] \in Names["0x03"] => <<m[1], m[2]>> \in Told(m[1][1])
    <3> HIDE DEF all
    <3> QED  BY <2>2
  <2>4. /\ f.active = d.active /\ f.next = d.next
        /\ \A i \in 1..7 : f.revisions[i] = asciiField(d.slots[i])
    BY <2>2, FirmwareDecoded
  <2>5. /\ d.active \in 1..7 /\ d.next \in 0..7
        /\ d.slots[d.active] \in {"rev1", "rev2"}
        /\ d.next # 0 => d.next \in 1..7 /\ d.slots[d.next] \in {"rev1", "rev2"}
    BY <2>2, SoundFacts
  <2> HIDE DEF d, f
  <2>6. all = {Metric(<<"firmware_slot_info", s[1], s[2]>>, 1, s) : s \in PopulatedSlots(f)}
              \cup {Metric(<<"firmware_active_slot">>, f.active, 0)}
              \cup (IF f.next = 0 THEN {} ELSE {Metric(<<"firmware_next_slot">>, f.next, 0)})
    BY DEF collectFirmwareSlots, f
  <2> HIDE DEF all
  <2>7. /\ <<<<"firmware_active_slot">>, d.active>> \in Told("firmware_active_slot")
        /\ d.next # 0 => <<<<"firmware_next_slot">>, d.next>> \in Told("firmware_next_slot")
    <3>1. /\ <<<<"firmware_active_slot">>, d.active, 0>> \in all
          /\ d.next # 0 => <<<<"firmware_next_slot">>, d.next, 0>> \in all
      BY <2>4, <2>6 DEF Metric
    <3> QED  BY <2>3, <3>1, NamesAre
  <2>8. ASSUME NEW i \in 1..7, d.slots[i] \in {"rev1", "rev2"}
        PROVE  <<<<"firmware_slot_info", i, d.slots[i]>>, 1>> \in Told("firmware_slot_info")
    <3>1. f.revisions[i] = d.slots[i] /\ d.slots[i] # ""
      BY <2>4, <2>8 DEF asciiField
    <3>2. <<i, d.slots[i]>> \in PopulatedSlots(f)
      BY <3>1 DEF PopulatedSlots
    <3>3. <<<<"firmware_slot_info", i, d.slots[i]>>, 1, <<i, d.slots[i]>>>> \in all
      BY <2>6, <3>2 DEF Metric
    <3> QED  BY <2>3, <3>3, NamesAre
  <2>9. \E m \in Told("firmware_active_slot") :
          <<<<"firmware_slot_info", m[2], d.slots[d.active]>>, 1>> \in Told("firmware_slot_info")
    <3>1. <<<<"firmware_slot_info", d.active, d.slots[d.active]>>, 1>>
            \in Told("firmware_slot_info")
      BY <2>5, <2>8
    <3> QED  BY <2>7, <3>1
  <2>10. ASSUME d.next # 0
         PROVE  \E m \in Told("firmware_next_slot") :
           <<<<"firmware_slot_info", m[2], d.slots[d.next]>>, 1>> \in Told("firmware_slot_info")
    <3>1. <<<<"firmware_slot_info", d.next, d.slots[d.next]>>, 1>>
            \in Told("firmware_slot_info")
      BY <2>5, <2>8, <2>10
    <3> QED  BY <2>7, <2>10, <3>1
  <2> QED  BY <2>9, <2>10 DEF FirmwareSlotsAgree, d
<1>2. IInv => FirmwareSlotsAgree
  BY <1>1 DEF FirmwareSlotsAgree
<1> QED
  BY Invariant, <1>2, PTL

-----------------------------------------------------------------------------
(* Grouped entries.                                                        *)

\* The metrics of a grouping, one for each key with the number of the entries that
\* have it, and what is told by them.
Groups(s, name) == {<<<<name, k[1], k[2]>>, Count(s, k), k>> : k \in Range(s)}
Tally(s, name) == {<<<<name, k[1], k[2]>>, Count(s, k)>> : k \in Range(s)}
ToldOf(all, name) == {<<m[1], m[2]>> : m \in {n \in all : n[1][1] = name}}

LEMMA GroupedIs ==
  ASSUME NEW s, NEW name, NEW others, \A m \in others : m[1][1] # name
  PROVE  ToldOf(Groups(s, name) \cup others, name) = Tally(s, name)
<1> DEFINE all == Groups(s, name) \cup others
           grouped == {<<<<name, k[1], k[2]>>, Count(s, k), k>> : k \in Range(s)}
<1>1. {n \in all : n[1][1] = name} = grouped
  BY DEF Groups
<1>2. {<<m[1], m[2]>> : m \in grouped}
        = {<<<<name, k[1], k[2]>>, Count(s, k)>> : k \in Range(s)}
  <2>1. ASSUME NEW m \in grouped
        PROVE  <<m[1], m[2]>> \in {<<<<name, k[1], k[2]>>, Count(s, k)>> : k \in Range(s)}
    <3>1. PICK k \in Range(s) : m = <<<<name, k[1], k[2]>>, Count(s, k), k>>
      OBVIOUS
    <3>2. <<m[1], m[2]>> = <<<<name, k[1], k[2]>>, Count(s, k)>>
      BY <3>1
    <3> QED  BY <3>2
  <2>2. ASSUME NEW k \in Range(s)
        PROVE  <<<<name, k[1], k[2]>>, Count(s, k)>> \in {<<m[1], m[2]>> : m \in grouped}
    <3>1. PICK m \in grouped : m = <<<<name, k[1], k[2]>>, Count(s, k), k>>
      OBVIOUS
    <3>2. <<m[1], m[2]>> = <<<<name, k[1], k[2]>>, Count(s, k)>>
      BY <3>1
    <3> HIDE DEF grouped
    <3> QED  BY <3>2
  <2> HIDE DEF grouped
  <2> QED  BY <2>1, <2>2
<1> QED  BY <1>1, <1>2 DEF ToldOf, Tally

\* errinfo.go:30: what the error log collector tells.
LEMMA ErrorsTold ==
  ASSUME IInv, Answered("0x01")
  PROVE  LET d     == seen["0x01"]
             known == Min({Len(d.log), Reach})
             read  == [i \in 1..known |-> <<d.log[i].sct, d.log[i].sc>>]
         IN  /\ known \in Nat
             /\ Told("error_log_retained_entries") =
                  {<<<<"error_log_retained_entries", k[1], k[2]>>, Count(read, k)>> :
                     k \in Range(read)}
<1> DEFINE d     == seen["0x01"]
           known == Min({Len(d.log), Reach})
           read  == [i \in 1..known |-> <<d.log[i].sct, d.log[i].sc>>]
           all   == collectErrorInfo(d, Arriving)
           name  == "error_log_retained_entries"
<1>1. "0x01" \in Pages /\ name \in Names["0x01"]
  BY StagesAre, NamesAre
<1>2. /\ Sound(d) /\ Arriving \in Nat /\ Arriving = Reach
      /\ Told(name) = {<<m[1], m[2]>> : m \in {n \in all : n[1][1] = name}}
  <2>1. Collected("0x01", d, Arriving) = all
    BY DEF Collected
  <2> HIDE DEF all, name
  <2> QED  BY <1>1, <2>1, AnsweredIs, BoundedFacts DEF IInv
<1>3. ParseErrorInfo(ErrorInfoPage(d, Arriving)) = read
  BY <1>2, ErrorInfoDecoded
<1>4. known \in Nat
  <2>1. Len(d.log) \in Nat /\ Reach \in Nat
    BY <1>2, SoundFacts
  <2> QED  BY <2>1, MinOfTwo
<1> HIDE DEF d, known
<1> HIDE DEF read
<1>6. all = Groups(read, name)
  BY <1>3 DEF collectErrorInfo, Metric, Groups
<1> HIDE DEF all, name
<1>7. Told(name) = {<<<<name, k[1], k[2]>>, Count(read, k)>> : k \in Range(read)}
  <2>1. ToldOf(Groups(read, name) \cup {}, name) = Tally(read, name)
    BY GroupedIs
  <2>2. Groups(read, name) \cup {} = all
    BY <1>6
  <2> QED  BY <1>2, <2>1, <2>2 DEF ToldOf, Tally
<1> QED
  BY <1>4, <1>7 DEF d, known, read, name

\* errinfo.go:30: what is told of the error log is what the log held when it was
\* asked, grouped, for logs of every length.
THEOREM RetainedAsLogged == Spec => []RetainedMatchesLog
<1>1. IInv => RetainedMatchesLog
  BY ErrorsTold DEF RetainedMatchesLog
<1> QED
  BY Invariant, <1>1, PTL

Among(told, wanted) == {m \in told : <<m[1][2], m[1][3]>> \in wanted}
Places(s, n, wanted) == {i \in 1..n : s[i] \in wanted}

\* How much a tally counts in the groups that are wanted.
LEMMA TallyTotal ==
  ASSUME NEW n \in Nat, NEW s, DOMAIN s = 1..n, NEW name,
         \A i \in 1..n : s[i] = <<s[i][1], s[i][2]>>, NEW wanted
  PROVE  Total(Among(Tally(s, name), wanted)) = Cardinality(Places(s, n, wanted))
<1> DEFINE I == {i \in 1..n : s[i] \in wanted}
           told == {m \in Tally(s, name) : <<m[1][2], m[1][3]>> \in wanted}
           group(k) == <<<<name, k[1], k[2]>>, Count(s, k)>>
           f == [i \in I |-> group(s[i])]
<1>1. IsFiniteSet(I)
  <2>1. IsFiniteSet(1..n)
    BY FS_Interval
  <2> QED  BY <2>1, FS_Subset
<1>2. ASSUME NEW k \in Range(s)
      PROVE  /\ k = <<k[1], k[2]>> /\ group(k) \in Tally(s, name)
             /\ <<group(k)[1][2], group(k)[1][3]>> = k
  BY DEF Range, Tally
<1>3. ASSUME NEW m \in told
      PROVE  /\ \E k \in Range(s) : k \in wanted /\ m = group(k)
             /\ m[2] = Cardinality({i \in I : f[i] = m})
  <2>1. PICK k \in Range(s) : m = group(k)
    BY DEF Tally
  <2>2. k \in wanted
    BY <1>2, <2>1
  <2>3. \A i \in I : f[i] = m <=> s[i] = k
    <3> TAKE i \in I
    <3>1. s[i] \in Range(s) /\ f[i] = group(s[i])
      BY DEF Range
    <3>2. f[i] = m => s[i] = k
      <4> SUFFICES ASSUME group(s[i]) = group(k)  PROVE s[i] = k
        BY <2>1, <3>1
      <4> HIDE DEF group
      <4>1. s[i] = <<group(s[i])[1][2], group(s[i])[1][3]>>
        BY <1>2, <3>1
      <4>2. k = <<group(k)[1][2], group(k)[1][3]>>
        BY <1>2
      <4> QED  BY <4>1, <4>2
    <3> HIDE DEF group, f
    <3> QED  BY <2>1, <3>1, <3>2
  <2>4. {i \in I : f[i] = m} = {i \in DOMAIN s : s[i] = k}
    <3> HIDE DEF f
    <3> QED  BY <2>2, <2>3
  <2>5. m[2] = Count(s, k)
    BY <2>1
  <2> QED  BY <2>1, <2>2, <2>4, <2>5 DEF Count
<1>4. f \in [I -> told]
  <2> SUFFICES ASSUME NEW i \in I  PROVE group(s[i]) \in told
    OBVIOUS
  <2>1. s[i] \in Range(s)
    BY DEF Range
  <2> HIDE DEF group
  <2> QED  BY <1>2, <2>1
<1> HIDE DEF I, told, f, group
<1>5. Total(told) = Cardinality(I)
  BY <1>1, <1>3, <1>4, TotalIs
<1> QED  BY <1>5 DEF I, told, Among, Places

\* selftest.go:18 and :104: the groups of self-tests count every test that ended
\* once, and the last result is the newest test's.
THEOREM SelfTestsCounted == Spec => []SelfTestsAccounted
<1>1. ASSUME IInv, Answered("0x06")  PROVE SelfTestsAccounted
  <2> DEFINE d    == seen["0x06"]
             n    == Len(d.runs)
             page == SelfTestPage(d)
             runs == ParseSelfTest(page)
             keys == [i \in DOMAIN runs |-> selfTestKey(runs[i])]
             all  == collectSelfTest(d)
             first == {Metric(<<"self_test_running">>, IF page.running # 0 THEN 1 ELSE 0, 0)}
             last == IF DOMAIN runs = {} THEN {}
                     ELSE {Metric(<<"self_test_last_result">>, runs[Min(DOMAIN runs)].result, 0)}
  <2>1. "0x06" \in Pages /\ {"self_test_results", "self_test_last_result"} \subseteq Names["0x06"]
    BY StagesAre, NamesAre
  <2>2. /\ Sound(d)
        /\ Told("self_test_results") = ToldOf(all, "self_test_results")
        /\ Told("self_test_last_result") = ToldOf(all, "self_test_last_result")
    <3>1. Collected("0x06", d, Arriving) = all
      BY DEF Collected
    <3> HIDE DEF all
    <3> QED  BY <1>1, <2>1, <3>1, AnsweredIs DEF ToldOf
  <2>3. /\ n \in Nat /\ DOMAIN runs = 1..n
        /\ \A i \in 1..n : runs[i].result = d.runs[i].result
    BY <2>2, SelfTestDecoded, SoundFacts
  <2> HIDE DEF d, n, page, runs
  <2>4. /\ DOMAIN keys = 1..n
        /\ \A k \in Range(keys) : /\ selfTestResultName(k[1]) = k[1]
                                  /\ selfTestCodeName(k[2]) = k[2]
        /\ \A i \in 1..n : keys[i] = <<keys[i][1], keys[i][2]>>
    BY <2>3, SelfTestNamed DEF Range
  <2> HIDE DEF keys
  <2>5. all = Groups(keys, "self_test_results") \cup (first \cup last)
    <3>1. {Metric(<<"self_test_results", selfTestResultName(k[1]),
                    selfTestCodeName(k[2])>>, Count(keys, k), k) : k \in Range(keys)}
            = Groups(keys, "self_test_results")
      BY <2>4 DEF Metric, Groups
    <3>2. all = first \cup Groups(keys, "self_test_results") \cup last
      BY <3>1 DEF collectSelfTest, keys, runs, page
    <3> QED  BY <3>2
  <2> HIDE DEF all
  <2>6. Total(Told("self_test_results")) = n
    <3>1. \A m \in first \cup last : m[1][1] # "self_test_results"
      BY DEF Metric
    <3>2. Told("self_test_results") = Tally(keys, "self_test_results")
      <4> HIDE DEF first, last
      <4> QED  BY <2>2, <2>5, <3>1, GroupedIs
    <3>3. Told("self_test_results") =
            Among(Tally(keys, "self_test_results"), Range(keys))
      BY <2>4, <3>2 DEF Tally, Range, Among
    <3>4. 1..n = Places(keys, n, Range(keys))
      BY <2>4 DEF Range, Places
    <3>5. Cardinality(1..n) = n
      BY <2>3, FS_Interval
    <3> QED  BY <2>3, <2>4, <3>3, <3>4, <3>5, TallyTotal
  <2>7. {m[2] : m \in Told("self_test_last_result")}
          = {d.runs[i].result : i \in 1..Min({1, n})}
    <3>1. {m \in all : m[1][1] = "self_test_last_result"} = last
      BY <2>5 DEF Groups, Metric
    <3>2. CASE n = 0
      <4>1. DOMAIN runs = {} /\ 1..Min({1, n}) = {}
        BY <2>3, <3>2, MinOfTwo
      <4>2. Told("self_test_last_result") = {}
        BY <2>2, <3>1, <4>1 DEF ToldOf
      <4> QED  BY <4>1, <4>2
    <3>3. CASE n # 0
      <4>1. Min({1, n}) = 1 /\ 1..1 = {1} /\ 1 \in 1..n /\ 1..n # {}
        BY <2>3, <3>3, MinOfTwo
      <4>2. Min(DOMAIN runs) = 1
        BY <2>3, <4>1 DEF Min
      <4>3. PICK r : r = d.runs[1].result
        OBVIOUS
      <4>4. last = {<<<<"self_test_last_result">>, r, 0>>}
        BY <2>3, <4>1, <4>2, <4>3 DEF Metric
      <4> HIDE DEF last
      <4>5. Told("self_test_last_result") = {<<<<"self_test_last_result">>, r>>}
        <5>1. Told("self_test_last_result") = {<<m[1], m[2]>> : m \in last}
          BY <2>2, <3>1 DEF ToldOf
        <5> QED  BY <5>1, <4>4, OneTold, Zenon
      <4>6. {d.runs[i].result : i \in 1..Min({1, n})} = {r}
        BY <4>1, <4>3
      <4>7. {m[2] : m \in {<<<<"self_test_last_result">>, r>>}} = {r}
        OBVIOUS
      <4> QED  BY <4>5, <4>6, <4>7
    <3> QED  BY <3>2, <3>3
  <2> QED  BY <2>6, <2>7 DEF SelfTestsAccounted, d, n
<1>2. IInv => SelfTestsAccounted
  BY <1>1 DEF SelfTestsAccounted
<1> QED
  BY Invariant, <1>2, PTL

\* README, on page 0xc0, and passthru.go:99: every refusal of this poll that is
\* within reach of the read is among the entries shown as one.
THEOREM RefusalsShow == Spec => []RefusalIsOnRecord
<1>1. ASSUME IInv, Answered("0x01")  PROVE RefusalIsOnRecord
  <2> DEFINE d == seen["0x01"]
             bound == Min({drive.logSize, Reach})
             own == {p \in Pages \cap DOMAIN seen :
                       /\ Metric(<<"supported", p>>, 0, p) \in metrics
                       /\ d.total - seen[p].total \in 1..bound}
             name == "error_log_retained_entries"
             shown == {m \in Told(name) : <<m[1][2], m[1][3]>> \in UnsupportedStatuses}
             known == Min({Len(d.log), Reach})
             read == [i \in 1..known |-> <<d.log[i].sct, d.log[i].sc>>]
             I == {i \in 1..known : read[i] \in UnsupportedStatuses}
             f == [p \in own |-> d.total - seen[p].total]
  <2>1. /\ Sound(d) /\ Len(d.log) \in Nat /\ d.total \in Nat
        /\ d.refuses = drive.refuses /\ d.logSize = drive.logSize /\ drive.logSize \in Nat
        /\ \A i \in 1..Len(d.log) : d.log[i] \in Statuses
        /\ Reach \in Nat
    BY <1>1, BoundedFacts, SoundFacts DEF Answered, IInv, SeenBefore
  <2>2. /\ known \in Nat
        /\ Told(name) = Tally(read, name)
    BY <1>1, ErrorsTold DEF Tally
  <2>3. /\ bound <= drive.logSize /\ bound <= Reach
        /\ \A i \in 1..bound : i <= Len(d.log) => i \in 1..known
    <3>1. PICK len \in Nat, size \in Nat, reach \in Nat :
            len = Len(d.log) /\ size = drive.logSize /\ reach = Reach
      BY <2>1
    <3>2. /\ bound = (IF size <= reach THEN size ELSE reach)
          /\ known = (IF len <= reach THEN len ELSE reach)
      BY <3>1, MinOfTwo
    <3> HIDE DEF bound, known
    <3> QED  BY <3>1, <3>2
  <2> HIDE DEF known, bound
  <2>4. DOMAIN read = 1..known /\ \A i \in 1..known : read[i] = <<read[i][1], read[i][2]>>
    OBVIOUS
  <2>5. Total(shown) = Cardinality(I)
    <3>1. shown = Among(Tally(read, name), UnsupportedStatuses)
      BY <2>2 DEF Among
    <3>2. I = Places(read, known, UnsupportedStatuses)
      BY DEF Places
    <3> HIDE DEF read, name, shown, I
    <3> QED  BY <2>2, <2>4, <3>1, <3>2, TallyTotal
  <2>6. ASSUME NEW p \in own
        PROVE  p \in RefusedNow /\ f[p] \in I
    <3> DEFINE i == d.total - seen[p].total
    <3>1. p \in RefusedNow /\ i \in 1..bound
      BY DEF RefusedNow, Supported
    <3>2. Sound(seen[p]) /\ seen[p].total \in Nat
      BY <1>1, <3>1, SoundFacts DEF RefusedNow, IInv, SeenBefore
    <3>3. d.total > seen[p].total
      BY <2>1, <3>1, <3>2
    <3>4. Recorded(d, seen[p].total, p)
      BY <1>1, <3>1, <3>3 DEF IInv, OnRecord
    <3>5. i <= Len(d.log) /\ d.log[i] = d.refuses[p]
      <4>1. PICK size \in Nat, reach \in Nat : size = drive.logSize /\ reach = Reach
        BY <2>1
      <4>2. bound \in Nat /\ bound <= size
        <5>1. bound = IF size <= reach THEN size ELSE reach
          BY <4>1, MinOfTwo DEF bound
        <5> QED  BY <5>1
      <4> HIDE DEF i
      <4>3. i <= d.logSize
        BY <2>1, <3>1, <4>1, <4>2
      <4> QED  BY <3>4, <4>3 DEF Recorded, i
    <3>6. i \in 1..known /\ d.log[i] \in Statuses
      BY <2>1, <2>3, <3>1, <3>5
    <3>7. <<d.log[i].sct, d.log[i].sc>> \in UnsupportedStatuses
      <4>1. decodeStatus(statusField(d.log[i])) = "unsupported"
        BY <3>4, <3>5 DEF Recorded
      <4>2. 0 \in 0..1
        OBVIOUS
      <4>3. StatusType(statusField(d.log[i])) = d.log[i].sct
            /\ StatusCode(statusField(d.log[i])) = d.log[i].sc
        BY <3>6, <4>2, StatusReadAlike
      <4> QED  BY <4>1, <4>3 DEF decodeStatus
    <3>8. read[i] \in UnsupportedStatuses
      BY <3>6, <3>7
    <3> QED  BY <3>1, <3>6, <3>8
  <2>7. \A p, q \in own : f[p] = f[q] => p = q
    <3> SUFFICES ASSUME NEW p \in own, NEW q \in own, f[p] = f[q]  PROVE p = q
      OBVIOUS
    <3>1. p \in RefusedNow /\ q \in RefusedNow
      BY <2>6
    <3>2. seen[p].total \in Nat /\ seen[q].total \in Nat
      BY <1>1, <3>1, SoundFacts DEF RefusedNow, IInv, SeenBefore
    <3>3. seen[p].total = seen[q].total
      BY <2>1, <3>2
    <3> QED  BY <1>1, <3>1, <3>3 DEF IInv, OnRecord
  <2>8. f \in Injection(own, I)
    <3>1. f \in [own -> I]
      BY <2>6
    <3>2. DOMAIN f = own
      OBVIOUS
    <3> HIDE DEF f, own, I
    <3> QED  BY <2>7, <3>1, <3>2 DEF Injection, IsInjective
  <2>9. IsFiniteSet(I)
    <3>1. IsFiniteSet(1..known)
      BY <2>2, FS_Interval
    <3> QED  BY <3>1, FS_Subset
  <2>10. Cardinality(own) <= Total(shown)
    <3> HIDE DEF f, own, I, shown
    <3> QED  BY <2>5, <2>8, <2>9, FS_Injection
  <2> QED  BY <2>10 DEF RefusalIsOnRecord, bound
<1>2. IInv => RefusalIsOnRecord
  BY <1>1 DEF RefusalIsOnRecord
<1> QED
  BY Invariant, <1>2, PTL

=============================================================================
