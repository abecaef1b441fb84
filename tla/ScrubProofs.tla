----------------------------- MODULE ScrubProofs -----------------------------
(***************************************************************************)
(* For every buffer, every serial, every placeholder and every layout of   *)
(* the two fields: the scan leaves no occurrence of a serial that neither  *)
(* begins nor ends with the placeholder, and changes nothing but           *)
(* occurrences.                                                            *)
(***************************************************************************)
EXTENDS Scrub, Integers, WellFoundedInduction, TLAPS

\* The scan has passed what is before pos, and has not touched what is not.
Passed ==
  /\ pc = "start" => buf = raw /\ pos = 1
  /\ pc \in {"scan", "done"} => \A j \in pos..Len(buf) : buf[j] = Copy[j]
  /\ pc = "scan" /\ EndsPlain => \A h \in 1..pos - 1 : ~OccursIn(buf, h)
  /\ pc = "scan" => Len(serial) >= minSerialScanLength /\ pos <= Len(buf) + 1

Inv == TypeOK /\ Passed /\ NoSerialLeft /\ OnlySerialTouched

-----------------------------------------------------------------------------

\* What Overwrite returns has the length of what it is given.
LEMMA OverwriteShape ==
  ASSUME NEW b \in Seq(Chars), NEW S, NEW c \in Chars
  PROVE  /\ Overwrite(b, S, c) \in Seq(Chars)
         /\ Len(Overwrite(b, S, c)) = Len(b)
         /\ \A i \in 1..Len(b) :
              Overwrite(b, S, c)[i] = IF i \in S THEN c ELSE b[i]
  BY DEF Overwrite

\* The buffer that the scan begins with has the length of the one that came.
LEMMA CopyShape ==
  ASSUME TypeOK
  PROVE  Copy \in Seq(Chars) /\ Len(Copy) = Len(raw)
  <1>1. raw \in Seq(Chars) /\ Blank \in Chars
    BY ScrubAssumption DEF TypeOK
  <1> QED
    BY <1>1, OverwriteShape DEF Copy, Blanked

LEMMA Initially == Init => Inv
  <1> SUFFICES ASSUME Init PROVE Inv
    OBVIOUS
  <1>1. TypeOK
    BY ScrubAssumption DEF Init, TypeOK
  <1> QED
    BY <1>1 DEF Inv, Init, Passed, NoSerialLeft, OnlySerialTouched

LEMMA StartKeeps == Inv /\ Start => Inv'
  <1> SUFFICES ASSUME Inv, Start PROVE Inv'
    OBVIOUS
  <1> USE DEF Start
  <1>1. Copy' = Copy /\ (pc' # "refused" => buf' = Copy)
    BY DEF Copy, Blanked, Overwrite
  <1>2. Copy \in Seq(Chars) /\ Len(Copy) = Len(raw)
    BY CopyShape DEF Inv
  <1>3. TypeOK'
    BY <1>1, <1>2 DEF Inv, TypeOK
  <1>4. Passed'
    <2>1. pc' = "scan" => Len(serial) >= minSerialScanLength
      BY ScrubAssumption DEF Inv, TypeOK
    <2>2. EndsPlain' = EndsPlain
      BY DEF EndsPlain
    <2>3. pos' = 1 /\ Len(buf') \in Nat
      BY <1>3 DEF Inv, TypeOK, Passed
    <2> QED
      BY <1>1, <2>1, <2>2, <2>3 DEF Inv, Passed
  <1>5. NoSerialLeft'
    BY ScrubAssumption DEF Inv, TypeOK, NoSerialLeft
  <1>6. OnlySerialTouched'
    BY <1>1 DEF OnlySerialTouched
  <1> QED
    BY <1>3, <1>4, <1>5, <1>6 DEF Inv

LEMMA ReplaceKeeps == Inv /\ Replace => Inv'
  <1> SUFFICES ASSUME Inv, Replace PROVE Inv'
    OBVIOUS
  <1>1. PICK i \in 1..Len(buf) :
          /\ First(i)
          /\ buf' = Overwrite(buf, Cells(i), Placeholder)
          /\ pos' = Resume(i)
    BY DEF Replace
  <1> DEFINE n == Len(serial)
  <1>2. /\ pc = "scan" /\ pc' = "scan"
        /\ serial' = serial /\ raw' = raw /\ kind' = kind
        /\ Copy' = Copy
    BY DEF Replace, Copy, Blanked, Overwrite
  <1>3. /\ n \in Nat /\ n >= 1
        /\ pos \in Nat /\ pos >= 1
        /\ Len(buf) \in Nat
        /\ buf \in Seq(Chars) /\ serial \in Seq(Chars) /\ Placeholder \in Chars
    BY <1>2, ScrubAssumption DEF Inv, TypeOK, Passed
  <1>4. /\ i >= pos /\ i + n <= Len(buf) + 1 /\ pos' = i + n
        /\ \A j \in 1..n : buf[i + j - 1] = serial[j]
        /\ \A h \in pos..i - 1 : ~OccursIn(buf, h)
    BY <1>1 DEF First, OccursIn, Resume
  <1>5. /\ buf' \in Seq(Chars) /\ Len(buf') = Len(buf)
        /\ \A k \in 1..Len(buf) :
             buf'[k] = IF k \in i..i + n - 1 THEN Placeholder ELSE buf[k]
    BY <1>1, <1>3, OverwriteShape DEF Cells
  <1>6. TypeOK'
    BY <1>2, <1>3, <1>4, <1>5 DEF Inv, TypeOK
  <1>7. Passed'
    <2>1. \A j \in pos'..Len(buf') : buf'[j] = Copy'[j]
      <3>1. \A j \in pos..Len(buf) : buf[j] = Copy[j]
        BY <1>2 DEF Inv, Passed
      <3>2. ASSUME NEW j \in pos'..Len(buf')
            PROVE  j \in pos..Len(buf) /\ j \in 1..Len(buf) /\ j \notin i..i + n - 1
        BY <1>3, <1>4, <1>5
      <3>3. ASSUME NEW j \in pos'..Len(buf')
            PROVE  buf'[j] = buf[j] /\ buf[j] = Copy[j]
        BY <3>1, <3>2, <1>5
      <3> QED
        BY <3>3, <1>2
    <2>2. ASSUME EndsPlain, NEW h \in 1..i + n - 1, OccursIn(buf, h)'
          PROVE  FALSE
      <3>1. /\ h + n <= Len(buf) + 1
            /\ \A j \in 1..n : buf'[h + j - 1] = serial[j]
        BY <2>2, <1>2, <1>5 DEF OccursIn
      <3>2. CASE h + n - 1 < i
        <4>1. ASSUME NEW j \in 1..n  PROVE buf[h + j - 1] = serial[j]
          <5>1. h + j - 1 \in 1..Len(buf) /\ h + j - 1 \notin i..i + n - 1
            BY <3>1, <3>2, <1>3, <1>4
          <5>2. buf'[h + j - 1] = buf[h + j - 1]
            BY <5>1, <1>5
          <5> QED
            BY <5>2, <3>1
        <4>2. OccursIn(buf, h)
          BY <3>1, <4>1 DEF OccursIn
        <4>3. h \in 1..pos - 1 \/ h \in pos..i - 1
          BY <3>2, <1>3, <1>4
        <4> QED
          BY <4>2, <4>3, <2>2, <1>2, <1>4 DEF Inv, Passed
      <3>3. CASE h + n - 1 >= i /\ h < i
        <4>1. n \in 1..n /\ h + n - 1 \in i..i + n - 1 /\ h + n - 1 \in 1..Len(buf)
          BY <3>1, <3>3, <1>3
        <4>2. buf'[h + n - 1] = serial[n]
          BY <4>1, <3>1
        <4>3. buf'[h + n - 1] = Placeholder
          BY <4>1, <1>5
        <4> QED
          BY <4>2, <4>3, <2>2 DEF EndsPlain
      <3>4. CASE h >= i
        <4>1. h \in Int /\ h <= i + n - 1 /\ 1 \in 1..n
          BY <1>3
        <4>2. h \in 1..Len(buf) /\ h \in i..i + n - 1
          BY <4>1, <3>4, <1>3, <1>4
        <4>3. buf'[h] = Placeholder
          BY <4>2, <1>5
        <4>4. buf'[h + 1 - 1] = serial[1] /\ h + 1 - 1 = h
          BY <4>1, <3>1
        <4>5. serial[1] # Placeholder
          BY <4>1, <2>2 DEF EndsPlain
        <4> QED
          BY <4>3, <4>4, <4>5
      <3> QED
        BY <3>2, <3>3, <3>4, <1>3
    <2>3. EndsPlain' = EndsPlain
      BY <1>2 DEF EndsPlain
    <2>4. pos' <= Len(buf') + 1 /\ Len(serial') >= minSerialScanLength
      BY <1>2, <1>4, <1>5 DEF Inv, Passed
    <2> QED
      BY <2>1, <2>2, <2>3, <2>4, <1>2, <1>4 DEF Inv, Passed
  <1>8. NoSerialLeft'
    BY <1>2 DEF NoSerialLeft
  <1>9. OnlySerialTouched'
    <2> SUFFICES ASSUME NEW j \in 1..Len(buf), buf'[j] # Copy[j]
                 PROVE  \E h \in 1..j : OccursIn(Copy, h) /\ j \in h..h + n - 1
      BY <1>2, <1>5 DEF OnlySerialTouched, OccursIn
    <2>1. CASE j \in i..i + n - 1
      <3>1. \A k \in 1..n : Copy[i + k - 1] = serial[k]
        <4>1. \A k \in pos..Len(buf) : buf[k] = Copy[k]
          BY <1>2 DEF Inv, Passed
        <4> QED
          BY <4>1, <1>3, <1>4
      <3>2. Len(Copy) = Len(buf)
        BY CopyShape DEF Inv, TypeOK
      <3>3. OccursIn(Copy, i)
        BY <3>1, <3>2, <1>4 DEF OccursIn
      <3> QED
        BY <3>3, <2>1, <1>3
    <2>2. CASE j \notin i..i + n - 1
      BY <2>2, <1>2, <1>5 DEF Inv, OnlySerialTouched
    <2> QED
      BY <2>1, <2>2
  <1> QED
    BY <1>6, <1>7, <1>8, <1>9 DEF Inv

LEMMA FinishKeeps == Inv /\ Finish => Inv'
  <1> SUFFICES ASSUME Inv, Finish PROVE Inv'
    OBVIOUS
  <1> USE DEF Finish
  <1>1. Copy' = Copy /\ pc = "scan" /\ pc' = "done"
    BY DEF Copy, Blanked, Overwrite
  <1>2. TypeOK'
    BY DEF Inv, TypeOK
  <1>3. Passed'
    BY <1>1 DEF Inv, Passed
  <1>4. NoSerialLeft'
    <2> SUFFICES ASSUME EndsPlain, NEW h \in 1..Len(buf)
                 PROVE  ~OccursIn(buf, h)
      BY DEF NoSerialLeft, EndsPlain, OccursIn
    <2>1. h \in 1..pos - 1 \/ h \in pos..Len(buf)
      BY DEF Inv, TypeOK
    <2> QED
      BY <1>1, <2>1 DEF Inv, Passed
  <1>5. OnlySerialTouched'
    BY <1>1 DEF Inv, OnlySerialTouched, OccursIn
  <1> QED
    BY <1>2, <1>3, <1>4, <1>5 DEF Inv

LEMMA StutterKeeps == Inv /\ UNCHANGED vars => Inv'
  <1> SUFFICES ASSUME Inv, UNCHANGED vars PROVE Inv'
    OBVIOUS
  <1> USE DEF vars
  <1>1. TypeOK'
    BY DEF Inv, TypeOK
  <1>2. Copy' = Copy
    BY DEF Copy, Blanked, Overwrite
  <1>3. Passed' /\ NoSerialLeft'
    BY <1>2 DEF Inv, Passed, NoSerialLeft, EndsPlain, OccursIn
  <1>4. OnlySerialTouched'
    BY <1>2 DEF Inv, OnlySerialTouched, OccursIn
  <1> QED
    BY <1>1, <1>3, <1>4 DEF Inv

LEMMA Invariance == Spec => []Inv
  <1>1. Inv /\ [Next]_vars => Inv'
    BY StartKeeps, ReplaceKeeps, FinishKeeps, StutterKeeps DEF Next, Over
  <1> QED
    BY Initially, <1>1, PTL DEF Spec

-----------------------------------------------------------------------------

\* The scan works inside the buffer and never changes its length.
THEOREM TypeCorrect == Spec => []TypeOK
  BY Invariance, PTL DEF Inv

\* What ScrubIdentify and scrubSerialFromBuffer return holds no serial.
THEOREM ScanRemovesSerial == Spec => []NoSerialLeft
  BY Invariance, PTL DEF Inv

\* What they return differs from the blanked buffer in occurrences only.
THEOREM ScanTouchesSerialOnly == Spec => []OnlySerialTouched
  BY Invariance, PTL DEF Inv

-----------------------------------------------------------------------------
(* The scan ends.  ScanEnds itself needs fairness; what makes it true for  *)
(* every buffer is that a turn is always possible and that they run out.   *)

\* A bound on the turns that are left.
TurnsLeft ==
  CASE pc = "start" -> Len(raw) + 3
    [] pc = "scan"  -> Len(buf) + 2 - pos
    [] OTHER        -> 0

\* If the serial stands anywhere at pos or after it, it does so at a first place.
LEMMA FirstExists ==
  ASSUME TypeOK, NEW i \in pos..Len(buf), OccursIn(buf, i)
  PROVE  \E h \in 1..Len(buf) : First(h)
  <1> DEFINE S == {h \in pos..Len(buf) : OccursIn(buf, h)}
  <1>1. S \subseteq Nat /\ S # {} /\ S \subseteq 1..Len(buf) /\ pos \in Nat
    BY DEF TypeOK
  <1>2. PICK h \in S : \A k \in S : <<k, h>> \notin OpToRel(<, Nat)
    BY <1>1, NatLessThanWellFounded, WFMin
  <1>3. \A k \in S : ~(k < h)
    BY <1>1, <1>2 DEF OpToRel
  <1>4. First(h)
    BY <1>1, <1>3 DEF First, TypeOK
  <1> QED
    BY <1>1, <1>4

\* dump.go:241: a scan that has not ended has a turn to take, for whatever is in
\* the buffer: the serial is found, or it is not there.
THEOREM ScanNeverStuck ==
  Spec => [](pc = "scan" => \/ \E i \in 1..Len(buf) : First(i)
                            \/ \A i \in pos..Len(buf) : ~OccursIn(buf, i))
  <1>1. TypeOK => (pc = "scan" => \/ \E i \in 1..Len(buf) : First(i)
                                  \/ \A i \in pos..Len(buf) : ~OccursIn(buf, i))
    BY FirstExists
  <1> QED
    BY <1>1, TypeCorrect, PTL

\* Every turn leaves fewer: the search resumes behind what it has replaced, so it
\* does not find that again even if the serial looks like its replacement.
LEMMA TurnCounts ==
  ASSUME Inv, Next
  PROVE  \/ UNCHANGED vars
         \/ TurnsLeft \in Nat /\ TurnsLeft' \in Nat /\ TurnsLeft' < TurnsLeft
  <1>1. CASE Start
    <2>1. Len(buf') = Len(raw) /\ Len(raw) \in Nat /\ pos = 1
      BY <1>1, StartKeeps DEF Inv, TypeOK, Passed, Start
    <2> QED
      BY <1>1, <2>1 DEF Start, TurnsLeft
  <1>2. CASE Replace
    <2>1. PICK i \in 1..Len(buf) : First(i) /\ pos' = Resume(i)
      BY <1>2 DEF Replace
    <2>2. Len(buf') = Len(raw) /\ Len(buf) = Len(raw) /\ Len(raw) \in Nat /\ pos \in Nat
      BY <1>2, ReplaceKeeps DEF Inv, TypeOK, Replace
    <2>3. Len(serial) \in Nat /\ Len(serial) >= 1 /\ pc = "scan" /\ pc' = "scan"
      BY <1>2, ScrubAssumption DEF Inv, TypeOK, Passed, Replace
    <2>4. pos' = i + Len(serial) /\ pos <= i /\ pos' <= Len(buf) + 1
      BY <2>1, <2>2, <2>3 DEF First, OccursIn, Resume
    <2> QED
      BY <2>2, <2>3, <2>4 DEF TurnsLeft
  <1>3. CASE Finish
    <2>1. Len(buf) \in Nat /\ pos \in Nat /\ pos <= Len(buf) + 1
      BY <1>3 DEF Inv, TypeOK, Passed, Finish
    <2> QED
      BY <1>3, <2>1 DEF Finish, TurnsLeft
  <1>4. CASE Over
    BY <1>4 DEF Over
  <1> QED
    BY <1>1, <1>2, <1>3, <1>4 DEF Next

\* dump.go:240: the loop takes finitely many turns on every buffer, at most one
\* per byte and two more: each leaves fewer than there were, and never less
\* than none.
THEOREM TurnsRunOut ==
  Spec => [][/\ TurnsLeft \in Nat /\ TurnsLeft' \in Nat
            /\ TurnsLeft' < TurnsLeft]_vars
  BY Invariance, TurnCounts, PTL DEF Spec

=============================================================================
