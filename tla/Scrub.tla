-------------------------------- MODULE Scrub --------------------------------
(***************************************************************************)
(* How the dump command takes a serial number out of a buffer before it    *)
(* writes it: ScrubIdentify blanks two fields and scans, a log page is     *)
(* scanned only.  One step is one turn of scrubSerialOccurrences' loop.    *)
(*                                                                         *)
(* An operator that stands in front of another one and has its name with a *)
(* suffix is a faulty variant of it.                                       *)
(***************************************************************************)
EXTENDS Naturals, Sequences

CONSTANTS
  Chars,               \* bytes
  Placeholder,         \* the byte that the scan puts in: "X"
  Blank,               \* what the two fields are filled with
  Raws,                \* the buffers that a drive may return
  Serials,             \* serial numbers, without the blanks around them
  minSerialScanLength,
  SerialField,         \* positions of SN and SUBNQN in Identify Controller
  SubnqnField

ASSUME ScrubAssumption ==
  /\ Placeholder \in Chars /\ Blank \in Chars
  /\ Raws \subseteq Seq(Chars)
  /\ Serials \subseteq Seq(Chars)
  /\ minSerialScanLength \in Nat \ {0}
  /\ SerialField \subseteq Nat \ {0} /\ SubnqnField \subseteq Nat \ {0}

VARIABLES
  kind,     \* "identify" or "page"
  serial,   \* the serial that sysfs gave
  raw,      \* the buffer as it came
  buf,      \* the copy that is worked on
  pos,      \* where the next search begins
  pc

vars == <<kind, serial, raw, buf, pos, pc>>

TypeOK ==
  /\ kind \in {"identify", "page"}
  /\ serial \in Serials
  /\ raw \in Raws
  /\ buf \in Seq(Chars) /\ Len(buf) = Len(raw)
  /\ pos \in Nat \ {0}
  /\ pc \in {"start", "scan", "done", "refused"}

Init ==
  /\ kind \in {"identify", "page"}
  /\ serial \in Serials
  /\ raw \in Raws
  /\ buf = raw
  /\ pos = 1
  /\ pc = "start"

-----------------------------------------------------------------------------

Within(field, b) == \A i \in field : i <= Len(b)

\* The short form of a buffer with the cells of S overwritten.
Overwrite(b, S, c) == [i \in 1..Len(b) |-> IF i \in S THEN c ELSE b[i]]

\* bytes.Index: the serial stands in b from i on.
OccursIn(b, i) ==
  /\ i + Len(serial) <= Len(b) + 1
  /\ \A j \in 1..Len(serial) : b[i + j - 1] = serial[j]

\* A buffer that is made as long as the fields reach.
BlankedCut(b) ==
  LET end == CHOOSE i \in SubnqnField : \A j \in SubnqnField : j <= i
  IN  Overwrite(SubSeq(b, 1, end), SerialField \cup SubnqnField, Blank)
Blanked(b) == Overwrite(b, SerialField \cup SubnqnField, Blank)

\* What the scan begins with.
Copy == IF kind = "identify" THEN Blanked(raw) ELSE raw

\* A buffer that does not reach the end of SUBNQN is refused, and Run ends.
Start ==
  /\ pc = "start"
  /\ \/ /\ kind = "identify" /\ ~Within(SubnqnField, raw)
        /\ pc' = "refused"
        /\ UNCHANGED buf
     \/ /\ kind = "identify" => Within(SubnqnField, raw)
        /\ buf' = Copy
        /\ pc' = IF Len(serial) < minSerialScanLength THEN "done" ELSE "scan"
  /\ UNCHANGED <<kind, serial, raw, pos>>

\* The first occurrence at pos or after it.
First(i) == i >= pos /\ OccursIn(buf, i) /\ \A h \in pos..i - 1 : ~OccursIn(buf, h)

\* The cells of an occurrence.
CellsOneMore(i) == i..i + Len(serial)
Cells(i) == i..i + Len(serial) - 1

ResumeAtOnce(i) == i
ResumeOneLate(i) == i + Len(serial) + 1
Resume(i) == i + Len(serial)

Replace ==
  /\ pc = "scan"
  /\ \E i \in 1..Len(buf) :
       /\ First(i)
       /\ buf' = Overwrite(buf, Cells(i), Placeholder)
       /\ pos' = Resume(i)
  /\ UNCHANGED <<kind, serial, raw, pc>>

Finish ==
  /\ pc = "scan"
  /\ \A i \in pos..Len(buf) : ~OccursIn(buf, i)
  /\ pc' = "done"
  /\ UNCHANGED <<kind, serial, raw, buf, pos>>

\* The buffer goes to the file, or the command ends.
Over == pc \in {"done", "refused"} /\ UNCHANGED vars

Next == Start \/ Replace \/ Finish \/ Over

Spec == Init /\ [][Next]_vars

\* One goroutine that nothing blocks.
FairSpec == Spec /\ WF_vars(Next)

-----------------------------------------------------------------------------
(* Properties.                                                             *)

\* What the scan writes may complete a serial that begins or ends with it.
EndsPlain == serial[1] # Placeholder /\ serial[Len(serial)] # Placeholder

\* CONTRIBUTING.md:41: a scan leaves no occurrence of the serial anywhere,
\* neither one that overlaps another nor one that the replacing has made.  The
\* exception is a serial that begins or ends with the placeholder: after Xa, in
\* Xaa, comes XXa.
NoSerialLeft ==
  pc = "done" /\ Len(serial) >= minSerialScanLength /\ EndsPlain
  => \A i \in 1..Len(buf) : ~OccursIn(buf, i)

\* dump.go:32: what is not one of the two fields changes only where the serial
\* stood when the scan began, so that the rest of the page can be read from the
\* dump; a replacement makes no further one, even for a serial that holds the
\* placeholder.
OnlySerialTouched ==
  pc \in {"scan", "done"} =>
    \A i \in 1..Len(buf) :
      buf[i] # Copy[i] =>
        \E h \in 1..i : OccursIn(Copy, h) /\ i \in h..h + Len(serial) - 1

\* The scan ends, even for a serial that its own replacement looks like.
ScanEnds == <>(pc \in {"done", "refused"})

=============================================================================
