---------------------------- MODULE AdminCommand ----------------------------
(***************************************************************************)
(* The numbers in a Get Log Page command and in what comes back: the       *)
(* length field of logPageSize and logPageCDW10, and the status that       *)
(* decodeStatus takes apart.  The other side, what a drive makes of the    *)
(* command and how it writes a status, is from the NVMe specification.     *)
(***************************************************************************)
EXTENDS Integers

CONSTANT Word    \* a uint32 holds the numbers below this: 82

ASSUME WordAssumption == Word \in Nat /\ Word >= 65536

-----------------------------------------------------------------------------
(* Get Log Page.                                                           *)

\* Bytes of an entry of the Error Information log.
ErrorInfoEntrySize == 64

\* The zero-based number of dwords, NUMD, as the uint32 it is cut to.
numd(size) == (size \div 4 - 1) % Word

\* Only the lower half of NUMD is ever sent, so only it may be needed.
logPageSizeFits(size) == size > 0 /\ size % 4 = 0 /\ numd(size) < 65536

logPageCDW10(pageID, size) == pageID + (numd(size) % 65536) * 65536

\* What a drive reads in that dword: LID in the low byte, NUMDL in the upper
\* half, and the bytes that it transfers.
lid(cdw10) == cdw10 % 256
transferred(cdw10) == 4 * (cdw10 \div 65536 + 1)

-----------------------------------------------------------------------------
(* Status.                                                                 *)

\* A status is a type, a code, and the bits above them (CRD, More, Do Not
\* Retry).  The ioctl returns these fifteen bits; an entry of the error log
\* has the phase tag below them.
Statuses == [sct : 0..7, sc : 0..255, above : 0..15]
statusField(s) == s.sc + 256 * s.sct + 2048 * s.above
statusWord(s, phase) == phase + 2 * statusField(s)

sctGeneric == 0
sctCommandSpecific == 1
scInvalidField == 2
scInvalidLogPage == 9

StatusType(status) == (status \div 256) % 8
StatusCode(status) == status % 256

\* Controllers disagree on how to say that a page is not there.
UnsupportedStatuses ==
  {<<sctCommandSpecific, scInvalidLogPage>>, <<sctGeneric, scInvalidField>>}

decodeStatusByCode(status) ==
  IF status = 0 THEN "ok"
  ELSE IF StatusCode(status) \in {s[2] : s \in UnsupportedStatuses}
       THEN "unsupported" ELSE "failed"
decodeStatus(status) ==
  IF status = 0 THEN "ok"
  ELSE IF <<StatusType(status), StatusCode(status)>> \in UnsupportedStatuses
       THEN "unsupported" ELSE "failed"

\* The same two fields in an entry of the error log, one bit higher.
entryType(word) == (word \div 512) % 8
entryCode(word) == (word \div 2) % 256

=============================================================================
