------------------------------ MODULE LogPages ------------------------------
(***************************************************************************)
(* What the exporter makes of a drive: one drive, whose logs change as it  *)
(* is used, and the polls of it, one collector after the other, each of    *)
(* which reads a page, decodes it and turns it into metrics.  Failures of  *)
(* the read itself, and requests that overlap, are in Exporter.            *)
(*                                                                         *)
(* The drive's side keeps what the drive means; the wire has it encoded;   *)
(* the exporter's side decodes.  A field that is copied into one metric,   *)
(* or into none when it is zero, is left out: what is grouped, counted,    *)
(* numbered, told apart by bits, or absent by a value of its width is here.*)
(*                                                                         *)
(* An operator that stands in front of another one and has its name with a *)
(* suffix is a faulty variant of it.                                       *)
(***************************************************************************)
EXTENDS AdminCommand, Sequences, FiniteSets, FiniteSetsExt

CONSTANTS
  Base,        \* a byte holds the numbers below this: 256
  LogSizes,    \* lengths of the error log that a drive may have, ELPE + 1
  RunSlots,    \* entries of the self-test log: 20
  Refusals,    \* for each kind of drive, how it refuses the pages it lacks
  Errors,      \* statuses of commands that other programs send
  Outcomes,    \* result and type of the self-tests that are run
  Warnings,    \* the values that Critical Warning takes, as sets of bits
  Pasts,       \* the errors and the self-tests of a drive before the first poll
  Fields,      \* the optional fields of page 0xc0, with their width in bytes
  MaxEvents,   \* bound: things that happen to the drive
  MaxPolls     \* bound: polls

Stages == <<"identify", "0x02", "0xc0", "0x03", "0x01", "0x06">>
Pages  == {Stages[i] : i \in 2..Len(Stages)}
PageID == [p \in Pages |-> CASE p = "0x01" -> 1 [] p = "0x02" -> 2
             [] p = "0x03" -> 3 [] p = "0x06" -> 6 [] p = "0xc0" -> 192]
Throttled == <<"thermal_throttle_events_total">>

\* The names of the metrics that each collector sends, apart from "supported";
\* those of page 0xc0 are the Fields.
Names ==
  [p \in Pages |-> CASE p = "0x02" -> {"critical_warning_flag"}
     [] p = "0x03" -> {"firmware_slot_info", "firmware_active_slot", "firmware_next_slot"}
     [] p = "0x01" -> {"error_log_retained_entries"}
     [] p = "0x06" -> {"self_test_running", "self_test_results", "self_test_last_result"}
     [] p = "0xc0" -> {f[1] : f \in DOMAIN Fields}]

ASSUME LogPagesAssumption ==
  /\ Base \in Nat \ {0, 1}
  /\ LogSizes \subseteq 1..256
  /\ RunSlots \in Nat \ {0}
  /\ \A r \in Refusals : r \in [DOMAIN r -> Statuses] /\
       DOMAIN r \subseteq {Stages[i] : i \in 1..Len(Stages)}
  /\ Errors \subseteq Statuses
  /\ Outcomes \subseteq [result : 0..14, code : 0..15]
  /\ Warnings \subseteq SUBSET (0..7)
  /\ Pasts \subseteq [log : Seq(Statuses), runs : Seq(Outcomes)]
  /\ Fields \in [DOMAIN Fields -> 1..16] /\ Throttled \in DOMAIN Fields
  /\ \A f \in DOMAIN Fields : f = <<f[1]>> /\ f[1] # "supported"
  /\ \A p \in Pages : p # "0xc0" => Names[p] \cap Names["0xc0"] = {}
  /\ MaxEvents \in Nat /\ MaxPolls \in Nat

VARIABLES
  drive,            \* the drive, see Drives
  events, polls,    \* how much of each bound is used up
  stage,            \* the collector whose turn it is; past the last: answered
  errorLogEntries,  \* what the exporter remembers of the drive
  pageUnsupported,
  metrics,          \* what the poll has emitted: see Metric
  seen              \* history: the drive, as each page of the poll found it

poll == <<stage, errorLogEntries, pageUnsupported, metrics, seen>>
vars == <<drive, events, polls, poll>>

-----------------------------------------------------------------------------
(* The drive.                                                              *)

None == -1      \* a field that the drive does not implement, or that is absent
Texts == {"zeros", "blanks", "rev1", "rev2"}   \* contents of an ASCII field

\* How many values some bytes hold; no field is wider than sixteen.
Power[n \in 0..16] == IF n = 0 THEN 1 ELSE Base * Power[n - 1]

Drives ==
  [refuses  : Refusals,              \* pages it lacks, with the status it gives
   logSize  : LogSizes,
   log      : Seq(Statuses),         \* error log, newest first
   total    : Nat,                   \* entries ever added to it
   runs     : Seq(Outcomes),         \* self-tests that ended, newest first
   testing  : 0..15,                 \* type of the running self-test
   warnings : SUBSET (0..7),         \* bits of Critical Warning
   active   : 0..7, next : 0..7,     \* firmware slots
   slots    : [1..7 -> Texts],
   fields   : [DOMAIN Fields -> Nat \cup {None}]]

\* A circular log: the newest entries that fit.
Push(e, log, size) == SubSeq(<<e>> \o log, 1, Min({Len(log) + 1, size}))

\* A drive that has been in use; each field it implements is just below all ones.
UsedDrive(r, n, past, implemented) ==
  [refuses |-> r, logSize |-> n,
   log |-> SubSeq(past.log, 1, Min({Len(past.log), n})), total |-> Len(past.log),
   runs |-> SubSeq(past.runs, 1, Min({Len(past.runs), RunSlots})),
   testing |-> 0, warnings |-> {}, active |-> 1, next |-> 0,
   slots |-> [i \in 1..7 |-> IF i = 1 THEN "rev1" ELSE IF i = 7 THEN "blanks"
                             ELSE "zeros"],
   fields |-> [f \in DOMAIN Fields |-> IF f \in implemented THEN Power[Fields[f]] - 2
                                      ELSE None]]
UsedDrives ==
  {UsedDrive(r, n, past, implemented) :
     r \in Refusals, n \in LogSizes, past \in Pasts, implemented \in {{}, DOMAIN Fields}}

\* Saturates instead of wrapping (the README, on page 0xc0).
Throttle(n) == Min({n + 1, Base - 1})

Happen(d) ==
  /\ events < MaxEvents
  /\ events' = events + 1
  /\ drive' = d
  /\ UNCHANGED <<polls, poll>>

\* Someone else's command fails.
Logged(d, s) ==
  [d EXCEPT !.log = Push(s, @, d.logSize), !.total = @ + 1]
LogError == \E s \in Errors : Happen(Logged(drive, s))

StartTest == \E o \in Outcomes :
  /\ drive.testing = 0 /\ o.code # 0
  /\ Happen([drive EXCEPT !.testing = o.code])

EndTest == \E o \in Outcomes :
  /\ drive.testing = o.code /\ o.code # 0
  /\ Happen([drive EXCEPT !.testing = 0, !.runs = Push(o, @, RunSlots)])

\* A revision is put into a slot, to be run from the next reset on.
Download == \E n \in 2..3, r \in {"rev1", "rev2"} :
  Happen([drive EXCEPT !.slots[n] = r, !.next = n])

Reset ==
  /\ drive.next # 0
  /\ Happen([drive EXCEPT !.active = drive.next, !.next = 0])

\* Several bits may come and go between two polls.
Warn == \E bits \in Warnings :
  /\ bits # drive.warnings
  /\ Happen([drive EXCEPT !.warnings = bits])

Overheat ==
  /\ drive.fields[Throttled] # None
  /\ Happen([drive EXCEPT !.fields[Throttled] = Throttle(@)])

-----------------------------------------------------------------------------
(* The wire: what the drive's pages hold.                                  *)

\* An entry of the error log that was never written is all zeros; one that was
\* has a count of at least 1.
ErrorInfoPage(d, entries) ==
  [i \in 1..entries |->
     IF i <= Len(d.log) THEN [word |-> statusWord(d.log[i], 1), count |-> 1]
     ELSE [word |-> 0, count |-> 0]]

SelfTestPage(d) ==
  [running |-> d.testing,
   entries |-> [i \in 1..RunSlots |->
                  IF i <= Len(d.runs) THEN 16 * d.runs[i].code + d.runs[i].result
                  ELSE 15]]

FirmwareSlotPage(d) == [byte0 |-> d.active + 16 * d.next, slots |-> d.slots]

\* ELPE is zero-based.
IdentifyPage(d) == [elpe |-> d.logSize - 1]

\* Bit b of a byte of flags is worth Mask[b + 1].
Mask == <<1, 2, 4, 8, 16, 32, 64, 128>>
CriticalWarning(d) ==
  LET bit(b) == IF b \in d.warnings THEN Mask[b + 1] ELSE 0
  IN  bit(0) + bit(1) + bit(2) + bit(3) + bit(4) + bit(5) + bit(6) + bit(7)

\* Little-endian; every bit set in a field that the drive does not implement.
OCPSmartPage(d) ==
  [f \in DOMAIN Fields |->
     [i \in 1..Fields[f] |-> IF d.fields[f] = None THEN Base - 1
                             ELSE (d.fields[f] \div Power[i - 1]) % Base]]

-----------------------------------------------------------------------------
(* The parsers.                                                            *)

ParseIdentifyRaw(page) == [errorLogEntries |-> page.elpe]
ParseIdentify(page) == [errorLogEntries |-> page.elpe + 1]

allZero(e) == e.word = 0 /\ e.count = 0

\* A list with the unused entries dropped: a function on the places of the rest.
ParseErrorInfoAll(page) ==
  [i \in 1..Len(page) |-> <<entryType(page[i].word), entryCode(page[i].word)>>]
ParseErrorInfo(page) ==
  [i \in {j \in 1..Len(page) : ~allZero(page[j])} |->
     <<entryType(page[i].word), entryCode(page[i].word)>>]

resultUnused == 15
ParseSelfTestAll(page) ==
  [i \in 1..Len(page.entries) |->
     [result |-> page.entries[i] % 16, code |-> page.entries[i] \div 16]]
ParseSelfTest(page) ==
  [i \in {j \in 1..Len(page.entries) : page.entries[j] % 16 # resultUnused} |->
     [result |-> page.entries[i] % 16, code |-> page.entries[i] \div 16]]

asciiField(text) == IF text \in {"zeros", "blanks"} THEN "" ELSE text

\* The number in the i bytes at the end of b, for each i.
littleEndian(b) ==
  LET last[i \in 0..Len(b)] ==
        IF i = 0 THEN 0 ELSE b[Len(b) + 1 - i] + Base * last[i - 1]
  IN  last

\* All ones at the field's own width.
readOptUintWide(b) ==
  LET v == littleEndian(b)[Len(b)] IN IF v = Power[16] - 1 THEN None ELSE v
readOptUint(b) ==
  LET v == littleEndian(b)[Len(b)] IN IF v = Power[Len(b)] - 1 THEN None ELSE v

ParseOCPSmart(page) == [f \in DOMAIN page |-> readOptUint(page[f])]

ParseFirmwareSlots(page) ==
  [active |-> page.byte0 % 8, next |-> (page.byte0 \div 16) % 8,
   revisions |-> [i \in 1..7 |-> asciiField(page.slots[i])]]

-----------------------------------------------------------------------------
(* The collectors.  A metric is its series (the name and the labels that   *)
(* differ), its value, and what it was made from: two metrics of one       *)
(* series are two elements of the set.                                     *)

Metric(series, value, from) == <<series, value, from>>

\* byte & mask: equality is enough for a byte of one bit only.
HasWarningAlone(byte, mask) == byte = mask
HasWarning(byte, mask) == (byte \div mask) % 2 = 1

\* The flags that have a name are told whether set or not, the reserved ones when set.
collectSmart(d) ==
  LET set == {b \in 0..7 : HasWarning(CriticalWarning(d), Mask[b + 1])}
  IN  {Metric(<<"critical_warning_flag", b>>, IF b \in set THEN 1 ELSE 0, b) :
         b \in 0..5 \cup set}

collectOCP(d) ==
  LET p == ParseOCPSmart(OCPSmartPage(d))
  IN  {Metric(f, p[f], f) : f \in {g \in DOMAIN p : p[g] # None}}

\* A slot is numbered from 1; one that holds nothing is left out, as is Next
\* when nothing is pending.
PopulatedSlotsFromZero(f) ==
  {<<i - 1, f.revisions[i]>> : i \in {j \in 1..7 : f.revisions[j] # ""}}
PopulatedSlots(f) ==
  {<<i, f.revisions[i]>> : i \in {j \in 1..7 : f.revisions[j] # ""}}

collectFirmwareSlots(d) ==
  LET f == ParseFirmwareSlots(FirmwareSlotPage(d))
  IN  {Metric(<<"firmware_slot_info", s[1], s[2]>>, 1, s) : s \in PopulatedSlots(f)}
      \cup {Metric(<<"firmware_active_slot">>, f.active, 0)}
      \cup (IF f.next = 0 THEN {} ELSE {Metric(<<"firmware_next_slot">>, f.next, 0)})

\* Grouped: as many entries as there are per status.
Count(s, key) == Cardinality({i \in DOMAIN s : s[i] = key})

collectErrorInfo(d, entries) ==
  LET s == ParseErrorInfo(ErrorInfoPage(d, entries))
  IN  {Metric(<<"error_log_retained_entries", k[1], k[2]>>, Count(s, k), k) :
         k \in Range(s)}

\* A number stands for a name of the two tables, 10 and 0 for "reserved".
selfTestResultName(result) == IF result \in 0..9 THEN result ELSE 10
selfTestCodeName(code) == IF code \in {1, 2, 14} THEN code ELSE 0

selfTestKeyRaw(r) == <<r.result, r.code>>
selfTestKey(r) == <<selfTestResultName(r.result), selfTestCodeName(r.code)>>

\* Of the running test and of the last one only what is not a copied field: not
\* how far the one is, nor at which hour the other ended.
collectSelfTest(d) ==
  LET page == SelfTestPage(d)
      runs == ParseSelfTest(page)
      keys == [i \in DOMAIN runs |-> selfTestKey(runs[i])]
  IN  {Metric(<<"self_test_running">>, IF page.running # 0 THEN 1 ELSE 0, 0)}
      \cup {Metric(<<"self_test_results", selfTestResultName(k[1]),
                    selfTestCodeName(k[2])>>, Count(keys, k), k) : k \in Range(keys)}
      \cup (IF DOMAIN runs = {} THEN {}
            ELSE {Metric(<<"self_test_last_result">>, runs[Min(DOMAIN runs)].result, 0)})

-----------------------------------------------------------------------------
(* A poll.                                                                 *)

FallbackEntries == 8
PageSize(p) ==
  CASE p = "0x01" -> ErrorInfoEntrySize *
         (IF errorLogEntries > 0 THEN errorLogEntries ELSE FallbackEntries)
    [] p = "0x06" -> 4 + RunSlots * 28
    [] OTHER -> 512

\* The entries of the error log that arrive for the size asked for.
Arriving ==
  transferred(logPageCDW10(PageID["0x01"], PageSize("0x01"))) \div ErrorInfoEntrySize

Collected(p, d, entries) ==
  CASE p = "0x02" -> collectSmart(d)
    [] p = "0xc0" -> collectOCP(d)
    [] p = "0x03" -> collectFirmwareSlots(d)
    [] p = "0x01" -> collectErrorInfo(d, entries)
    [] p = "0x06" -> collectSelfTest(d)

Supported(p, yes) == Metric(<<"supported", p>>, yes, p)

Turn(p) ==
  /\ stage <= Len(Stages) /\ Stages[stage] = p
  /\ stage' = stage + 1
  /\ UNCHANGED <<events, polls>>

Asked(p) == seen' = [q \in DOMAIN seen \cup {p} |-> IF q = p THEN drive ELSE seen[q]]

StartPoll ==
  /\ stage > Len(Stages) /\ polls < MaxPolls
  /\ polls' = polls + 1
  /\ stage' = 1 /\ metrics' = {} /\ seen' = <<>>
  /\ UNCHANGED <<drive, events, errorLogEntries, pageUnsupported>>

\* Zero would stand for "not reported".
Identify ==
  /\ Turn("identify") /\ Asked("identify")
  /\ \/ /\ "identify" \notin DOMAIN drive.refuses
        /\ LET id == ParseIdentify(IdentifyPage(drive))
           IN  errorLogEntries' = IF id.errorLogEntries > 0 THEN id.errorLogEntries
                                  ELSE errorLogEntries
        /\ UNCHANGED drive
     \/ /\ "identify" \in DOMAIN drive.refuses
        /\ drive' = Logged(drive, drive.refuses["identify"])
        /\ UNCHANGED errorLogEntries
  /\ UNCHANGED <<pageUnsupported, metrics>>

Skip(p) ==
  /\ Turn(p)
  /\ p \in pageUnsupported
  /\ metrics' = metrics \cup {Supported(p, 0)}
  /\ UNCHANGED <<drive, errorLogEntries, pageUnsupported, seen>>

Read(p) ==
  /\ Turn(p) /\ Asked(p)
  /\ p \notin pageUnsupported
  /\ logPageSizeFits(PageSize(p))
  /\ p \notin DOMAIN drive.refuses
  /\ metrics' = metrics \cup {Supported(p, 1)} \cup Collected(p, drive, Arriving)
  /\ UNCHANGED <<drive, errorLogEntries, pageUnsupported>>

\* The drive puts the refused command into its log.  A status that does not
\* say the page is not there is a failed read.
Refused(p) ==
  /\ Turn(p) /\ Asked(p)
  /\ p \notin pageUnsupported
  /\ logPageSizeFits(PageSize(p))
  /\ p \in DOMAIN drive.refuses
  /\ drive' = Logged(drive, drive.refuses[p])
  /\ \/ /\ decodeStatus(statusField(drive.refuses[p])) = "unsupported"
        /\ pageUnsupported' = pageUnsupported \cup {p}
        /\ metrics' = metrics \cup {Supported(p, 0)}
     \/ /\ decodeStatus(statusField(drive.refuses[p])) = "failed"
        /\ UNCHANGED <<pageUnsupported, metrics>>
  /\ UNCHANGED errorLogEntries

Init ==
  /\ drive \in UsedDrives
  /\ events = 0 /\ polls = 0
  /\ stage = Len(Stages) + 1
  /\ errorLogEntries = 0 /\ pageUnsupported = {}
  /\ metrics = {} /\ seen = <<>>

Life == LogError \/ StartTest \/ EndTest \/ Download \/ Reset \/ Warn \/ Overheat

\* The bounds are used up.
Rest ==
  /\ stage > Len(Stages) /\ polls = MaxPolls
  /\ UNCHANGED vars

Next ==
  \/ Life \/ Rest
  \/ StartPoll \/ Identify
  \/ \E p \in Pages : Skip(p) \/ Read(p) \/ Refused(p)

Spec == Init /\ [][Next]_vars

-----------------------------------------------------------------------------
(* Properties.                                                             *)

TypeOK ==
  /\ drive \in Drives
  /\ events \in 0..MaxEvents /\ polls \in 0..MaxPolls
  /\ stage \in 1..Len(Stages) + 1
  /\ errorLogEntries \in {0} \cup LogSizes
  /\ pageUnsupported \subseteq Pages
  /\ DOMAIN seen \subseteq {Stages[i] : i \in 1..Len(Stages)}
  /\ \A p \in DOMAIN seen : seen[p] \in Drives
  /\ \A m \in metrics : m[2] \in Nat

Told(name) == {<<m[1], m[2]>> : m \in {n \in metrics : n[1][1] = name}}
Answered(p) == p \in DOMAIN seen /\ Metric(<<"supported", p>>, 1, p) \in metrics

\* No response holds two metrics of one series, which the registry would refuse
\* as a whole (errinfo.go:52 and selftest.go:95 group under what becomes the
\* labels).
SeriesDistinct ==
  \A m, n \in metrics : m[1] = n[1] => m = n

\* What a read of the error log reaches: all of it, or the newest eight entries
\* when no Identify has told how many there are.
Reach == IF errorLogEntries > 0 THEN drive.logSize ELSE FallbackEntries

\* collector/smart.go:68 and :123: a flag that is clear is told as clear, a reserved
\* one is told only when the drive sets it, and no flag is taken for another.
WarningsTold ==
  Answered("0x02") =>
    LET set == seen["0x02"].warnings
    IN  Told("critical_warning_flag") =
          {<<<<"critical_warning_flag", b>>, 1>> : b \in set}
            \cup {<<<<"critical_warning_flag", b>>, 0>> : b \in (0..5) \ set}

\* errinfo.go:30 and ParseErrorInfo: the retained entries, grouped by status,
\* are those the drive held when it was asked, as far as the read reaches.
RetainedMatchesLog ==
  Answered("0x01") =>
    LET d     == seen["0x01"]
        known == Min({Len(d.log), Reach})
        read  == [i \in 1..known |-> <<d.log[i].sct, d.log[i].sc>>]
    IN  Told("error_log_retained_entries") =
          {<<<<"error_log_retained_entries", k[1], k[2]>>, Count(read, k)>> :
             k \in Range(read)}

\* The sum of the values of some metrics: as many things as they count.
Total(told) == Cardinality(UNION {{m} \X (1..m[2]) : m \in told})

\* The README, on page 0xc0: every refusal that the exporter takes for "not
\* there" is an entry of the error log, and the same poll shows it there under
\* one of the two statuses that mean it, unless newer entries pushed it out of
\* the log or out of reach.  decodeStatus and ParseErrorInfo read the same status
\* at different places.
RefusalIsOnRecord ==
  LET own == {p \in Pages \cap DOMAIN seen :
                /\ Metric(<<"supported", p>>, 0, p) \in metrics
                /\ seen["0x01"].total - seen[p].total \in 1..Min({drive.logSize, Reach})}
      shown == {m \in Told("error_log_retained_entries") :
                  <<m[1][2], m[1][3]>> \in UnsupportedStatuses}
  IN  Answered("0x01") => Cardinality(own) <= Total(shown)

\* selftest.go:18 and :104: every test that ended is in exactly one of the
\* groups, an unused slot in none, and the last result is that of the test that
\* ended last.
SelfTestsAccounted ==
  Answered("0x06") =>
    LET runs == seen["0x06"].runs
    IN  /\ Total(Told("self_test_results")) = Len(runs)
        /\ {m[2] : m \in Told("self_test_last_result")}
             = {runs[i].result : i \in 1..Min({1, Len(runs)})}

\* fwslot.go:45: the active slot and the next one are numbered like the slots
\* of firmware_slot_info, so that joining them gives the revision that each of the
\* two holds; what a download left in the active slot runs from the reset on.
FirmwareSlotsAgree ==
  Answered("0x03") =>
    LET d == seen["0x03"]
    IN  /\ \E m \in Told("firmware_active_slot") :
             <<<<"firmware_slot_info", m[2], d.slots[d.active]>>, 1>>
               \in Told("firmware_slot_info")
        /\ d.next # 0 => \E m \in Told("firmware_next_slot") :
             <<<<"firmware_slot_info", m[2], d.slots[d.next]>>, 1>>
               \in Told("firmware_slot_info")

\* optional.go:16: a field of page 0xc0 has a metric exactly if the drive
\* implements it, whatever its width, and the metric has the field's value; a
\* value of all ones cannot be told from an absent field.
FieldsTold ==
  Answered("0xc0") =>
    \A f \in DOMAIN Fields :
      LET v == seen["0xc0"].fields[f]
      IN  {m[2] : m \in Told(f[1])} =
            IF v \in {None, Power[Fields[f]] - 1} THEN {} ELSE {v}

\* The README, on thermal_throttle_events_total: "At 255 it stops counting rather
\* than wrapping to 0".
SaturatedIsTold ==
  Answered("0xc0") =>
    LET v == seen["0xc0"].fields[Throttled]
    IN  v # None => <<Throttled, v>> \in Told(Throttled[1])

=============================================================================
