------------------------------ MODULE Exporter ------------------------------
(***************************************************************************)
(* One exporter process: concurrent /metrics requests (Handler, Collect),  *)
(* one goroutine per enumerated controller behind a worker semaphore       *)
(* (collectController and the six collectors it runs in order), and the    *)
(* scrapeState that every request shares.                                  *)
(*                                                                         *)
(* A step is what one goroutine does between two touches of something      *)
(* shared: the drive, a section of state.mu, the semaphore, the log.  What *)
(* a collector puts into the metrics of a page it could parse is left to   *)
(* other modules; here an answer is one of the kinds the control flow      *)
(* tells apart.                                                            *)
(*                                                                         *)
(* An operator that stands in front of another one and has its name with a *)
(* suffix is a faulty variant of it: no action uses it, it is there to     *)
(* show that a property fails when the code goes wrong in this way.        *)
(***************************************************************************)
EXTENDS Naturals, Sequences, FiniteSets

CONSTANTS
  Names,          \* controller names, "nvme0", ...
  Drives,         \* physical drives; a drive stands for its serial number
  NoDrive,        \* the content of an empty slot
  Scrapes,        \* identities of the HTTP requests, each arriving once
  NumCPU,         \* runtime.NumCPU()
  PageOrder,      \* pages of collectController, in the order of its calls
  Verdict,        \* what each drive answers to each command when healthy
  ELPE,           \* the (zero-based) size of each drive's error log
  Faults,         \* ways in which a read of a device, or of sysfs, may fail
  MaxFaults,      \* bound: reads that fail
  MaxSwaps,       \* bound: drives pulled, inserted or exchanged
  MidScrapeSwaps  \* may a drive be exchanged while a request is running?

Pages    == {PageOrder[i] : i \in 1..Len(PageOrder)}
Commands == Pages \cup {"identify"}
Polls    == Scrapes \X Names      \* goroutine of one request for one name
Keys     == Names \X Drives       \* deviceKey: (device, serial)
Reasons  == {"open", "capability", "timeout", "parse", "ioctl"}
ErrKeys  == Keys \X Reasons       \* errKey: (device, serial, reason)
Slots    == Drives \cup {NoDrive}

\* What a healthy drive says to a command: a log page, Invalid Log Page (or
\* Invalid Field), or a page 0xc0 whose GUID is not OCP's.
Verdicts == {"data", "refused", "foreign"}

\* A read that reaches no parser: the device file does not open, the ioctl is
\* refused for lack of CAP_SYS_ADMIN, the context ended, anything else failed.
\* classifyError knows an expired context, but no source of the repository
\* returns one: see Deadlines.
DeviceErrors == {"open", "capability", "expired", "ioctl"}

\* "short" is an answer too short to parse.
Answers == Verdicts \cup DeviceErrors \cup {"short"}

ASSUME ConstantsAssumption ==
  /\ NumCPU \in Nat \ {0}
  /\ NoDrive \notin Drives
  /\ PageOrder \in Seq({"0x02", "0xc0", "0x03", "0x01", "0x06"})
  /\ Verdict \in [Drives -> [Commands -> Verdicts]]
  /\ ELPE \in [Drives -> 0..255]
  /\ Faults \subseteq DeviceErrors \cup {"short", "sysfs"}
  /\ MaxFaults \in Nat
  /\ MaxSwaps \in Nat
  /\ MidScrapeSwaps \in BOOLEAN

\* Only page 0xc0 can be answered with somebody else's data, and no two pages
\* of the order are the same.
ASSUME PagesAssumption ==
  /\ \A d \in Drives, c \in Commands : Verdict[d][c] = "foreign" => c = "0xc0"
  /\ \A i, j \in 1..Len(PageOrder) : PageOrder[i] = PageOrder[j] => i = j

VARIABLES
  \* the machine
  slot,             \* which drive sits behind each name
  faults, swaps,    \* how much of each bound is used up
  \* requests
  request,          \* idle, collecting, answered, or failed with a 500
  ctrls,            \* the Controllers() snapshot each poll works from
  \* goroutines
  pc, stage,        \* the call it is about to make; 0 = inventory, else page
  ok,               \* collectController's ok
  reason,           \* the error on its way into recordError
  entries,          \* error log size read from Identify, or asked for
  \* scrapeState
  errCounts, logged, pageUnsupported, errorLogEntries,
  \* responses
  supported,        \* nvme_logpage_supported, per poll and page
  success,          \* nvme_logpage_scrape_success, per poll
  exposed,          \* nvme_logpage_errors_total, per request
  \* history
  earlier,          \* requests answered before this one arrived
  disturbed,        \* polls during whose request the drive was exchanged
  negatives,        \* answers that say a page is not there, and who gave them
  failed,           \* every collector that failed
  lines             \* the failures that "device polling failed" was logged for

machine     == <<slot, faults, swaps>>
locals      == <<pc, stage, ok, reason, entries>>
scrapeState == <<errCounts, logged, pageUnsupported, errorLogEntries>>
responses   == <<supported, success, exposed>>
history     == <<earlier, disturbed, negatives, failed, lines>>
vars == <<machine, request, ctrls, locals, scrapeState, responses, history>>

Labels == {"off", "waiting", "namespaces", "identify", "remember", "check",
           "size", "read", "mark", "record", "log", "clear", "finish", "done"}

\* Entries of the history variables.
Denials  == [poll : Polls, key : Keys, page : Pages, by : Drives]
Failures == [poll : Polls, key : Keys, stage : 0..Len(PageOrder),
             reason : Reasons]

TypeOK ==
  /\ slot \in [Names -> Slots]
  /\ faults \in 0..MaxFaults /\ swaps \in 0..MaxSwaps
  /\ request \in [Scrapes -> {"idle", "collecting", "answered", "failed"}]
  /\ ctrls \in [Polls -> Slots]
  /\ pc \in [Polls -> Labels]
  /\ stage \in [Polls -> 0..Len(PageOrder) + 1]
  /\ ok \in [Polls -> BOOLEAN]
  /\ reason \in [Polls -> Reasons \cup {"none"}]
  /\ entries \in [Polls -> Nat]
  /\ errCounts \in [ErrKeys -> Nat]
  /\ logged \subseteq ErrKeys
  /\ pageUnsupported \subseteq Keys \X Pages
  /\ errorLogEntries \in [Keys -> Nat]
  /\ supported \in [Polls -> [Pages -> {"absent", "no", "yes"}]]
  /\ success \in [Polls -> {"absent", "no", "yes"}]
  /\ exposed \in [Scrapes -> [ErrKeys -> Nat]]
  /\ earlier \in [Scrapes -> SUBSET Scrapes]
  /\ disturbed \subseteq Polls
  /\ negatives \subseteq Denials
  /\ failed \subseteq Failures
  /\ lines \subseteq Failures

Init ==
  /\ slot \in {f \in [Names -> Slots] :
                 \A m, n \in Names : f[m] = f[n] /\ f[m] # NoDrive => m = n}
  /\ faults = 0 /\ swaps = 0
  /\ request = [s \in Scrapes |-> "idle"]
  /\ ctrls = [g \in Polls |-> NoDrive]
  /\ pc = [g \in Polls |-> "off"]
  /\ stage = [g \in Polls |-> 0]
  /\ ok = [g \in Polls |-> TRUE]
  /\ reason = [g \in Polls |-> "none"]
  /\ entries = [g \in Polls |-> 0]
  /\ errCounts = [k \in ErrKeys |-> 0]
  /\ logged = {}
  /\ pageUnsupported = {}
  /\ errorLogEntries = [k \in Keys |-> 0]
  /\ supported = [g \in Polls |-> [p \in Pages |-> "absent"]]
  /\ success = [g \in Polls |-> "absent"]
  /\ exposed = [s \in Scrapes |-> [k \in ErrKeys |-> 0]]
  /\ earlier = [s \in Scrapes |-> {}]
  /\ disturbed = {} /\ negatives = {} /\ failed = {}
  /\ lines = {}

-----------------------------------------------------------------------------
(* One goroutine.                                                          *)

Key(g)  == <<g[2], ctrls[g]>>
Page(g) == PageOrder[stage[g]]
Goto(g, label) == pc' = [pc EXCEPT ![g] = label]

\* A device that cannot be opened, one that may not be, a read the context
\* ended, an answer that does not parse, and the rest.
classifyErrorByText(a) == a
classifyError(a) ==
  IF a \in {"open", "capability"} THEN a
  ELSE IF a = "expired" THEN "timeout"
  ELSE IF a = "short" THEN "parse" ELSE "ioctl"

isDeviceErrorButStatus(a) == a \notin {"refused", "ioctl"}
isDeviceError(a) == a # "refused"

\* The call of one collector is over: the next collector, or the end of
\* collectController, where a clean poll clears the log marks first.
Advance(g) ==
  /\ stage' = [stage EXCEPT ![g] = @ + 1]
  /\ Goto(g, IF stage[g] < Len(PageOrder) THEN "check"
             ELSE IF ok[g] THEN "clear" ELSE "finish")
  /\ entries' = [entries EXCEPT ![g] = 0]
  /\ reason' = [reason EXCEPT ![g] = "none"]
  /\ UNCHANGED ok

Failure(g, r) == [poll |-> g, key |-> Key(g), stage |-> stage[g], reason |-> r]

\* A collector returns an error: ok = false, and the error goes to recordError.
FailButParse(g, a) ==
  /\ ok' = [ok EXCEPT ![g] = @ /\ a = "short"]
  /\ reason' = [reason EXCEPT ![g] = classifyError(a)]
  /\ failed' = failed \cup {Failure(g, classifyError(a))}
  /\ Goto(g, "record")
  /\ UNCHANGED <<stage, entries>>

Fail(g, a) ==
  /\ ok' = [ok EXCEPT ![g] = FALSE]
  /\ reason' = [reason EXCEPT ![g] = classifyError(a)]
  /\ failed' = failed \cup {Failure(g, classifyError(a))}
  /\ Goto(g, "record")
  /\ UNCHANGED <<stage, entries>>

\* What comes back when g sends command c to whatever is behind its name now.
Reply(g, c, a) ==
  LET d == slot[g[2]] IN
  \/ d = NoDrive /\ a = "open" /\ UNCHANGED faults
  \/ d # NoDrive /\ a = Verdict[d][c] /\ UNCHANGED faults
  \/ /\ d # NoDrive /\ a \in Faults \cap Answers /\ faults < MaxFaults
     /\ a = "short" => Verdict[d][c] # "refused"
     /\ faults' = faults + 1

reportPage(g, available) == supported' = [supported EXCEPT ![g][Page(g)] = available]

-----------------------------------------------------------------------------
(* The sections of scrapeState.mu.                                         *)

pageKnownUnsupportedAnySerial(g) ==
  \E d \in Drives : <<<<g[2], d>>, Page(g)>> \in pageUnsupported
pageKnownUnsupported(g) == <<Key(g), Page(g)>> \in pageUnsupported

markPageUnsupportedButOCP(g) ==
  pageUnsupported' = pageUnsupported \cup
    (IF Page(g) = "0xc0" THEN {} ELSE {<<Key(g), Page(g)>>})
markPageUnsupported(g) ==
  pageUnsupported' = pageUnsupported \cup {<<Key(g), Page(g)>>}

rememberErrorLogEntries(g) ==
  errorLogEntries' = [errorLogEntries EXCEPT ![Key(g)] = entries[g]]

knownErrorLogEntriesAnySerial(g) ==
  errorLogEntries[CHOOSE k \in Keys : k[1] = g[2] /\
    \A l \in Keys : l[1] = g[2] => errorLogEntries[l] <= errorLogEntries[k]]
knownErrorLogEntriesOfThisPoll(g) ==
  IF \E f \in failed : f.poll = g /\ f.stage = 0 THEN 0 ELSE errorLogEntries[Key(g)]
knownErrorLogEntries(g) == errorLogEntries[Key(g)]

FallbackEntries == 8
errorInfoSize(g) ==
  IF knownErrorLogEntries(g) > 0 THEN knownErrorLogEntries(g) ELSE FallbackEntries

\* One section of the mutex counts the failure and claims the log line.
recordErrorUnmarked(g, k) ==
  /\ errCounts' = [errCounts EXCEPT ![k] = @ + 1]
  /\ UNCHANGED logged
recordErrorNewOnly(g, k) ==
  /\ errCounts' = [errCounts EXCEPT ![k] = IF k \in logged THEN @ ELSE @ + 1]
  /\ logged' = logged \cup {k}
recordError(g, k) ==
  /\ errCounts' = [errCounts EXCEPT ![k] = @ + 1]
  /\ logged' = logged \cup {k}

clearLoggedNot(g) == UNCHANGED <<logged, errCounts>>
clearLoggedAndCounts(g) ==
  /\ logged' = {k \in logged : k[1] # Key(g)}
  /\ errCounts' = [k \in ErrKeys |-> IF k[1] = Key(g) THEN 0 ELSE errCounts[k]]
clearLogged(g) ==
  /\ logged' = {k \in logged : k[1] # Key(g)}
  /\ UNCHANGED errCounts

-----------------------------------------------------------------------------
(* A request: Handler enumerates, Collect starts a goroutine per           *)
(* controller, waits for all of them and emits the counters.               *)

PollsOf(s) == {g \in Polls : g[1] = s /\ ctrls[g] # NoDrive}

Handle(s) ==
  /\ request[s] = "idle"
  /\ request' = [request EXCEPT ![s] = "collecting"]
  /\ ctrls' = [g \in Polls |-> IF g[1] = s THEN slot[g[2]] ELSE ctrls[g]]
  /\ pc' = [g \in Polls |->
              IF g[1] = s /\ slot[g[2]] # NoDrive THEN "waiting" ELSE pc[g]]
  /\ earlier' = [earlier EXCEPT ![s] = {t \in Scrapes : request[t] = "answered"}]
  /\ UNCHANGED <<machine, stage, ok, reason, entries, scrapeState, responses,
                 disturbed, negatives, failed, lines>>

\* Controllers() fails: a 500, and no poll.
EnumerationFails(s) ==
  /\ request[s] = "idle"
  /\ "sysfs" \in Faults /\ faults < MaxFaults
  /\ faults' = faults + 1
  /\ request' = [request EXCEPT ![s] = "failed"]
  /\ UNCHANGED <<slot, swaps, ctrls, locals, scrapeState, responses, history>>

\* The semaphore of this request: its polls that got in and did not leave.
Workers(s) ==
  IF Cardinality(PollsOf(s)) < NumCPU THEN Cardinality(PollsOf(s)) ELSE NumCPU
Holders(s) == {g \in PollsOf(s) : pc[g] \notin {"waiting", "done"}}

Acquire(g) ==
  /\ pc[g] = "waiting"
  /\ Cardinality(Holders(g[1])) < Workers(g[1])
  /\ Goto(g, "namespaces")
  /\ UNCHANGED <<machine, request, ctrls, stage, ok, reason, entries,
                 scrapeState, responses, history>>

\* wg.Wait, then emitErrorCounters under the mutex.
Waited(s) == \A g \in PollsOf(s) : pc[g] = "done"

Respond(s) ==
  /\ request[s] = "collecting"
  /\ Waited(s)
  /\ exposed' = [exposed EXCEPT ![s] = errCounts]
  /\ request' = [request EXCEPT ![s] = "answered"]
  /\ UNCHANGED <<machine, ctrls, locals, scrapeState, supported, success, history>>

-----------------------------------------------------------------------------
(* collectInventory.                                                       *)

\* A failure here is logged and nothing else.
EnumerateNamespaces(g) ==
  /\ pc[g] = "namespaces"
  /\ Goto(g, "identify")
  /\ \/ UNCHANGED faults
     \/ /\ "sysfs" \in Faults /\ faults < MaxFaults
        /\ faults' = faults + 1
  /\ UNCHANGED <<slot, swaps, request, ctrls, stage, ok, reason, entries,
                 scrapeState, responses, history>>

\* ELPE is zero-based.
ReadIdentify(g) ==
  /\ pc[g] = "identify"
  /\ \E a \in Answers :
       /\ Reply(g, "identify", a)
       /\ \/ /\ a = "data"
             /\ entries' = [entries EXCEPT ![g] = ELPE[slot[g[2]]] + 1]
             /\ Goto(g, "remember")
             /\ UNCHANGED <<stage, ok, reason, failed>>
          \/ /\ ~isDeviceError(a)
             /\ Advance(g)
             /\ UNCHANGED failed
          \/ /\ a # "data" /\ isDeviceError(a)
             /\ Fail(g, a)
  /\ UNCHANGED <<slot, swaps, request, ctrls, scrapeState, responses, earlier,
                 disturbed, negatives, lines>>

Remember(g) ==
  /\ pc[g] = "remember"
  /\ rememberErrorLogEntries(g)
  /\ Advance(g)
  /\ UNCHANGED <<machine, request, ctrls, errCounts, logged, pageUnsupported,
                 responses, history>>

-----------------------------------------------------------------------------
(* collectSmart, collectOCP, collectFirmwareSlots, collectErrorInfo,       *)
(* collectSelfTest.                                                        *)

Check(g) ==
  /\ pc[g] = "check"
  /\ \/ /\ pageKnownUnsupported(g)
        /\ reportPage(g, "no")
        /\ Advance(g)
     \/ /\ ~pageKnownUnsupported(g)
        /\ Goto(g, IF Page(g) = "0x01" THEN "size" ELSE "read")
        /\ UNCHANGED <<supported, stage, ok, reason, entries>>
  /\ UNCHANGED <<machine, request, ctrls, scrapeState, success, exposed, history>>

Size(g) ==
  /\ pc[g] = "size"
  /\ entries' = [entries EXCEPT ![g] = errorInfoSize(g)]
  /\ Goto(g, "read")
  /\ UNCHANGED <<machine, request, ctrls, stage, ok, reason, scrapeState,
                 responses, history>>

Denial(g) == [poll |-> g, key |-> Key(g), page |-> Page(g), by |-> slot[g[2]]]

\* A page that came back is there even when it does not parse; a device that
\* failed has said nothing about the page.
ReadDenyingOnFailure(g) ==
  /\ pc[g] = "read"
  /\ \E a \in Answers :
       /\ Reply(g, Page(g), a)
       /\ \/ /\ a = "data"
             /\ reportPage(g, "yes")
             /\ Advance(g)
             /\ UNCHANGED <<failed, negatives>>
          \/ /\ ~isDeviceError(a) \/ a = "foreign"
             /\ negatives' = negatives \cup {Denial(g)}
             /\ Goto(g, "mark")
             /\ UNCHANGED <<supported, stage, ok, reason, entries, failed>>
          \/ /\ a = "short"
             /\ reportPage(g, "yes")
             /\ Fail(g, a)
             /\ UNCHANGED negatives
          \/ /\ a \in DeviceErrors /\ isDeviceError(a)
             /\ reportPage(g, "no")
             /\ Fail(g, a)
             /\ UNCHANGED negatives
  /\ UNCHANGED <<slot, swaps, request, ctrls, scrapeState, success, exposed,
                 earlier, disturbed, lines>>

Read(g) ==
  /\ pc[g] = "read"
  /\ \E a \in Answers :
       /\ Reply(g, Page(g), a)
       /\ \/ /\ a = "data"
             /\ reportPage(g, "yes")
             /\ Advance(g)
             /\ UNCHANGED <<failed, negatives>>
          \/ /\ ~isDeviceError(a) \/ a = "foreign"
             /\ negatives' = negatives \cup {Denial(g)}
             /\ Goto(g, "mark")
             /\ UNCHANGED <<supported, stage, ok, reason, entries, failed>>
          \/ /\ a = "short"
             /\ reportPage(g, "yes")
             /\ Fail(g, a)
             /\ UNCHANGED negatives
          \/ /\ a \in DeviceErrors /\ isDeviceError(a)
             /\ Fail(g, a)
             /\ UNCHANGED <<supported, negatives>>
  /\ UNCHANGED <<slot, swaps, request, ctrls, scrapeState, success, exposed,
                 earlier, disturbed, lines>>

Mark(g) ==
  /\ pc[g] = "mark"
  /\ markPageUnsupported(g)
  /\ reportPage(g, "no")
  /\ Advance(g)
  /\ UNCHANGED <<machine, request, ctrls, errCounts, logged, errorLogEntries,
                 success, exposed, history>>

-----------------------------------------------------------------------------
(* collectController, after a collector returned an error and at the end.  *)

\* The line is written after the mutex is released, so it is a step of its own.
Record(g) ==
  LET k == <<Key(g), reason[g]>> IN
  /\ pc[g] = "record"
  /\ recordError(g, k)
  /\ \/ /\ k \in logged
        /\ Advance(g)
     \/ /\ k \notin logged
        /\ Goto(g, "log")
        /\ UNCHANGED <<stage, ok, reason, entries>>
  /\ UNCHANGED <<machine, request, ctrls, pageUnsupported, errorLogEntries,
                 responses, history>>

Log(g) ==
  /\ pc[g] = "log"
  /\ lines' = lines \cup {Failure(g, reason[g])}
  /\ Advance(g)
  /\ UNCHANGED <<machine, request, ctrls, scrapeState, responses, earlier,
                 disturbed, negatives, failed>>

Clear(g) ==
  /\ pc[g] = "clear"
  /\ clearLogged(g)
  /\ Goto(g, "finish")
  /\ UNCHANGED <<machine, request, ctrls, stage, ok, reason, entries,
                 pageUnsupported, errorLogEntries, responses, history>>

\* Emits the gauge and lets go of the semaphore.
Finish(g) ==
  /\ pc[g] = "finish"
  /\ success' = [success EXCEPT ![g] = IF ok[g] THEN "yes" ELSE "no"]
  /\ Goto(g, "done")
  /\ UNCHANGED <<machine, request, ctrls, stage, ok, reason, entries,
                 scrapeState, supported, exposed, history>>

-----------------------------------------------------------------------------
(* The operator, and the whole.                                            *)

\* A drive is pulled from a slot, or another one put in its place.
Swap(n, d) ==
  /\ swaps < MaxSwaps
  /\ slot[n] # d
  /\ d = NoDrive \/ \A m \in Names : slot[m] # d
  /\ MidScrapeSwaps \/ \A s \in Scrapes : request[s] # "collecting"
  /\ slot' = [slot EXCEPT ![n] = d]
  /\ swaps' = swaps + 1
  /\ disturbed' = disturbed \cup
       {g \in Polls : g[2] = n /\ request[g[1]] = "collecting"}
  /\ UNCHANGED <<faults, request, ctrls, locals, scrapeState, responses, earlier,
                 negatives, failed, lines>>

\* Every request of the bound has its answer.
Quiescent ==
  /\ \A s \in Scrapes : request[s] \in {"answered", "failed"}
  /\ UNCHANGED vars

PollStep(g) ==
  \/ Acquire(g) \/ EnumerateNamespaces(g) \/ ReadIdentify(g) \/ Remember(g)
  \/ Check(g) \/ Size(g) \/ Read(g) \/ Mark(g)
  \/ Record(g) \/ Log(g) \/ Clear(g) \/ Finish(g)

Next ==
  \/ \E s \in Scrapes : Handle(s) \/ EnumerationFails(s) \/ Respond(s)
  \/ \E g \in Polls : PollStep(g)
  \/ \E n \in Names, d \in Slots : Swap(n, d)
  \/ Quiescent

Spec == Init /\ [][Next]_vars

-----------------------------------------------------------------------------
(* Properties.                                                             *)

ErrKeyOf(f) == <<f.key, f.reason>>
Pending(label) == {Failure(g, reason[g]) : g \in {h \in Polls : pc[h] = label}}
Clean(g) == pc[g] \in {"finish", "done"} /\ ok[g]

\* collector.go:73 and :232: a controller is not asked again for a page it
\* said it does not have, because each refused read fills its error log.  Two
\* requests that overlap may both ask, since the check and the mark are two
\* sections of the mutex; a request that arrives after another was answered
\* never repeats what that one was told.
ReaskNeedsOverlap ==
  \A m, n \in negatives :
    m.key = n.key /\ m.page = n.page /\ m.poll # n.poll
      => m.poll[1] \notin earlier[n.poll[1]]

\* smart.go:95, ocp.go:97, :104: only the two permanent answers are remembered,
\* so the cache never says of a drive that it lacks a page it serves, whatever
\* transient failures came before; only a drive exchanged under a running
\* request can have answered in another's name.
UnsupportedIsTruthful ==
  \A u \in pageUnsupported :
    \/ Verdict[u[1][2]][u[2]] # "data"
    \/ \E n \in negatives : n.key = u[1] /\ n.page = u[2] /\ n.poll \in disturbed

\* collector.go:26: a scrape that no exchange of drives disturbed reports a
\* page as unsupported only of a controller that does not serve it, and as
\* supported only of one that does not refuse it: the memory of one drive
\* never decides for the next one in its slot.
SupportedGaugeTruthful ==
  \A g \in Polls \ disturbed, p \in Pages :
    /\ supported[g][p] = "no"  => Verdict[ctrls[g]][p] # "data"
    /\ supported[g][p] = "yes" => Verdict[ctrls[g]][p] # "refused"

\* A finished poll has reported every page as there or not there, except the
\* pages whose read failed: no gauge for those (smart.go:95), unless what
\* failed was the parser, for then the page exists (ocp.go:109).
GaugeAccountsForPage ==
  \A g \in Polls, i \in 1..Len(PageOrder) :
    pc[g] = "done" =>
      LET errors == {f.reason : f \in {e \in failed : e.poll = g /\ e.stage = i}}
      IN  /\ supported[g][PageOrder[i]] = "absent" <=> errors \ {"parse"} # {}
          /\ "parse" \in errors => supported[g][PageOrder[i]] = "yes"

\* collector.go:154-191: scrape_success is 0 exactly for the polls in which a
\* collector failed, at whatever stage, and every poll of an answered request
\* has one.
SuccessTellsFailure ==
  \A g \in Polls :
    /\ success[g] # "absent" =>
         (success[g] = "no" <=> \E f \in failed : f.poll = g)
    /\ request[g[1]] = "answered" /\ ctrls[g] # NoDrive => success[g] # "absent"

\* collector.go:193, :146: the response of a request counts every failure of
\* its own polls and of the requests answered before it arrived, and never
\* more than there were, however many polls count at the same time.
ExposedCoversFailures ==
  \A s \in Scrapes, k \in ErrKeys :
    LET of(scrapes) == {f \in failed : ErrKeyOf(f) = k /\ f.poll[1] \in scrapes}
    IN  request[s] = "answered" =>
          /\ exposed[s][k] >= Cardinality(of({s} \cup earlier[s]))
          /\ exposed[s][k] <= Cardinality(of(Scrapes))

\* collector.go:211: a scraper that asks again after it was answered never sees
\* a counter go down, whatever other requests did in between.
CountersMonotoneForScraper ==
  \A s, t \in Scrapes :
    t \in earlier[s] /\ request[s] = "answered" =>
      \A k \in ErrKeys : exposed[t][k] <= exposed[s][k]

\* collector.go:70, :193: a failing controller is logged once per reason, and
\* once more after each clean poll of it; a failure that is counted has been
\* logged, or is about to be.
LogBudget ==
  \A k \in ErrKeys :
    LET claimed == {f \in lines \cup Pending("log") : ErrKeyOf(f) = k}
    IN  /\ Cardinality(claimed)
             <= 1 + Cardinality({g \in Polls : Clean(g) /\ Key(g) = k[1]})
        /\ errCounts[k] > 0 => claimed # {}

\* collector.go:181: a failure that recurs after a clean poll is logged again,
\* by the poll that meets it or by one that met it since.
RecurrenceIsLogged ==
  \A f \in failed \ Pending("record"), g \in Polls :
    Clean(g) /\ Key(g) = f.key /\ g[1] \in earlier[f.poll[1]] =>
      \E l \in lines \cup Pending("log") :
        ErrKeyOf(l) = ErrKeyOf(f) /\ l.poll[1] \notin {g[1]} \cup earlier[g[1]]

\* The polls of g's controller in this request and in those answered before it.
SameKey(g) == {h \in Polls : Key(h) = Key(g) /\ h[1] \in {g[1]} \cup earlier[g[1]]}

\* A poll whose Identify gave no length.
NoLength(g) ==
  \/ Verdict[ctrls[g]]["identify"] = "refused"
  \/ \E f \in failed : f.poll = g /\ f.stage = 0

\* errinfo.go:20, inventory.go:115: the error log is read to the length its own
\* controller gave, in this poll or in an earlier one, and the eight entries of
\* the fallback are read only when none of them got a length.
ReadSizeIsOwn ==
  \A g \in Polls \ disturbed :
    pc[g] = "read" /\ Page(g) = "0x01" =>
      \/ entries[g] = ELPE[ctrls[g]] + 1
      \/ entries[g] = FallbackEntries /\ \A h \in SameKey(g) : NoLength(h)

\* The counters and the log lines are those of Ledger, where a failure is counted
\* in one step with the decision to log it, an answer shows one moment, and a line
\* is written once in an episode (collector.go:193-230).  A line is owed from the
\* section of the mutex on, and the goroutine that owes it is at "log".
Book == INSTANCE Ledger WITH
  Readers <- Scrapes, Counters <- ErrKeys, Occurrences <- Failures,
  CounterOf <- [f \in Failures |-> ErrKeyOf(f)],
  waiting <- {s \in Scrapes : request[s] = "collecting"},
  answered <- {s \in Scrapes : request[s] = "answered"},
  count <- errCounts, failing <- logged,
  owed <- lines \cup Pending("log"), written <- lines, shown <- exposed

ImplementsLedger == Book!Spec

=============================================================================
