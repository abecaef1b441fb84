# Specifications of nvme_logpage_exporter

TLA+ models of the exporter in `src/`, configurations that check them with TLC,
and proofs that TLAPS checks. The models are written from the Go code; where a
comment or a document says something else, that is a finding (below).

## The system

One process. `main.go` opens a *source* (the ioctl source, or a directory of
dumps to replay) and either serves `/metrics` or runs the `dump` command once.

| Part | State it keeps | Operations | Talks to |
|---|---|---|---|
| scrape pipeline (`collector.go`, `handler.go`, `errors.go`) | `scrapeState`: error counters, log marks, page cache, error log sizes, all under one mutex and shared by every request; per request a snapshot of the controllers, a semaphore, a wait group | `Handler`, `Collect`, `collectController`, `recordError`, `clearLogged`, the cache accessors | the source; Prometheus; the log |
| inventory and page collectors (`inventory.go`, `smart.go`, `ocp.go`, `fwslot.go`, `errinfo.go`, `selftest.go`) | none of their own | one `collect...` per page, called in a fixed order | the page cache and the sizes in `scrapeState`; the source; the parsers |
| time limits (`handler.go`, `collector.go`, `ioctl_linux.go`) | the deadline of each context | `scrapeDeadline`, `context.WithTimeout`, `timeoutMillis` | the kernel, through the limit in each command |
| admin commands (`passthru.go`, `ioctl_linux.go`) | none | `logPageSize`, `logPageCDW10`, `decodeStatus`, `admin` | `/dev/nvmeN` |
| parsers (`logpage/`) | none | `Parse...`, `Uint128` | nothing |
| sysfs (`sysfs.go`) | none | `Controllers`, `Namespaces`, `MDMembership` | `/sys` |
| dump (`dump.go`) | the directory it writes | `Run`, `dumpIdentify`, `dumpPages`, the scrubbing of serials | the source; the file system |
| replay (`replay.go`) | the parsed `meta.json` | `NewReplay`, `readBin` | the directory that a dump run wrote |

The rest (flags, HTTP server, metric registry, dashboards, packaging) is wiring
or static files, see "Not modelled".

What is hard here, and what makes each part correct:

* **Requests overlap.** Each one starts a goroutine per controller, and all of
  them use one `scrapeState`, in sections of its mutex with device reads in
  between. The counters must lose nothing and never go down; a page that a
  drive denied must not be asked for again, because each refused read adds an
  entry to the drive's own error log; a failure must be logged once, and again
  after a recovery.
* **Reads fail.** Six collectors run one after the other and any may fail in
  one of several ways. A refusal is permanent and remembered, a failure is
  not; `scrape_success` and the `supported` gauge must tell the truth in all of
  these cases.
* **Drives are exchanged**, between requests or under a running one. State is
  keyed by name *and* serial; the serial is from the snapshot, the read goes to
  whatever is behind the name.
* **Sysfs is read file by file** while drives, namespaces, arrays and firmware change. The labels
  and sizes of one controller come from up to a dozen reads of two sources, and the namespaces are
  listed twice; any file may be unreadable, and a serial may be blank. What is reported must have
  been so, and of one drive.
* **Controllers hang.** No Go timer reaches an ioctl in uninterruptible sleep, so
  the limit that goes into the command is all that ends it, and a hung
  controller holds a worker that others queue for.
* **A dump run dies half-way**, or writes into a directory that has been used.
* **Pages encode things in unlike ways.** Counts that are zero-based beside counts that are
  not, a status that has a phase tag below it in one place and not in another, "unused" as
  all zeros, all ones, or a nibble of ones. What the exporter groups and counts must be what
  the drive meant, and no response may hold a series twice, since the registry then refuses
  all of it.
* **The serial is scrubbed from a buffer that is searched while it is written.**

## Modules

```
Ledger          what is promised about failures LedgerProofs     EXTENDS Ledger, TLAPS
Exporter        the scrape pipeline             ExporterProofs   EXTENDS Exporter, TLAPS; INSTANCE LedgerProofs
  MCExporter    values for TLC                  ExporterAccounts EXTENDS ExporterProofs
Inventory       sysfs, and what comes of it     InventoryProofs  EXTENDS Inventory, TLAPS
  MCInventory   values for TLC
Deadlines       the time in one request         DeadlinesProofs  EXTENDS Deadlines, TLAPS
  MCDeadlines   values for TLC
Archive         what a directory of dumps promises
Dump            dump command and replay source  DumpProofs       EXTENDS Dump, TLAPS; INSTANCE Archive
  MCDump        values for TLC
Scrub           serials taken out of a buffer   ScrubProofs      EXTENDS Scrub, TLAPS
  MCScrub       values for TLC
AdminCommand    lengths and statuses
LogPages        EXTENDS AdminCommand: a drive   LogPagesProofs   EXTENDS LogPages, TLAPS
                in use, its pages, and what is made of them
  MCLogPages    values for TLC
```

`Exporter` is shown to implement `Ledger`: it instantiates it as `Book` with a refinement mapping,
and `ImplementsLedger` is a property of a run and a theorem. `Dump` is shown to implement `Archive`
in the same way (`Kept`, `ImplementsArchive`).

Exporter, LogPages and Inventory look at the same collectors from three sides. Exporter has requests
that overlap and reads that fail, and knows of a page only whether it could be had. LogPages has one
request at a time and no failures but refusals, and what is in the pages. Inventory has one request
at a time and a host that changes between any two reads of sysfs, and of the pages only 0xc0,
whose label comes from sysfs.

Some operators come in pairs, `Read` and `ReadDenyingOnFailure` for example. The
longer name is a faulty variant; no action uses it. For every property of a
passing run there is at least one variant which, put in the place of the real operator,
makes TLC find that property violated: the list is "mutants" in `PROJECT.json`.

### Exporter

A step is what one goroutine does between two touches of something shared: the
drive, a section of `state.mu`, the semaphore, the log. A *poll* `<<s, n>>` is
the goroutine that request `s` starts for controller name `n`.

| State | Code |
|---|---|
| `slot` | the drive behind each name; a drive stands for its serial |
| `request`, `ctrls` | the request and the `Controllers()` snapshot that Handler gives it |
| `pc`, `stage`, `ok`, `reason`, `entries` | where a goroutine is in `collectController`, and its locals |
| `errCounts`, `logged`, `pageUnsupported`, `errorLogEntries` | the four maps of `scrapeState` |
| `supported`, `success`, `exposed` | the metrics that the response carries |
| `earlier`, `disturbed`, `negatives`, `failed`, `lines` | history, read by properties only |

| Action | Code |
|---|---|
| `Handle`, `EnumerationFails` | Handler and the start of Collect, up to the `go` statements |
| `Acquire`, `Finish` | `sem <-`, and the two gauges with the deferred release |
| `EnumerateNamespaces`, `ReadIdentify`, `Remember` | `collectInventory` |
| `Check`, `Size`, `Read`, `Mark` | the shape the five page collectors share |
| `Record`, `Log`, `Clear` | `recordError` under the mutex, its line after it, `clearLogged` |
| `Respond` | `wg.Wait` and `emitErrorCounters` |
| `Swap` | an operator, hot-plugging |

What a read returns is abstracted to the kinds that the control flow tells apart:
data, a refusal, a page 0xc0 with a foreign GUID, data too short to parse, and the
device failures that `classifyError` separates. Short data is what a replay source
gives while its file is being rewritten. An expired context is in the model because
`classifyError` has a branch for it, but no run enables it: no source returns it (see
the finding on `CutReadIsATimeout`). `MaxFaults` and `MaxSwaps` bound the failed reads
and the exchanges of drives; each request arrives once, so `Scrapes` bounds the
requests. What a healthy drive serves does not change while the process runs, and
serials are readable and distinct (Inventory is without these two assumptions).

### Ledger

What an operator may rely on about failures, without goroutines, mutexes or reads. `count` is
raised in the same step that decides whether a line is owed; an answer shows the counters of one
moment; a line is written once, only if it is owed; an episode of a counter ends when the device is
found well; and nothing happens while nobody waits for an answer. In the mapping a line is owed
from the section of the mutex in `recordError` on, although the goroutine writes it only later
(`owed <- lines \cup Pending("log")`); `failing` is the map of log marks and `shown` what the
responses carry. `Handle` is `Arrive`, `Respond` is `Answer`, `Record` is `Fail`, `Log` is `Write`,
`Clear` is `Recover`, and everything else is a stutter.

### Inventory

One request at a time, and what it learns from sysfs. A step is one directory listing or one file.
Numbers and texts are abstracted to the drive they belong to, so a property can tell when the size
of one drive is shown under the serial of another.

| State | Code |
|---|---|
| `host` | sysfs and the hardware: the drive and the state of each controller, its namespaces, the arrays and their members, which drive serves page 0xc0 |
| `phase`, `listed`, `unread`, `next`, `attr` | `Controllers`: its listing, and the attributes read so far |
| `arrays`, `md` | `MDMembership`: the arrays still to be read, and its map |
| `pc`, `poll` | where each `collectController` is, and what it has read and sent |
| `pageUnsupported` | what `scrapeState` remembers of page 0xc0, by name and serial |
| `past`, `clean`, `refusals` | history, read by properties only: the hosts since the request arrived, whether every read succeeded, who refused |

| Action | Code |
|---|---|
| `Handle`, `ReadAttribute` | Handler and `Controllers`, one `readAttr` after the other |
| `ListArrays`, `ReadArray` | `MDMembership` |
| `StartPolls`, `Acquire`, `Respond` | `Collect` |
| `ListNamespaces`, `ReadSize`, `ReadSector` | `Namespaces` and its `readUint`s, from `collectInventory` |
| `Identify` | the part of `collectInventory` that asks the drive, with `device_info` |
| `Check`, `ReadOCP`, `Label` | `collectOCP`, whose `namespaceOne` lists the namespaces again |
| `Swap`, `SetState`, `Attach`, `Detach`, `Join`, `Leave`, `Update` | the host: hot-plugging, the kernel, mdadm, a firmware update |

The series are functions of that state (`ControllerState`, `NamespacesActive`, `DeviceInfo`, ...).
A drive may have a blank serial (`Unnamed`) or give no model over the wire (`Mute`); one name may be
the beginning of another (`Begins`), since `Namespaces` tells block devices apart by their names.
`MaxTroubles` bounds the changes and the reads that fail, `MaxRequests` the requests.

### Deadlines

One request and its controllers, with time in half milliseconds, since what matters is
how `Milliseconds()` rounds. The process's own computing takes no time; a command
takes as long as the controller or its limit lets it. The header is either unusable or
a number of milliseconds (possibly negative or beyond the cap); `MaxWord` stands for
the largest uint32 and `KernelDefault` for what the driver makes of a limit of 0.

### Dump

The dump command works through the controllers and, for each, `identify.bin` and the
page files in the order of its table. Writing a file is two steps, truncation and
content, and the process may be killed between any two. The bytes are abstracted to
which run wrote them. `told` is the history of how the drives answered each run: for every file of
every controller, data, a refusal, or that it was never asked for. A replay source can be opened
whenever `meta.json` is whole.

### Archive

What whoever replays a directory may rely on, without files, truncation, failures or kills. It is
closed while a run asks the drives, opens in one step once every drive has answered everything, and
keeps these answers. In the mapping `heard` is what the last run was told, `content` how a source on
the directory answers (closed unless `meta.json` is whole), and `mixed` whether an earlier run wrote
to it, of which nothing is promised. `Start` in a new directory is `Begin`, a `Read` that is answered
is `Hear`, the second step of `WriteMeta` is `Publish`; the rest are stutters, among them every
`Write`, failure and kill.

### Scrub

`scrubSerialOccurrences` with what its two callers do before it. A step is one turn of the
loop. A byte is a member of `Chars`; the two fields, the placeholder (`X` in the code) and the
least length of a serial that is looked for are parameters. What the SN field is filled with
(`SCRUBBED` and blanks) and what SUBNQN is filled with (zeros) is one symbol, which may well be
part of the serial.

### AdminCommand and LogPages

AdminCommand has the arithmetic: the length field of a Get Log Page command as the exporter
writes it and the drive reads it, and the two places in which a status is taken apart.

LogPages is one drive and the polls of it. The drive (`drive`) is held as what it means: the
statuses in its error log, the self-tests it ran, which slot holds which revision. The
operators named after pages (`ErrorInfoPage`, `SelfTestPage`, ...) encode that as a drive does, and
the operators named after Go functions decode it, so a property compares the metrics with the
meaning and not with the encoding. Things happen to the drive at any time (`LogError`, `StartTest`,
`EndTest`, `Download`, `Reset`, `Warn`, `Overheat`, and every refused command, which it logs), also
between two pages of a poll, so `seen` remembers the drive as each page found it.

| State | Code |
|---|---|
| `stage` | the call of `collectController` that is next |
| `errorLogEntries`, `pageUnsupported` | what `scrapeState` remembers of this drive |
| `metrics` | what the poll has sent to its channel |

| Action | Code |
|---|---|
| `StartPoll` | `collectController` begins |
| `Identify` | the part of `collectInventory` that reads Identify and remembers the length of the error log |
| `Skip`, `Read`, `Refused` | one `collect...` whose page is known to be unsupported, arrives, or is refused |

Fields that are copied into one metric are left out, with their units and those of which a zero
means "none". So are the metrics that come from sysfs.

## Runs

| Run | What it asks | Bounds |
|---|---|---|
| `MCExporter_pages` | `TypeOK`, `GaugeAccountsForPage`, `SuccessTellsFailure`, `SupportedGaugeTruthful`, `ReadSizeIsOwn` | 2 requests, all 5 pages, 2 drives (one denies two pages), 1 exchange between requests, 2 failed reads |
| `MCExporter_recovery` | `ExposedCoversFailures`, `CountersMonotoneForScraper`, `LogBudget`, `RecurrenceIsLogged`, `ImplementsLedger` | 3 requests, 1 page, 2 failures |
| `MCExporter_swaps` | `UnsupportedIsTruthful`, `ReaskNeedsOverlap` | 2 requests, 2 controllers with one worker, 2 drives and 2 exchanges at any time, 1 failure |
| `MCInventory_scrapes` | `DiscoveredMatchesHost`, `StateWasTrue`, `NamespacesMatchHost`, `MembershipWasTrue`, `InfoIsOfOneDrive`, `UsedDividesBySize`, `RefusalIsItsOwn`, `EveryRequestAnswered` | 2 requests, `nvme1` and `nvme10` with one worker, 3 drives, 2 namespaces, 2 arrays, 2 changes or failed reads |
| `MCDeadlines_limits` | `TypeOK`, `LimitInRange`, `PollBounded`, `ScrapeBounded`, `HungDoesNotSpread`, `EveryPollEnds` | 2 hung and 2 working controllers, 2 workers, 2 commands each, 7 headers |
| `MCDump_replay` | `ReplayAnswersLikeDrive`, `ImplementsArchive` | 2 runs, 2 controllers, 2 pages, 1 failure, kills anywhere |
| `MCLogPages_polls` | `TypeOK`, `SeriesDistinct`, `WarningsTold`, `RetainedMatchesLog`, `RefusalIsOnRecord`, `SelfTestsAccounted`, `FirmwareSlotsAgree`, `FieldsTold` | 2 polls and 2 things that happen, drives that lack nothing, one page or four, error logs of 2 and 9 entries, new or full |
| `MCScrub_scan` | `TypeOK`, `NoSerialLeft`, `OnlySerialTouched`, `ScanEnds` | all buffers of up to 7 bytes over 3 symbols, 7 serials |
| `MCExporter_swap_back`, `MCDeadlines_cut`, `MCDump_reused_dir`, `MCLogPages_saturated` | one finding each | as small as shows it |

The type invariants of Inventory and Dump are theorems; no run asks for them again.

Why these bounds are enough to be interesting:

* Exporter: every property of the shared state is about two polls and the order of their sections; a
  third request lets a failure come back after a clean poll that others overlap (recovery). The pages
  differ only in three ways (0xc0 can be foreign, 0x01 has a size, the others neither), so only
  `MCExporter_pages` needs all of them. Two exchanges under running requests let another drive
  answer in the name of the first, and the first come back; two controllers behind one worker
  make a poll wait while that happens. Requests are interchangeable, so these runs declare
  symmetry (their one temporal property, `ImplementsLedger`, asks nothing of fairness, and the
  requests are alike in it).
* Inventory: two troubles are a drive that leaves and another that takes its place, a namespace that
  goes and one that comes, or one of these and a read that fails. A second request is needed only
  for what is remembered of the first. The names are such that one begins the other, the arrays
  are read in their order, and one of the drives has no serial and another no model.
* Deadlines: there are as many hung controllers as workers, so the working ones have to queue behind
  them, and the "uint32" is smaller than the device timeout, so it overflows.
* LogPages: an error log of 9 entries is longer than the fallback of 8 and one of 2 overflows at
  once; the self-test log is cut from 20 slots to 2 for the same reason (the size that is asked for
  scales with it). The results of the self-tests include two with the same name. A byte of page 0xc0
  holds three values instead of 256, so that the sentinel of a field of 16 bytes is still a number
  that TLC can hold; a field starts one below its sentinel, so one event saturates it. Statuses,
  nibbles and the Critical Warning byte have their real widths. `Warnings` says which values that
  byte takes: here none and all of its bits, a reserved one alone, and two named ones together;
  in the proofs it is any set of the 256 values.
* Scrub: seven bytes hold three overlapping or two separate occurrences of a serial of three, with
  bytes before and after them. The serials overlap themselves, or have the placeholder at one end,
  inside or throughout.

No run turns deadlock checking off. Where the system really comes to rest (every request of the
bound answered, every dump run done, the bounds of the polls used up, the buffer scanned) the
next-state relation has a step that says so.

## Fairness

`Inventory!FairSpec` is weak fairness of the steps of the request and of the steps of each poll. The
Go scheduler runs every goroutine that can run, nothing blocks in a section of the mutex, and every
read ends: sysfs does not block and an ioctl has a limit (that is what `Deadlines` is about). A
place in the semaphore is handed to whichever goroutine comes first, and weak fairness is enough
because every goroutine takes its place only once. Requests, changes of the host and failures are
not fair: nothing makes them happen. `Deadlines!FairSpec` says only that time passes and goroutines
run, and `Scrub!FairSpec` that the one goroutine of the command does. `ImplementsLedger` and
`ImplementsArchive` are safety properties and need no fairness.

## Findings

1. **A drive exchanged under a running request poisons the cache of the one it replaced**
   (`MCExporter_swap_back`). The serial in the key is the snapshot's, the read goes by name. When
   the first drive comes back, its page is reported as unsupported until a restart.
   `collector.go:52`: "Serial is part of the key so a drive swap resets the state." It does
   when drives are exchanged between requests, which is proved.
2. **A read ended by its deadline is counted under `ioctl`** (`MCDeadlines_cut`): reason
   `timeout`, which the alert text at `rules.yml:282` tells operators about, cannot occur with
   either source.
3. **A dump into a used directory keeps files of pages that are refused now**
   (`MCDump_reused_dir`), against `CONTRIBUTING.md:61`.
4. **A saturated throttle counter disappears** (`MCLogPages_saturated`). At 255 the field is all
   ones, which `readOptUint` takes for "not implemented", so the series ends there.
   `README.md:252`: "At 255 it stops counting rather than wrapping to 0."

Two more divergences are not runs, since the code says it means them. Two overlapping requests both
ask a drive for a page it denies, where `collector.go:73` says "Asked once each"; what holds
is `ReaskNeedsOverlap`, which is proved. A poll that could not list namespaces reports
`scrape_success` 1, "in full" by its help text (`collector.go:21`) and "not critical" by
`inventory.go:66`.

## Proofs

For every value of the constants that satisfies the named assumptions
(`ConstantsAssumption`, `PagesAssumption`, `InventoryAssumption`, `TimesAssumption`, `DumpAssumption`, `ScrubAssumption`,
`WordAssumption`, `LogPagesAssumption`, which TLC evaluates on the values of the runs):

* `ExporterProofs`: `TypeCorrect`, `NoReaskAfterAnswer`, `CacheIsTruthful`, `GaugeIsTruthful`,
  `ScrapersSeeCountersRise`. One inductive invariant gives all five. None of the properties is
  inductive by itself, since each speaks of what requests were told, and what decides that is
  where a goroutine is and what it saw. The parts: `Position` (a goroutine that is at a page has
  a page, one that has not started or is done is at rest), `Phases` (only a running request has
  moving goroutines, and an answered one has none), `Remembered` (a denial is in the cache, or its
  goroutine is at `mark` right now, and a goroutine past its check found the cache empty at that
  time), `Truth` (what the cache, or a goroutine about to mark, says was said by the drive that
  is named, or by one that took its place meanwhile), `GaugeTruth` (the same for the gauges),
  `Counted` (what an answered request was shown is at most what is counted now). The counters
  can only rise, so the last part carries over every step.
  `ExporterImplementsLedger` maps every step to one of Ledger or to a stutter. What makes it need an
  invariant is that Ledger owes no failure twice: `LinesPast` says that a poll is past the collectors
  whose lines it wrote. `LedgerOfExporter` then brings what `LedgerProofs` shows of Ledger
  (`LedgerHolds`) back to Exporter.
* `ExporterAccounts`: the other invariants of Exporter's runs. `StepAccount` reduces each step of a
  goroutine to one of four shapes (it stays in its collector, passes on, breaks off, finishes). The
  parts of the invariant: `Tally` (`ok` is false exactly when something failed) for
  `SuccessIsTold`; `Pageful` (each page behind a goroutine is settled, nothing is said of those
  ahead) for `GaugeAccounted`; `Sums` (a counter is the number of the failures that have been
  recorded) and `Covers` for `AnswersCoverFailures`; `Clears` and `Budget` (at most one line more
  than clean polls while the mark stands, and no more than those once it is gone) for
  `LogIsBounded`; `Recurs` (a marked failure has a line of a request later than any clean poll) for
  `RecurrencesAreLogged`; `Lengths` (the length remembered of a controller is its own, and a poll
  past Identify finds one or got none itself) for `ReadSizesAreTheirOwn`, which assumes, like
  `GaugeIsTruthful`, that drives are exchanged between requests only. The fallback is allowed
  only if no poll of the controller, in this request or in one answered before it, got a length: a
  length that is known must be used when Identify fails later. The cardinalities are of
  history sets that grow by one failure at a time, and no bound on them is needed.
* `InventoryProofs`: the type invariant and all seven invariants of its run. `Known` says that each thing held of a controller
  was so at a moment since the request arrived, though maybe each at another one; of a drive that
  stayed all the time that makes all of them its own, which is where `InfoIsItsOwn` comes from.
  What an undisturbed request must *have* (`Shown`, `Models`, `Whole`) is said for each file as
  read, still to be read, or not there at some moment. `Waited` says the same of namespace 1 in the
  second listing, that of `namespaceOne`, so that `UsedHasItsSize` can tell what a
  `namespace_used_bytes` without its size, or a size without it, comes from: namespace 1 was not
  there at some moment of the request, or a read of sysfs failed. `Remembered` gives each mark its
  refusal.
  Of `EveryRequestAnswered` it proves what needs no fairness. `RequestNeverStuck`: while a request is
  underway it, or one of its polls, can take a step, because a poll that holds a worker waits for
  nobody, and when none holds one a worker is free (`Busy`). `StepsRunOut`: the files left to the
  request and the files and commands left to each poll (`RequestLeft`, `PollLeft`) are numbers that
  every step of theirs makes smaller and that the host never makes larger. Both say what can be
  done in conditions on the state, not with ENABLED.
* `DeadlinesProofs`: `TypeCorrect`, `EveryLimitInRange`, `EveryPollBounded`, `WorkingOnesAnswer` and
  `EveryScrapeBounded`. The invariant says of a command in the kernel when it ends: no later than
  its poll's deadline, or its turn, plus one millisecond for every command sent too late. For the
  working controllers it counts one `Latency` per command from the poll's turn on (`Punctual`). For
  the whole answer the argument is that of list scheduling (`Batched`): after the deadline a poll
  lasts at most one span (a millisecond per command), so when `k` spans have passed since then,
  `k + 1` batches of workers have begun, or all controllers have.
* `DumpProofs`: `TypeCorrect` and `ReplayIsFaithful`. The invariant orders the cells (controller,
  file) as the run works through them: those before its place are settled, the file there and
  whole exactly if the drive served it; those after it were not asked for and have no file; and
  `meta.json` exists only when every cell is settled and the run is over. `DumpImplementsArchive` maps
  every step to one of Archive or to a stutter: that a directory opens in one step is the last part
  of the invariant, that it opens with the right answers is the first. `ArchiveOfDump` brings back
  what follows from Archive.
* `ScrubProofs`: `TypeCorrect`, `ScanRemovesSerial` and `ScanTouchesSerialOnly`. The loop invariant
  (`Passed`) says that no occurrence begins before `pos`, and that what is at `pos` or after it is
  as it was when the scan began. A replacement cannot make an occurrence before the new `pos`: one
  that would overlap the replaced bytes has a placeholder at one end, which the serial has not, and
  one that would not was there before. Hence the exception in `NoSerialLeft`: with a serial that
  begins or ends with an `X` the argument fails, and so does the scan (`Xa` in `Xaa`); an `X` inside
  it does no harm. `ScanTouchesSerialOnly` needs no exception.
  `ScanNeverStuck` and `TurnsRunOut` are what makes `ScanEnds` true on every buffer: there is a turn to
  take until the scan has ended (if the serial stands anywhere, it does so at a first place), and
  `TurnsLeft` goes down with each.
* `LogPagesProofs`: everything that LogPages' run checks, for logs, fields and histories of any
  length.
  - `SizeArrives`, `WholeLogFits`, `StatusReadAlike`: the arithmetic of a command and of a status.
  - What a decoder does to what an encoder wrote: `FieldReadBack` (a field of any width is read back to
    its value, or as absent when all its bits are set), the same for the flags of Critical Warning.
    Both are induction over data. The installed provers cannot use the library's induction
    rule, which takes an operator, so these proofs take a *least counterexample* instead
    (`WFMin` on the naturals, which takes a set) and refute it with the defining equation of the
    recursive function.
  - The invariant: `Bounded` (the drive's logs keep within their sizes), `SeenBefore` (what a page
    has shown the poll is no later than the drive now: its log has only grown since), `Emitted` (a
    metric was sent by a collector that the poll has behind it, and says what that collector made of
    the drive it saw), `Complete` (such a collector has sent all its metrics), `OnRecord` (a
    refusal of this poll is among the statuses the drive has logged). The properties compare metrics
    with the drive *as seen*; without `SeenBefore` and `OnRecord` nothing would tie a refusal by one
    page to the error log read by another.
  - `Distinct`, `WarningsAreTold`, `RetainedAsLogged`, `RefusalsShow`, `SelfTestsCounted`,
    `SlotsAgree`, `FieldsAreTold`, and `TypeCorrect`, follow. The attempt at `RefusalsShow` corrected the
    property: it had promised a refusal anywhere in a log of the drive's size, while the read goes
    no further than the fallback of eight entries as long as Identify has not given the size.

Left to TLC: the three liveness properties (`EveryRequestAnswered`, `EveryPollEnds`, `ScanEnds`), since
TLAPS here has neither fairness nor ENABLED; for the scan and for a request what is proved without
them is that someone can go on and that the steps run out. Every safety property of a passing run is a theorem;
`GaugeIsTruthful` and `ReadSizesAreTheirOwn` for exchanges between requests, as in the run that checks
them.

## Not modelled

* Fields that a parser copies into one metric, their offsets and units; `formatVersion` and the
  precision of `Uint128.Float64`; the layout of the ioctl structure. There is nothing in them for
  a state or an order of steps to break.
* Block devices that `Namespaces` passes over because they are not named after the controller:
  Inventory's namespaces are those whose names match. What the kernel names otherwise is not in sight
  of the exporter.
* The length of the error log that a dump holds: the Identify that gives it is a second one, and
  when it fails the default stays in place, as the code says. The model of dumps does not tell
  lengths apart.
* That a refused Identify is asked again by every scrape, unlike a refused page: Exporter takes the
  step, but nothing promises otherwise.
* `main.go`, `open.go`, `source.go` and the metric registry choose and connect parts once, before
  anything runs, and keep no state; dashboards, packaging and alert rules are files for other
  programs.

## Plan

1. The lengths of the files of a dump.
2. Overlapping requests in `Inventory`, with `scrapeState` read and marked in two sections, so that a
   drive without a serial is also covered there.
3. For `EveryPollEnds`, what `RequestNeverStuck` and `StepsRunOut` are for `EveryRequestAnswered`:
   somebody can always take a step, or time can pass, and the steps run out.
