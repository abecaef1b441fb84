----------------------------- MODULE Deadlines -----------------------------
(***************************************************************************)
(* Time in one /metrics request: the scrape deadline of the header, the    *)
(* worker semaphore, the deadline each controller gets when its turn       *)
(* comes, and the time limit every admin command hands to the kernel.      *)
(*                                                                         *)
(* Nothing in the process watches a clock: a context is only asked for its *)
(* deadline when a command is about to be sent (ioctl_linux.go:55), so how *)
(* long a request takes is decided by these limits alone.  Time passes in  *)
(* half milliseconds, for Milliseconds() rounds down.                      *)
(*                                                                         *)
(* An operator that stands in front of another one and has its name with a *)
(* suffix is a faulty variant of it: no action uses it, it is there to     *)
(* show that a property fails when the code goes wrong in this way.        *)
(***************************************************************************)
EXTENDS Integers, FiniteSets

CONSTANTS
  Ctrls,          \* the enumerated controllers
  Hung,           \* those that never complete a command
  NumCPU,         \* runtime.NumCPU()
  Commands,       \* commands one poll sends: Identify and the log pages
  Latency,        \* ticks a working controller takes at most
  Headers,        \* X-Prometheus-Scrape-Timeout-Seconds, see below
  MaxScrape,      \* maxScrapeTimeout, in ms
  DeviceTimeout,  \* --nvme.timeout, in ms
  MaxWord,        \* the largest uint32
  KernelDefault   \* what the driver takes a limit of 0 for, in ms

TicksPerMs == 2

\* A header is either unusable (absent, not a number, NaN) or a number of ms.
Header == [usable : BOOLEAN, ms : Int]

ASSUME TimesAssumption ==
  /\ IsFiniteSet(Ctrls) /\ Hung \subseteq Ctrls
  /\ NumCPU \in Nat \ {0}
  /\ Commands \in Nat /\ Latency \in Nat
  /\ Headers \subseteq Header
  /\ MaxScrape \in Nat \ {0} /\ DeviceTimeout \in Nat
  /\ MaxWord \in Nat \ {0} /\ KernelDefault \in Nat \ {0}

VARIABLES
  now,       \* ticks since the request arrived
  header,
  pc,        \* waiting for the semaphore, ready to send, in the ioctl, done
  begun,     \* when each poll got its worker
  deadline,  \* and the ctx.Deadline() it got then
  sent,      \* commands it has sent
  limit,     \* the time limit of the command in the ioctl, in ms
  until,     \* when the ioctl returns
  cut,       \* does the limit end it?
  late,      \* commands sent with less than a millisecond left
  reasons    \* why reads failed, as recordError counts them

vars == <<now, header, pc, begun, deadline, sent, limit, until, cut, late, reasons>>

Outcomes == {"timeout", "ioctl"}

TypeOK ==
  /\ now \in Nat
  /\ header \in Headers
  /\ pc \in [Ctrls -> {"waiting", "ready", "ioctl", "done"}]
  /\ begun \in [Ctrls -> Nat]
  /\ deadline \in [Ctrls -> Nat]
  /\ sent \in [Ctrls -> 0..Commands]
  /\ limit \in [Ctrls -> Nat]
  /\ until \in [Ctrls -> Nat]
  /\ cut \in [Ctrls -> BOOLEAN]
  /\ late \in [Ctrls -> Nat]
  /\ reasons \in [Ctrls -> SUBSET Outcomes]

-----------------------------------------------------------------------------

Least(a, b) == IF a < b THEN a ELSE b
Latest(a, b) == IF a < b THEN b ELSE a

\* Does the header set a deadline, and which?
hasDeadline(h) == h.usable /\ h.ms > 0
scrapeDeadlineUncapped(h) == h.ms
scrapeDeadline(h) == IF h.ms >= MaxScrape THEN MaxScrape ELSE h.ms

\* context.WithTimeout keeps the earlier of its parent's deadline and its own.
withTimeoutAtArrival(h, time) ==
  IF hasDeadline(h) THEN Least(scrapeDeadline(h), DeviceTimeout) * TicksPerMs
                    ELSE DeviceTimeout * TicksPerMs
withTimeoutAlone(h, time) == time + DeviceTimeout * TicksPerMs
withTimeout(h, time) ==
  IF hasDeadline(h)
  THEN Least(scrapeDeadline(h) * TicksPerMs, time + DeviceTimeout * TicksPerMs)
  ELSE time + DeviceTimeout * TicksPerMs

\* The whole milliseconds left, held between 1 and what a uint32 can carry.
timeoutMillisUnfloored(dl, time) ==
  IF dl <= time THEN 0 ELSE Least((dl - time) \div TicksPerMs, MaxWord)
timeoutMillisWrapped(dl, time) ==
  LET ms == (dl - time) \div TicksPerMs
  IN  IF ms <= 0 THEN 1 ELSE ms % (MaxWord + 1)
timeoutMillisSigned(dl, time) == (dl - time) \div TicksPerMs
timeoutMillis(dl, time) ==
  LET ms == (dl - time) \div TicksPerMs
  IN  IF ms <= 0 THEN 1 ELSE IF ms > MaxWord THEN MaxWord ELSE ms

\* How long the kernel lets the command run.
allowed(ms) == (IF ms = 0 THEN KernelDefault ELSE ms) * TicksPerMs

Workers == IF Cardinality(Ctrls) < NumCPU THEN Cardinality(Ctrls) ELSE NumCPU
HoldersLeaked == {c \in Ctrls : pc[c] # "waiting"}
Holders == {c \in Ctrls : pc[c] \in {"ready", "ioctl"}}
Admits(c) == pc[c] = "waiting" /\ Cardinality(Holders) < Workers

\* A command the kernel gave up on comes back as an errno or as the status the
\* driver makes up; neither is an error of the context.
classifyCut == "ioctl"

-----------------------------------------------------------------------------

Init ==
  /\ now = 0
  /\ header \in Headers
  /\ pc = [c \in Ctrls |-> "waiting"]
  /\ begun = [c \in Ctrls |-> 0]
  /\ deadline = [c \in Ctrls |-> 0]
  /\ sent = [c \in Ctrls |-> 0]
  /\ limit = [c \in Ctrls |-> 0]
  /\ until = [c \in Ctrls |-> 0]
  /\ cut = [c \in Ctrls |-> FALSE]
  /\ late = [c \in Ctrls |-> 0]
  /\ reasons = [c \in Ctrls |-> {}]

Acquire(c) ==
  /\ Admits(c)
  /\ pc' = [pc EXCEPT ![c] = "ready"]
  /\ begun' = [begun EXCEPT ![c] = now]
  /\ deadline' = [deadline EXCEPT ![c] = withTimeout(header, now)]
  /\ UNCHANGED <<now, header, sent, limit, until, cut, late, reasons>>

\* The limit is computed once the device is open, and the ioctl runs until the
\* controller answers or the limit ends it.
Send(c) ==
  /\ pc[c] = "ready" /\ sent[c] < Commands
  /\ sent' = [sent EXCEPT ![c] = @ + 1]
  /\ limit' = [limit EXCEPT ![c] = timeoutMillis(deadline[c], now)]
  /\ late' = [late EXCEPT ![c] =
               IF deadline[c] - now < TicksPerMs THEN @ + 1 ELSE @]
  /\ \/ /\ until' = [until EXCEPT ![c] = now + allowed(limit'[c])]
        /\ cut' = [cut EXCEPT ![c] = TRUE]
        /\ c \in Hung \/ Latency > allowed(limit'[c])
     \/ \E t \in 0..Latency :
          /\ c \notin Hung /\ t <= allowed(limit'[c])
          /\ until' = [until EXCEPT ![c] = now + t]
          /\ cut' = [cut EXCEPT ![c] = FALSE]
  /\ pc' = [pc EXCEPT ![c] = "ioctl"]
  /\ UNCHANGED <<now, header, begun, deadline, reasons>>

Return(c) ==
  /\ pc[c] = "ioctl" /\ until[c] = now
  /\ pc' = [pc EXCEPT ![c] = "ready"]
  /\ reasons' = [reasons EXCEPT ![c] = IF cut[c] THEN @ \cup {classifyCut} ELSE @]
  /\ UNCHANGED <<now, header, begun, deadline, sent, limit, until, cut, late>>

Finish(c) ==
  /\ pc[c] = "ready" /\ sent[c] = Commands
  /\ pc' = [pc EXCEPT ![c] = "done"]
  /\ UNCHANGED <<now, header, begun, deadline, sent, limit, until, cut, late, reasons>>

\* Time passes when every poll is in a command, queued or done: what the
\* process itself computes takes no time.
Tick ==
  /\ \E c \in Ctrls : pc[c] = "ioctl"
  /\ \A c \in Ctrls :
       /\ pc[c] # "ready" /\ ~Admits(c)
       /\ pc[c] = "ioctl" => now < until[c]
  /\ now' = now + 1
  /\ UNCHANGED <<header, pc, begun, deadline, sent, limit, until, cut, late, reasons>>

Answered == \A c \in Ctrls : pc[c] = "done"

Next ==
  \/ \E c \in Ctrls : Acquire(c) \/ Send(c) \/ Return(c) \/ Finish(c)
  \/ Tick
  \/ Answered /\ UNCHANGED vars

Spec == Init /\ [][Next]_vars

\* Time passes, goroutines run.
FairSpec == Spec /\ WF_vars(Next)

-----------------------------------------------------------------------------
(* Properties.                                                             *)

\* SECURITY.md:68: whatever the header asks for, the limit of a command is at
\* least 1 ms, so that the kernel never takes it for "no limit given", and at
\* most --nvme.timeout (or that 1 ms), even where the time left would overflow
\* a uint32.
LimitInRange ==
  \A c \in Ctrls : pc[c] = "ioctl" =>
    limit[c] >= 1 /\ (limit[c] <= DeviceTimeout \/ limit[c] = 1)

\* collector.go:140, ioctl_linux.go:101: a poll that holds a worker outlives
\* its deadline, or its turn if that came later, only by the millisecond that
\* each command sent too late gets: however long the controller hangs.
PollBounded ==
  \A c \in Ctrls : pc[c] \in {"ready", "ioctl"} =>
    now <= Latest(begun[c], deadline[c]) + late[c] * TicksPerMs

\* collector.go:122-146, handler.go:36: a scrape deadline bounds the whole
\* answer, up to a millisecond for each command of each batch of controllers
\* that queue for the workers.
Batches ==
  IF Ctrls = {} THEN 0 ELSE (Cardinality(Ctrls) + Workers - 1) \div Workers
ScrapeBounded ==
  hasDeadline(header) =>
    now <= (scrapeDeadline(header) + Batches * Commands) * TicksPerMs

\* collector.go:140: the device timeout starts when the controller gets its
\* worker, so without a scrape deadline no number of hung controllers in front
\* of it makes a working one fail that answers all its commands in that time.
AnswersInTime ==
  /\ Commands * Latency < DeviceTimeout * TicksPerMs
  /\ Latency <= MaxWord * TicksPerMs
HungDoesNotSpread ==
  AnswersInTime /\ ~hasDeadline(header) => \A c \in Ctrls \ Hung : reasons[c] = {}

\* Every request ends although nothing interrupts a command.
EveryPollEnds == <>Answered

\* errors.go:19, and the alert text rules.yml:282 that tells the operator what
\* reason "timeout" points at: a read that its deadline ended is a timeout.
CutReadIsATimeout == \A c \in Ctrls : reasons[c] \subseteq {"timeout"}
=============================================================================
