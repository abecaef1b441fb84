-------------------------- MODULE DeadlinesProofs --------------------------
(***************************************************************************)
(* What bounds a command and a poll, for every number of controllers and   *)
(* commands, every header, timeout and word size.                          *)
(***************************************************************************)
EXTENDS Deadlines, FiniteSetTheorems, TLAPS

\* A command in the kernel returns within the bound of its poll, and time does
\* not run past its return.
InKernel ==
  \A c \in Ctrls : pc[c] = "ioctl" =>
    /\ now <= until[c]
    /\ until[c] <= Latest(begun[c], deadline[c]) + late[c] * TicksPerMs

\* The limit the code computes is the time left rounded down, at least 1.
LEMMA Limit ==
  ASSUME NEW dl \in Int, NEW time \in Int
  PROVE  /\ timeoutMillis(dl, time) \in Nat \ {0}
         /\ dl - time < TicksPerMs => timeoutMillis(dl, time) = 1
         /\ dl - time >= TicksPerMs => timeoutMillis(dl, time) * TicksPerMs <= dl - time
<1> DEFINE ms == (dl - time) \div TicksPerMs
<1>1. ms \in Int /\ ms * 2 <= dl - time /\ dl - time < ms * 2 + 2
  BY DEF TicksPerMs
<1>2. timeoutMillis(dl, time) = IF ms <= 0 THEN 1 ELSE IF ms > MaxWord THEN MaxWord ELSE ms
  BY DEF timeoutMillis
<1> HIDE DEF ms
<1> QED
  BY <1>1, <1>2, TimesAssumption DEF TicksPerMs

LEMMA WithTimeout ==
  ASSUME NEW h \in Headers, NEW time \in Nat
  PROVE  /\ withTimeout(h, time) \in Nat
         /\ withTimeout(h, time) <= time + DeviceTimeout * TicksPerMs
BY TimesAssumption DEF withTimeout, hasDeadline, scrapeDeadline, Least, Header, TicksPerMs

\* Deadlines are no farther than --nvme.timeout from when the poll began.
Reach ==
  \A c \in Ctrls : pc[c] \in {"ready", "ioctl"} =>
    begun[c] <= now /\ deadline[c] <= begun[c] + DeviceTimeout * TicksPerMs

Bounds == PollBounded /\ InKernel /\ Reach /\ LimitInRange

LEMMA TypeStep == TypeOK /\ [Next]_vars => TypeOK'
<1> SUFFICES ASSUME TypeOK, [Next]_vars PROVE TypeOK'
  OBVIOUS
<1> USE TimesAssumption DEF TypeOK
<1>1. ASSUME NEW c \in Ctrls, Acquire(c) PROVE TypeOK'
  <2>1. withTimeout(header, now) \in Nat
    BY WithTimeout
  <2> QED
    BY <1>1, <2>1 DEF Acquire
<1>2. ASSUME NEW c \in Ctrls, Send(c) PROVE TypeOK'
  <2>1. timeoutMillis(deadline[c], now) \in Nat
    <3>1. deadline[c] \in Int /\ now \in Int
      OBVIOUS
    <3> QED
      BY <3>1, Limit
  <2>2. limit' \in [Ctrls -> Nat] /\ limit'[c] \in Nat
    BY <1>2, <2>1 DEF Send
  <2>3. allowed(limit'[c]) \in Nat
    BY <2>2 DEF allowed, TicksPerMs
  <2>4. \E t \in Nat, b \in BOOLEAN :
          until' = [until EXCEPT ![c] = now + t] /\ cut' = [cut EXCEPT ![c] = b]
    <3>1. CASE /\ until' = [until EXCEPT ![c] = now + allowed(limit'[c])]
               /\ cut' = [cut EXCEPT ![c] = TRUE]
      BY <2>3, <3>1
    <3>2. CASE \E t \in 0..Latency : /\ until' = [until EXCEPT ![c] = now + t]
                                     /\ cut' = [cut EXCEPT ![c] = FALSE]
      <4>1. \A t \in 0..Latency : t \in Nat
        OBVIOUS
      <4> QED
        BY <3>2, <4>1, Zenon
    <3> QED
      BY <1>2, <3>1, <3>2 DEF Send
  <2> QED
    BY <1>2, <2>2, <2>4 DEF Send
<1>3. ASSUME NEW c \in Ctrls, Return(c) PROVE TypeOK'
  BY <1>3 DEF Return, classifyCut, Outcomes
<1>4. ASSUME NEW c \in Ctrls, Finish(c) PROVE TypeOK'
  BY <1>4 DEF Finish
<1>5. CASE Tick
  BY <1>5 DEF Tick
<1>6. CASE UNCHANGED vars
  BY <1>6 DEF vars
<1> QED
  BY <1>1, <1>2, <1>3, <1>4, <1>5, <1>6 DEF Next

LEMMA BoundsStep == TypeOK /\ Bounds /\ [Next]_vars => Bounds'
<1> SUFFICES ASSUME TypeOK, Bounds, [Next]_vars PROVE Bounds'
  OBVIOUS
<1> USE TimesAssumption DEF TypeOK, Bounds
<1>1. ASSUME NEW c \in Ctrls, Acquire(c) PROVE Bounds'
  <2>1. /\ pc'[c] = "ready" /\ begun'[c] = now /\ now' = now
        /\ deadline'[c] = withTimeout(header, now) /\ UNCHANGED <<limit, until, late>>
        /\ \A d \in Ctrls : d # c =>
             pc'[d] = pc[d] /\ begun'[d] = begun[d] /\ deadline'[d] = deadline[d]
    BY <1>1 DEF Acquire
  <2>2. /\ withTimeout(header, now) \in Nat
        /\ withTimeout(header, now) <= now + DeviceTimeout * TicksPerMs
    BY WithTimeout
  <2>3. PollBounded'
    BY <2>1, <2>2 DEF PollBounded, Latest, TicksPerMs
  <2>4. InKernel'
    BY <2>1 DEF InKernel, Latest
  <2>5. Reach'
    BY <2>1, <2>2 DEF Reach
  <2>6. LimitInRange'
    BY <2>1 DEF LimitInRange
  <2> QED
    BY <2>3, <2>4, <2>5, <2>6
<1>2. ASSUME NEW c \in Ctrls, Send(c) PROVE Bounds'
  <2> DEFINE ms == timeoutMillis(deadline[c], now)
  <2>1. /\ ms \in Nat \ {0}
        /\ deadline[c] - now < 2 => ms = 1
        /\ deadline[c] - now >= 2 => ms * 2 <= deadline[c] - now
    <3>1. deadline[c] \in Int /\ now \in Int
      OBVIOUS
    <3> QED
      BY <3>1, Limit DEF TicksPerMs
  <2>2. /\ pc[c] = "ready" /\ pc'[c] = "ioctl" /\ limit'[c] = ms
        /\ UNCHANGED <<now, begun, deadline>>
        /\ late'[c] = IF deadline[c] - now < 2 THEN late[c] + 1 ELSE late[c]
        /\ \A d \in Ctrls : d # c =>
             /\ pc'[d] = pc[d] /\ limit'[d] = limit[d]
             /\ until'[d] = until[d] /\ late'[d] = late[d]
    BY <1>2 DEF Send, TicksPerMs
  <2> HIDE DEF ms
  <2>3. until'[c] >= now /\ until'[c] <= now + ms * 2
    <3>1. allowed(ms) = ms * 2
      BY <2>1 DEF allowed, TicksPerMs
    <3> QED
      BY <1>2, <2>1, <2>2, <3>1 DEF Send
  <2>4. /\ now <= Latest(begun[c], deadline[c]) + late[c] * 2
        /\ begun[c] <= now /\ deadline[c] <= begun[c] + DeviceTimeout * 2
    BY <2>2 DEF PollBounded, Reach, TicksPerMs
  <2>5. until'[c] <= Latest(begun[c], deadline[c]) + late'[c] * 2
    <3>1. /\ now \in Nat /\ begun[c] \in Nat /\ deadline[c] \in Nat
          /\ late[c] \in Nat /\ until'[c] \in Nat
      BY <1>2, TypeStep DEF Next
    <3>2. CASE deadline[c] - now < 2
      BY <2>1, <2>2, <2>3, <2>4, <3>1, <3>2 DEF Latest
    <3>3. CASE deadline[c] - now >= 2
      BY <2>1, <2>2, <2>3, <2>4, <3>1, <3>3 DEF Latest
    <3> QED
      BY <3>1, <3>2, <3>3
  <2>6. PollBounded'
    BY <2>2, <2>3, <2>5 DEF PollBounded, TicksPerMs, Latest
  <2>7. InKernel'
    BY <2>2, <2>3, <2>5 DEF InKernel, TicksPerMs
  <2>8. Reach'
    BY <2>2, <2>4 DEF Reach, TicksPerMs
  <2>9. LimitInRange'
    BY <2>1, <2>2, <2>4 DEF LimitInRange
  <2> QED
    BY <2>6, <2>7, <2>8, <2>9
<1>3. ASSUME NEW c \in Ctrls, Return(c) PROVE Bounds'
  BY <1>3 DEF Return, PollBounded, InKernel, Reach, LimitInRange
<1>4. ASSUME NEW c \in Ctrls, Finish(c) PROVE Bounds'
  BY <1>4 DEF Finish, PollBounded, InKernel, Reach, LimitInRange
<1>5. CASE Tick
  <2>1. /\ now' = now + 1 /\ UNCHANGED <<pc, begun, deadline, late, limit, until>>
        /\ \A c \in Ctrls : pc[c] # "ready" /\ (pc[c] = "ioctl" => now < until[c])
    BY <1>5 DEF Tick
  <2>2. \A c \in Ctrls : Latest(begun[c], deadline[c]) + late[c] * TicksPerMs \in Nat
    BY DEF Latest, TicksPerMs
  <2>3. InKernel'
    BY <2>1, <2>2 DEF InKernel
  <2>4. PollBounded'
    BY <2>1, <2>2, <2>3 DEF PollBounded, InKernel
  <2>5. Reach' /\ LimitInRange'
    BY <2>1 DEF Reach, LimitInRange
  <2> QED
    BY <2>3, <2>4, <2>5
<1>6. CASE UNCHANGED vars
  BY <1>6 DEF vars, PollBounded, InKernel, Reach, LimitInRange
<1> QED
  BY <1>1, <1>2, <1>3, <1>4, <1>5, <1>6 DEF Next

LEMMA InitBounds == Init => TypeOK /\ Bounds
<1> SUFFICES ASSUME Init PROVE TypeOK /\ Bounds
  OBVIOUS
<1>1. TypeOK
  BY TimesAssumption DEF Init, TypeOK
<1>2. Bounds
  BY DEF Init, Bounds, PollBounded, InKernel, Reach, LimitInRange
<1> QED
  BY <1>1, <1>2

LEMMA AlwaysBounds == Spec => [](TypeOK /\ Bounds)
BY InitBounds, TypeStep, BoundsStep, PTL DEF Spec

\* No header, however small, large or malformed, makes a command wait longer
\* than --nvme.timeout or with the kernel's own default.
THEOREM EveryLimitInRange == Spec => []LimitInRange
<1>1. Bounds => LimitInRange
  BY DEF Bounds
<1> QED
  BY <1>1, AlwaysBounds, PTL

\* A poll is over a millisecond per late command after its deadline at the
\* latest, whether its controller answers or hangs.
THEOREM EveryPollBounded == Spec => []PollBounded
<1>1. Bounds => PollBounded
  BY DEF Bounds
<1> QED
  BY <1>1, AlwaysBounds, PTL

\* Clocks, counters and limits keep their types.
THEOREM TypeCorrect == Spec => []TypeOK
BY AlwaysBounds, PTL

-----------------------------------------------------------------------------
(* Hung controllers do not make a working one fail.                        *)

\* Without a scrape deadline a working controller gets its whole device timeout
\* from its turn on, and uses at most Latency of it per command.
OnTime(c) ==
  /\ reasons[c] = {}
  /\ pc[c] \in {"ready", "ioctl"} => deadline[c] = begun[c] + DeviceTimeout * TicksPerMs
  /\ pc[c] = "ready" => now <= begun[c] + sent[c] * Latency
  /\ pc[c] = "ioctl" => ~cut[c] /\ until[c] <= begun[c] + sent[c] * Latency

Punctual ==
  AnswersInTime /\ ~hasDeadline(header) => \A c \in Ctrls \ Hung : OnTime(c)

\* One command more takes one Latency more.
LEMMA OneMore ==
  ASSUME NEW i \in Nat, NEW m \in Nat, NEW l \in Nat, i < m
  PROVE  /\ i * l \in Nat /\ m * l \in Nat
         /\ (i + 1) * l = i * l + l /\ i * l + l <= m * l
<1>1. i * l \in Nat /\ m * l \in Nat /\ (i + 1) * l = i * l + l
  OBVIOUS
<1>2. (m - (i + 1)) * l >= 0
  OBVIOUS
<1>3. m * l - (i + 1) * l = (m - (i + 1)) * l
  OBVIOUS
<1> QED
  BY <1>1, <1>2, <1>3

\* A limit that is rounded down still leaves a command that needs less than is
\* left of the deadline the time it needs.
LEMMA LimitAllows ==
  ASSUME NEW dl \in Int, NEW time \in Int, Latency < dl - time,
         Latency <= MaxWord * TicksPerMs
  PROVE  Latency <= allowed(timeoutMillis(dl, time))
<1> DEFINE ms == (dl - time) \div TicksPerMs
<1>1. ms \in Int /\ ms * 2 <= dl - time /\ dl - time < ms * 2 + 2
  BY DEF TicksPerMs
<1>2. timeoutMillis(dl, time) = IF ms <= 0 THEN 1 ELSE IF ms > MaxWord THEN MaxWord ELSE ms
  BY DEF timeoutMillis
<1> HIDE DEF ms
<1> QED
  BY <1>1, <1>2, TimesAssumption DEF allowed, TicksPerMs

LEMMA PunctualStep == TypeOK /\ Bounds /\ Punctual /\ [Next]_vars => Punctual'
<1> SUFFICES ASSUME TypeOK, Punctual, [Next]_vars, AnswersInTime, ~hasDeadline(header)',
                    NEW c \in Ctrls \ Hung
             PROVE  OnTime(c)'
  BY DEF Punctual, AnswersInTime
<1> USE TimesAssumption
<1>1. UNCHANGED header /\ ~hasDeadline(header)
  BY DEF Next, Acquire, Send, Return, Finish, Tick, vars, hasDeadline
<1>2. OnTime(c)
  BY <1>1 DEF Punctual
<1>3. ASSUME NEW d \in Ctrls, Acquire(d) PROVE OnTime(c)'
  <2>1. withTimeout(header, now) = now + DeviceTimeout * TicksPerMs
    BY <1>1 DEF withTimeout
  <2>2. sent[c] * Latency \in Nat
    BY DEF TypeOK
  <2> QED
    BY <1>2, <1>3, <2>1, <2>2 DEF Acquire, OnTime, TypeOK
<1>4. ASSUME NEW d \in Ctrls, Send(d) PROVE OnTime(c)'
  <2>1. CASE d # c
    BY <1>2, <1>4, <2>1 DEF Send, OnTime, TypeOK
  <2>2. CASE d = c
    <3>1. /\ sent[c] \in Nat /\ sent[c] < Commands /\ sent'[c] = sent[c] + 1
          /\ pc[c] = "ready" /\ pc'[c] = "ioctl" /\ UNCHANGED <<now, begun, deadline, reasons>>
          /\ now \in Nat /\ begun[c] \in Nat /\ deadline[c] \in Nat
      BY <1>4, <2>2 DEF Send, TypeOK
    <3>2. /\ sent[c] * Latency \in Nat /\ Commands * Latency \in Nat
          /\ (sent[c] + 1) * Latency = sent[c] * Latency + Latency
          /\ sent[c] * Latency + Latency <= Commands * Latency
      BY <3>1, OneMore
    <3>3. /\ deadline[c] = begun[c] + DeviceTimeout * TicksPerMs
          /\ now <= begun[c] + sent[c] * Latency
      BY <1>2, <3>1 DEF OnTime
    <3>4. Latency < deadline[c] - now
      BY <3>1, <3>2, <3>3 DEF AnswersInTime, TicksPerMs
    <3>5. Latency <= allowed(timeoutMillis(deadline[c], now))
      BY <3>1, <3>4, LimitAllows DEF AnswersInTime
    <3>6. limit'[c] = timeoutMillis(deadline[c], now)
      BY <1>4, <2>2 DEF Send, TypeOK
    <3>7. /\ timeoutMillis(deadline[c], now) \in Nat
          /\ allowed(limit'[c]) \in Nat
      <4>1. deadline[c] \in Int /\ now \in Int
        BY <3>1
      <4>2. timeoutMillis(deadline[c], now) \in Nat
        BY <4>1, Limit
      <4> QED
        BY <3>6, <4>2 DEF allowed, TicksPerMs
    <3>8. PICK t \in 0..Latency :
            until' = [until EXCEPT ![c] = now + t] /\ cut' = [cut EXCEPT ![c] = FALSE]
      BY <1>4, <2>2, <3>5, <3>6, <3>7 DEF Send
    <3>9. until'[c] <= now + Latency /\ ~cut'[c]
      BY <3>1, <3>8 DEF TypeOK
    <3>10. until'[c] \in Nat
      BY <3>1, <3>8 DEF TypeOK
    <3> QED
      BY <1>2, <3>1, <3>2, <3>3, <3>9, <3>10 DEF OnTime
  <2> QED
    BY <2>1, <2>2
<1>5. ASSUME NEW d \in Ctrls, Return(d) PROVE OnTime(c)'
  BY <1>2, <1>5 DEF Return, OnTime, TypeOK
<1>6. ASSUME NEW d \in Ctrls, Finish(d) PROVE OnTime(c)'
  BY <1>2, <1>6 DEF Finish, OnTime, TypeOK
<1>7. CASE Tick
  BY <1>2, <1>7 DEF Tick, OnTime
<1>8. CASE UNCHANGED vars
  BY <1>2, <1>8 DEF vars, OnTime
<1> QED
  BY <1>3, <1>4, <1>5, <1>6, <1>7, <1>8 DEF Next

\* However many hung controllers a working one has to queue behind, its commands
\* are not cut short as long as the scraper set no deadline.
THEOREM WorkingOnesAnswer == Spec => []HungDoesNotSpread
<1>1. Init => Punctual
  BY DEF Init, Punctual, OnTime
<1>2. Spec => [](TypeOK /\ Bounds /\ Punctual)
  BY <1>1, InitBounds, TypeStep, BoundsStep, PunctualStep, PTL DEF Spec
<1>3. Punctual => HungDoesNotSpread
  BY DEF Punctual, HungDoesNotSpread, OnTime
<1> QED
  BY <1>2, <1>3, PTL

-----------------------------------------------------------------------------
(* A scrape deadline bounds the whole answer.  After the deadline a poll   *)
(* lasts at most Span, so that in each Span another batch of Workers polls *)
(* ends: the batches are those of list scheduling.                         *)

Span      == TicksPerMs * Commands
ScrapeEnd == scrapeDeadline(header) * TicksPerMs

\* The polls that began up to k spans after the deadline.
BegunBy(k) == {c \in Ctrls : pc[c] # "waiting" /\ begun[c] <= ScrapeEnd + k * Span}

\* Once k spans are over, k + 1 batches have begun, or everything.
Batched ==
  hasDeadline(header) =>
    /\ \A c \in Ctrls :
         /\ late[c] <= sent[c] /\ begun[c] <= now
         /\ pc[c] \in {"ready", "ioctl"} => deadline[c] <= ScrapeEnd
    /\ \A k \in Nat : now > ScrapeEnd + k * Span =>
         BegunBy(k) = Ctrls \/ Cardinality(BegunBy(k)) >= (k + 1) * Workers
    /\ ScrapeBounded

LEMMA SizeOfUnion ==
  ASSUME NEW S, NEW T, IsFiniteSet(S), IsFiniteSet(T), S \cap T = {}
  PROVE  Cardinality(S \cup T) = Cardinality(S) + Cardinality(T)
<1>1. Cardinality(S) \in Nat /\ Cardinality(T) \in Nat
  BY FS_CardinalityType
<1>2. Cardinality(S \cup T) = Cardinality(S) + Cardinality(T) - Cardinality(S \cap T)
  BY FS_Union
<1>3. Cardinality(S \cap T) = 0
  BY FS_EmptySet
<1> QED
  BY <1>1, <1>2, <1>3

LEMMA WorkersType ==
  /\ Cardinality(Ctrls) \in Nat
  /\ Workers \in Nat /\ Workers <= Cardinality(Ctrls)
  /\ Ctrls # {} => Workers > 0
  /\ \A S \in SUBSET Ctrls : IsFiniteSet(S) /\ Cardinality(S) \in Nat
<1>1. Cardinality(Ctrls) \in Nat /\ (Cardinality(Ctrls) = 0 <=> Ctrls = {})
  BY TimesAssumption, FS_CardinalityType, FS_EmptySet
<1>2. \A S \in SUBSET Ctrls : IsFiniteSet(S) /\ Cardinality(S) \in Nat
  BY TimesAssumption, FS_Subset, FS_CardinalityType
<1> QED
  BY <1>1, <1>2, TimesAssumption DEF Workers

\* The polls that hold a worker are those that neither wait nor are done, and as
\* many as there are workers when one waits and cannot begin.
LEMMA Occupied ==
  ASSUME TypeOK, NEW c \in Ctrls, pc[c] = "waiting", ~Admits(c)
  PROVE  Cardinality(Holders) >= Workers
<1>1. Holders \in SUBSET Ctrls
  BY DEF Holders
<1> QED
  BY <1>1, WorkersType DEF Admits

\* All batches together are all controllers.
LEMMA BatchesCover ==
  Ctrls # {} =>
    Batches \in Nat /\ Batches > 0 /\ Batches * Workers >= Cardinality(Ctrls)
<1> SUFFICES ASSUME Ctrls # {}
             PROVE  Batches \in Nat /\ Batches > 0 /\ Batches * Workers >= Cardinality(Ctrls)
  OBVIOUS
<1> DEFINE n == Cardinality(Ctrls)
           w == Workers
           b == (n + w - 1) \div w
<1>1. n \in Nat /\ w \in Nat /\ w > 0 /\ w <= n
  BY WorkersType
<1> HIDE DEF n, w
<1>2. b \in Int /\ w * b <= n + w - 1 /\ n + w - 1 < w * b + w
  BY <1>1
<1>3. b = Batches
  BY DEF Batches, n, w
<1> HIDE DEF b
<1>4. w * b = b * w
  BY <1>1, <1>2
<1>5. b > 0
  <2> SUFFICES ASSUME b <= 0 PROVE FALSE
    BY <1>2
  <2>1. w * b <= 0
    BY <1>1, <1>2
  <2> QED
    BY <1>1, <1>2, <2>1
<1>6. b * w >= n
  BY <1>1, <1>2, <1>4
<1> QED
  BY <1>2, <1>3, <1>5, <1>6 DEF n, w

LEMMA BoundForms ==
  ASSUME TypeOK, hasDeadline(header), NEW b \in Nat
  PROVE  (scrapeDeadline(header) + b * Commands) * TicksPerMs = ScrapeEnd + b * Span
<1>1. scrapeDeadline(header) \in Nat /\ Commands \in Nat
  BY TimesAssumption DEF TypeOK, Header, hasDeadline, scrapeDeadline
<1> QED
  BY <1>1 DEF Span, ScrapeEnd, TicksPerMs

LEMMA SpanTypes ==
  ASSUME TypeOK, hasDeadline(header)
  PROVE  /\ Span \in Nat /\ ScrapeEnd \in Nat
         /\ \A k \in Nat : k * Span \in Nat /\ (k + 1) * Span = k * Span + Span
         /\ Batches \in Nat => (ScrapeBounded <=> now <= ScrapeEnd + Batches * Span)
<1>1. /\ scrapeDeadline(header) \in Nat /\ now \in Nat /\ Commands \in Nat
  BY TimesAssumption DEF TypeOK, Header, hasDeadline, scrapeDeadline
<1>2. Span \in Nat /\ ScrapeEnd \in Nat
  BY <1>1 DEF Span, ScrapeEnd, TicksPerMs
<1>3. \A k \in Nat : k * Span \in Nat /\ (k + 1) * Span = k * Span + Span
  BY <1>2
<1>4. Batches \in Nat => (ScrapeBounded <=> now <= ScrapeEnd + Batches * Span)
  BY BoundForms DEF ScrapeBounded
<1> QED
  BY <1>2, <1>3, <1>4

\* A command that still runs belongs to a poll that began less than a span ago, or
\* the deadline was less than a span ago.
LEMMA RunsShort ==
  ASSUME TypeOK, Bounds, Batched, hasDeadline(header), Tick, NEW c \in Ctrls, pc[c] = "ioctl"
  PROVE  /\ now < begun[c] + Span \/ now < ScrapeEnd + Span
         /\ now >= ScrapeEnd => Span > 0
<1>1. /\ now \in Nat /\ begun[c] \in Nat /\ deadline[c] \in Nat /\ late[c] \in Nat
      /\ until[c] \in Nat /\ sent[c] \in 0..Commands /\ Commands \in Nat
      /\ Span \in Nat /\ ScrapeEnd \in Nat
  BY SpanTypes, TimesAssumption DEF TypeOK
<1>2. now < until[c] /\ until[c] <= Latest(begun[c], deadline[c]) + late[c] * TicksPerMs
  BY DEF Tick, Bounds, InKernel
<1>3. late[c] <= sent[c] /\ deadline[c] <= ScrapeEnd
  BY DEF Batched
<1>4. late[c] * TicksPerMs <= Span
  BY <1>1, <1>3 DEF Span, TicksPerMs
<1>5. now < begun[c] + Span \/ now < ScrapeEnd + Span
  BY <1>1, <1>2, <1>3, <1>4 DEF Latest, TicksPerMs
<1>6. begun[c] <= now
  BY DEF Batched
<1> QED
  BY <1>1, <1>5, <1>6

LEMMA BatchedStep == TypeOK /\ Bounds /\ Batched /\ [Next]_vars => Batched'
<1> SUFFICES ASSUME TypeOK, Bounds, Batched, [Next]_vars, hasDeadline(header)' PROVE Batched'
  BY DEF Batched
<1>t. TypeOK'
  BY TypeStep
<1>h. UNCHANGED <<header, ScrapeEnd>> /\ hasDeadline(header)
  BY DEF Next, Acquire, Send, Return, Finish, Tick, vars, hasDeadline, ScrapeEnd
<1>b. /\ \A c \in Ctrls :
           /\ late[c] <= sent[c] /\ begun[c] <= now
           /\ pc[c] \in {"ready", "ioctl"} => deadline[c] <= ScrapeEnd
      /\ \A k \in Nat : now > ScrapeEnd + k * Span =>
           BegunBy(k) = Ctrls \/ Cardinality(BegunBy(k)) >= (k + 1) * Workers
      /\ ScrapeBounded
  BY <1>h DEF Batched
<1>0. ASSUME UNCHANGED now,
             \A c \in Ctrls :
               /\ late'[c] <= sent'[c] /\ begun'[c] <= now
               /\ pc'[c] \in {"ready", "ioctl"} => deadline'[c] <= ScrapeEnd,
             \A c \in Ctrls : pc[c] # "waiting" => pc'[c] # "waiting" /\ begun'[c] = begun[c]
      PROVE  Batched'
  <2>1. ASSUME NEW k \in Nat, now > ScrapeEnd + k * Span
        PROVE  BegunBy(k)' = Ctrls \/ Cardinality(BegunBy(k)') >= (k + 1) * Workers
    <3>1. BegunBy(k) \subseteq BegunBy(k)' /\ BegunBy(k)' \subseteq Ctrls
      BY <1>0, <1>h DEF BegunBy, Span
    <3>2. /\ Cardinality(BegunBy(k)) \in Nat /\ Cardinality(BegunBy(k)') \in Nat
          /\ Cardinality(BegunBy(k)) <= Cardinality(BegunBy(k)')
      BY <3>1, WorkersType, FS_Subset
    <3>3. (k + 1) * Workers \in Nat
      BY WorkersType
    <3>4. BegunBy(k) = Ctrls \/ Cardinality(BegunBy(k)) >= (k + 1) * Workers
      BY <1>b, <2>1
    <3>5. CASE BegunBy(k) = Ctrls
      BY <3>1, <3>5
    <3>6. CASE Cardinality(BegunBy(k)) >= (k + 1) * Workers
      BY <3>2, <3>3, <3>6
    <3> QED
      BY <3>4, <3>5, <3>6
  <2>2. ScrapeBounded'
    BY <1>0, <1>b, <1>h DEF ScrapeBounded
  <2>3. \A k \in Nat : ScrapeEnd' = ScrapeEnd /\ (k * Span)' = k * Span /\ now' = now
    BY <1>0, <1>h DEF Span
  <2> QED
    BY <1>0, <2>1, <2>2, <2>3 DEF Batched, Workers
<1>1. ASSUME NEW c \in Ctrls, Acquire(c) PROVE Batched'
  <2>1. withTimeout(header, now) <= ScrapeEnd
    <3>1. scrapeDeadline(header) \in Nat /\ now \in Nat /\ DeviceTimeout \in Nat
      BY <1>h, TimesAssumption DEF TypeOK, Header, hasDeadline, scrapeDeadline
    <3> QED
      BY <1>h, <3>1 DEF withTimeout, ScrapeEnd, Least, TicksPerMs
  <2> QED
    BY <1>0, <1>1, <1>b, <2>1 DEF Acquire, Admits, TypeOK
<1>2. ASSUME NEW c \in Ctrls, Send(c) PROVE Batched'
  BY <1>0, <1>2, <1>b DEF Send, TypeOK
<1>3. ASSUME NEW c \in Ctrls, Return(c) PROVE Batched'
  BY <1>0, <1>3, <1>b DEF Return, TypeOK
<1>4. ASSUME NEW c \in Ctrls, Finish(c) PROVE Batched'
  BY <1>0, <1>4, <1>b DEF Finish, TypeOK
<1>5. CASE Tick
  <2>1. /\ now' = now + 1 /\ UNCHANGED <<pc, begun, deadline, late, sent>> /\ now \in Nat
        /\ \A c \in Ctrls : begun[c] \in Nat
    BY <1>5 DEF Tick, TypeOK
  <2>2. /\ Span \in Nat /\ ScrapeEnd \in Nat
        /\ \A k \in Nat : k * Span \in Nat /\ (k + 1) * Span = k * Span + Span
    BY <1>h, SpanTypes
  <2>3. PICK r \in Ctrls : pc[r] = "ioctl"
    BY <1>5 DEF Tick
  <2>4. ASSUME NEW c \in Ctrls, pc[c] = "ioctl"
        PROVE  /\ now < begun[c] + Span \/ now < ScrapeEnd + Span
               /\ now >= ScrapeEnd => Span > 0
    BY <1>5, <1>h, <2>4, RunsShort
  \* Who began k spans after the deadline is done a span later.
  <2>5. ASSUME NEW k \in Nat, now = ScrapeEnd + (k + 1) * Span, NEW c \in BegunBy(k)
        PROVE  pc[c] # "ioctl"
    <3> DEFINE x == k * Span
    <3>1. x \in Nat /\ now = ScrapeEnd + (x + Span)
      BY <2>2, <2>5
    <3>2. c \in Ctrls /\ begun[c] <= ScrapeEnd + x
      BY DEF BegunBy
    <3> HIDE DEF x
    <3>3. ASSUME pc[c] = "ioctl" PROVE FALSE
      <4>1. now < begun[c] + Span \/ now < ScrapeEnd + Span
        BY <2>4, <3>2, <3>3
      <4>2. begun[c] \in Nat
        BY <2>1, <3>2
      <4> QED
        BY <2>1, <2>2, <3>1, <3>2, <4>1, <4>2
    <3> QED
      BY <3>3
  <2>6. ASSUME NEW k \in Nat, now = ScrapeEnd + k * Span
        PROVE  BegunBy(k) = Ctrls \/ Cardinality(BegunBy(k)) >= (k + 1) * Workers
    <3>1. BegunBy(k) = {c \in Ctrls : pc[c] # "waiting"}
      BY <1>b, <2>6 DEF BegunBy
    <3>2. CASE \A c \in Ctrls : pc[c] # "waiting"
      BY <3>1, <3>2
    <3>3. CASE \E c \in Ctrls : pc[c] = "waiting"
      <4>1. Cardinality(Holders) >= Workers
        BY <1>5, <3>3, Occupied DEF Tick
      <4>2. Holders \subseteq BegunBy(k) /\ BegunBy(k) \subseteq Ctrls
        BY <3>1 DEF Holders
      <4>3. /\ Workers \in Nat /\ IsFiniteSet(Holders) /\ IsFiniteSet(BegunBy(k))
            /\ Cardinality(Holders) \in Nat /\ Cardinality(BegunBy(k)) \in Nat
        BY <4>2, WorkersType
      <4>4. CASE k = 0
        <5>1. Cardinality(Holders) <= Cardinality(BegunBy(k))
          BY <4>2, <4>3, FS_Subset
        <5> QED
          BY <4>1, <4>3, <4>4, <5>1
      <4>5. CASE k # 0
        <5>1. PICK j \in Nat : k = j + 1
          <6>1. k - 1 \in Nat /\ k = (k - 1) + 1
            BY <4>5
          <6> QED
            BY <6>1
        <5>2. now > ScrapeEnd + j * Span
          BY <2>1, <2>2, <2>3, <2>4, <2>6, <5>1
        <5>3. BegunBy(j) = Ctrls \/ Cardinality(BegunBy(j)) >= (j + 1) * Workers
          BY <1>b, <5>2
        <5>4. BegunBy(j) \subseteq BegunBy(k) /\ BegunBy(j) # Ctrls
          BY <3>1, <3>3 DEF BegunBy
        <5>5. BegunBy(j) \cap Holders = {}
          <6>1. \A c \in Holders : pc[c] = "ioctl" /\ c \in Ctrls
            BY <1>5 DEF Holders, Tick
          <6> QED
            BY <2>5, <2>6, <5>1, <6>1
        <5>6. IsFiniteSet(BegunBy(j)) /\ Cardinality(BegunBy(j)) \in Nat
          BY <4>2, <5>4, WorkersType
        <5>7. Cardinality(BegunBy(j) \cup Holders) = Cardinality(BegunBy(j)) + Cardinality(Holders)
          BY <4>3, <5>5, <5>6, SizeOfUnion
        <5>8. Cardinality(BegunBy(j) \cup Holders) <= Cardinality(BegunBy(k))
          BY <4>2, <4>3, <5>4, FS_Subset
        <5>9. (j + 1) * Workers + Workers = (k + 1) * Workers /\ (j + 1) * Workers \in Nat
          BY <4>3, <5>1
        <5> QED
          BY <4>1, <4>3, <5>3, <5>4, <5>6, <5>7, <5>8, <5>9
      <4> QED
        BY <4>4, <4>5
    <3> QED
      BY <3>2, <3>3
  <2>7. ASSUME NEW k \in Nat, now + 1 > ScrapeEnd + k * Span
        PROVE  BegunBy(k) = Ctrls \/ Cardinality(BegunBy(k)) >= (k + 1) * Workers
    <3>1. now = ScrapeEnd + k * Span \/ now > ScrapeEnd + k * Span
      BY <2>1, <2>2, <2>7
    <3> QED
      BY <1>b, <2>6, <3>1
  <2>8. now + 1 <= ScrapeEnd + Batches * Span
    <3>1. /\ Batches \in Nat /\ Batches > 0 /\ Batches * Workers >= Cardinality(Ctrls)
          /\ now <= ScrapeEnd + Batches * Span
      BY <1>b, <1>h, <2>3, BatchesCover, SpanTypes
    <3>2. PICK j \in Nat : Batches = j + 1
      <4>1. Batches - 1 \in Nat /\ Batches = (Batches - 1) + 1
        BY <3>1
      <4> QED
        BY <4>1
    <3>3. SUFFICES ASSUME now = ScrapeEnd + Batches * Span PROVE FALSE
      BY <2>1, <2>2, <3>1
    <3>4. now > ScrapeEnd + j * Span
      BY <2>1, <2>2, <2>3, <2>4, <3>2, <3>3
    <3>5. BegunBy(j) = Ctrls \/ Cardinality(BegunBy(j)) >= (j + 1) * Workers
      BY <1>b, <3>4
    <3>6. BegunBy(j) = Ctrls
      <4>1. BegunBy(j) \subseteq Ctrls /\ IsFiniteSet(Ctrls)
        BY TimesAssumption DEF BegunBy
      <4>2. Cardinality(BegunBy(j)) <= Cardinality(Ctrls)
        BY <4>1, FS_Subset
      <4>3. Cardinality(BegunBy(j)) \in Nat /\ Cardinality(Ctrls) \in Nat
        BY <4>1, WorkersType
      <4>4. CASE Cardinality(BegunBy(j)) >= (j + 1) * Workers
        <5>1. Cardinality(BegunBy(j)) = Cardinality(Ctrls)
          BY <3>1, <3>2, <4>2, <4>3, <4>4, WorkersType
        <5> QED
          BY <4>1, <5>1, FS_Subset
      <4> QED
        BY <3>5, <4>4
    <3> QED
      BY <2>3, <2>5, <3>2, <3>3, <3>6
  <2>9. ScrapeBounded'
    <3>1. hasDeadline(header)' /\ Batches' = Batches /\ Span' = Span
      BY <1>h DEF Batches, Span, Workers, hasDeadline
    <3>2. Batches \in Nat
      BY <2>3, BatchesCover
    <3>3. (scrapeDeadline(header) + Batches * Commands) * TicksPerMs = ScrapeEnd + Batches * Span
      BY <1>h, <3>2, BoundForms
    <3> QED
      BY <1>h, <2>1, <2>8, <3>3 DEF ScrapeBounded
  <2>10. \A k \in Nat : BegunBy(k)' = BegunBy(k)
    BY <1>h, <2>1 DEF BegunBy, Span
  <2>11. \A c \in Ctrls :
           /\ late'[c] <= sent'[c] /\ begun'[c] <= now'
           /\ pc'[c] \in {"ready", "ioctl"} => deadline'[c] <= ScrapeEnd'
    BY <1>b, <1>h, <2>1
  <2>12. \A k \in Nat : now' > ScrapeEnd' + k * Span =>
           BegunBy(k)' = Ctrls \/ Cardinality(BegunBy(k)') >= (k + 1) * Workers
    BY <1>h, <2>1, <2>7, <2>10
  <2> QED
    BY <2>9, <2>11, <2>12 DEF Batched, Span, Workers
<1>6. CASE UNCHANGED vars
  BY <1>0, <1>6, <1>b DEF vars
<1> QED
  BY <1>1, <1>2, <1>3, <1>4, <1>5, <1>6 DEF Next

\* A request with a deadline is answered by then, but for a millisecond per command
\* of each batch, whichever controllers hang and in whatever order they get in.
THEOREM EveryScrapeBounded == Spec => []ScrapeBounded
<1>1. Init => Batched
  <2> SUFFICES ASSUME Init, hasDeadline(header) PROVE Batched
    BY DEF Batched
  <2>1. TypeOK
    BY InitBounds
  <2>2. /\ Span \in Nat /\ ScrapeEnd \in Nat /\ now = 0
        /\ \A k \in Nat : k * Span \in Nat
    BY <2>1, SpanTypes DEF Init
  <2>3. ScrapeBounded
    <3>1. CASE Ctrls = {}
      <4>1. Batches = 0
        BY <3>1 DEF Batches
      <4> QED
        BY <2>1, <2>2, <4>1, SpanTypes
    <3>2. CASE Ctrls # {}
      BY <2>1, <2>2, <3>2, BatchesCover, SpanTypes
    <3> QED
      BY <3>1, <3>2
  <2> QED
    BY <2>2, <2>3 DEF Batched, Init
<1>2. Spec => [](TypeOK /\ Bounds /\ Batched)
  BY <1>1, InitBounds, TypeStep, BoundsStep, BatchedStep, PTL DEF Spec
<1>3. TypeOK /\ Batched => ScrapeBounded
  BY DEF Batched, ScrapeBounded
<1> QED
  BY <1>2, <1>3, PTL

=============================================================================
