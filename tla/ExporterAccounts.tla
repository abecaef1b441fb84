-------------------------- MODULE ExporterAccounts --------------------------
(***************************************************************************)
(* What the answers of Exporter account for, for every fleet, every number *)
(* of requests and CPUs, every page order and every bound: which gauges a  *)
(* finished poll leaves out, what the counters add up to, which failures   *)
(* were logged and how far the error log is read.                          *)
(***************************************************************************)
EXTENDS ExporterProofs, FiniteSetTheorems

-----------------------------------------------------------------------------
(* What a step of one poll does to what the poll reports.                  *)

\* The next touch of something shared, in the same collector or after the last.
Stays(g) ==
  /\ UNCHANGED <<stage, ok, failed, supported, success>>
  /\ \/ /\ pc[g] \in {"waiting", "namespaces", "identify", "check", "size", "read"}
        /\ pc'[g] \in {"namespaces", "identify", "remember", "size", "read", "mark"}
     \/ pc[g] = "record" /\ pc'[g] = "log"
     \/ pc[g] = "clear" /\ pc'[g] = "finish"

\* A collector is over; one that did not fail has reported its page.
Passes(g) ==
  /\ UNCHANGED <<ok, failed, success>>
  /\ stage' = [stage EXCEPT ![g] = @ + 1]
  /\ pc'[g] = IF stage[g] < Len(PageOrder) THEN "check"
              ELSE IF ok[g] THEN "clear" ELSE "finish"
  /\ \/ /\ pc[g] \in {"identify", "remember", "record", "log"}
        /\ UNCHANGED supported
     \/ /\ pc[g] \in {"check", "read", "mark"}
        /\ \E v \in {"no", "yes"} : reportPage(g, v)

\* A collector fails; only one that could not parse a page reports it.
Breaks(g, r) ==
  /\ UNCHANGED <<stage, success>>
  /\ ok' = [ok EXCEPT ![g] = FALSE]
  /\ reason' = [reason EXCEPT ![g] = r]
  /\ pc'[g] = "record"
  /\ failed' = failed \cup {Failure(g, r)}
  /\ \/ pc[g] = "identify" /\ UNCHANGED supported
     \/ pc[g] = "read" /\ r = "parse" /\ reportPage(g, "yes")
     \/ pc[g] = "read" /\ r # "parse" /\ UNCHANGED supported

Finishes(g) ==
  /\ UNCHANGED <<stage, ok, failed, supported>>
  /\ pc[g] = "finish" /\ pc'[g] = "done"
  /\ success' = [success EXCEPT ![g] = IF ok[g] THEN "yes" ELSE "no"]

LEMMA StepAccount ==
  ASSUME TypeOK, Position, NEW g \in Polls, PollStep(g)
  PROVE  \/ Stays(g) \/ Passes(g) \/ Finishes(g)
         \/ \E r \in Reasons : Breaks(g, r)
<1> USE DEF machine, locals, scrapeState, responses, history
<1> /\ pc \in [Polls -> Labels] /\ stage \in [Polls -> 0..Len(PageOrder) + 1]
  BY DEF TypeOK
<1>1. CASE Acquire(g)
  BY <1>1 DEF Acquire, Goto, Stays
<1>2. CASE EnumerateNamespaces(g)
  BY <1>2 DEF EnumerateNamespaces, Goto, Stays
<1>3. CASE ReadIdentify(g)
  <2> PICK a \in Answers :
        \/ Goto(g, "remember") /\ UNCHANGED <<stage, ok, reason, failed>>
        \/ Advance(g) /\ UNCHANGED failed
        \/ Fail(g, a)
    BY <1>3 DEF ReadIdentify
  <2>1. CASE Goto(g, "remember") /\ UNCHANGED <<stage, ok, reason, failed>>
    BY <1>3, <2>1 DEF ReadIdentify, Goto, Stays
  <2>2. CASE Advance(g) /\ UNCHANGED failed
    BY <1>3, <2>2 DEF ReadIdentify, Advance, Goto, Passes
  <2>3. CASE Fail(g, a)
    <3>1. classifyError(a) \in Reasons
      BY DEF classifyError, Reasons
    <3>2. Breaks(g, classifyError(a))
      BY <1>3, <2>3 DEF ReadIdentify, Fail, Goto, Breaks
    <3> QED
      BY <3>1, <3>2
  <2> QED
    BY <2>1, <2>2, <2>3
<1>4. CASE Remember(g)
  BY <1>4 DEF Remember, Advance, Goto, Passes
<1>5. CASE Check(g)
  BY <1>5 DEF Check, Advance, Goto, Passes, Stays
<1>6. CASE Size(g)
  BY <1>6 DEF Size, Goto, Stays
<1>7. CASE Read(g)
  <2> PICK a \in Answers :
        \/ reportPage(g, "yes") /\ Advance(g) /\ UNCHANGED failed
        \/ Goto(g, "mark") /\ UNCHANGED <<supported, stage, ok, reason, entries, failed>>
        \/ a = "short" /\ reportPage(g, "yes") /\ Fail(g, a)
        \/ a \in DeviceErrors /\ Fail(g, a) /\ UNCHANGED supported
    BY <1>7 DEF Read
  <2>1. CASE reportPage(g, "yes") /\ Advance(g) /\ UNCHANGED failed
    BY <1>7, <2>1 DEF Read, Advance, Goto, Passes
  <2>2. CASE Goto(g, "mark") /\ UNCHANGED <<supported, stage, ok, reason, entries, failed>>
    BY <1>7, <2>2 DEF Read, Goto, Stays
  <2>3. CASE a = "short" /\ reportPage(g, "yes") /\ Fail(g, a)
    <3>1. Breaks(g, "parse")
      BY <1>7, <2>3 DEF Read, Fail, Goto, Breaks, classifyError
    <3> QED
      BY <3>1 DEF Reasons
  <2>4. CASE a \in DeviceErrors /\ Fail(g, a) /\ UNCHANGED supported
    <3>1. classifyError(a) \in Reasons \ {"parse"}
      BY <2>4 DEF classifyError, DeviceErrors, Reasons
    <3>2. Breaks(g, classifyError(a))
      BY <1>7, <2>4, <3>1 DEF Read, Fail, Goto, Breaks
    <3> QED
      BY <3>1, <3>2
  <2> QED
    BY <2>1, <2>2, <2>3, <2>4
<1>8. CASE Mark(g)
  BY <1>8 DEF Mark, Advance, Goto, Passes
<1>9. CASE Record(g)
  BY <1>9 DEF Record, Advance, Goto, Passes, Stays
<1>10. CASE Log(g)
  BY <1>10 DEF Log, Advance, Goto, Passes
<1>11. CASE Clear(g)
  BY <1>11 DEF Clear, Goto, Stays
<1>12. CASE Finish(g)
  BY <1>12 DEF Finish, Goto, Finishes
<1> QED
  BY <1>1, <1>2, <1>3, <1>4, <1>5, <1>6, <1>7, <1>8, <1>9, <1>10, <1>11, <1>12
     DEF PollStep

-----------------------------------------------------------------------------
(* nvme_logpage_scrape_success.                                            *)

\* ok says whether the poll failed anywhere; the gauge is set at the end, and
\* the end is what the request waits for.
Tally ==
  /\ \A g \in Polls : ok[g] <=> ~\E f \in failed : f.poll = g
  /\ \A f \in failed : pc[f.poll] # "off"
  /\ \A g \in Polls : pc[g] # "done" => success[g] = "absent"
  /\ \A g \in Polls : pc[g] = "done" => success[g] = IF ok[g] THEN "yes" ELSE "no"
  /\ \A g \in Polls :
       request[g[1]] = "answered" /\ ctrls[g] # NoDrive => pc[g] = "done"

LEMMA TallyStep ==
  TypeOK /\ Position /\ Phases /\ Tally /\ [Next]_vars => Tally'
<1> SUFFICES ASSUME TypeOK, Position, Phases, Tally, [Next]_vars PROVE Tally'
  OBVIOUS
<1> USE DEF machine, locals, scrapeState, responses, history
<1>n. /\ \A f \in failed : f.poll \in Polls
      /\ \A g \in Polls : g[1] \in Scrapes
  BY DEF TypeOK, Failures, Polls
<1>1. ASSUME NEW s \in Scrapes, Handle(s) PROVE Tally'
  <2>1. /\ UNCHANGED <<ok, failed, success>>
        /\ \A g \in Polls : pc[g] # "off" => pc'[g] = pc[g]
        /\ \A g \in Polls : pc[g] = "off" => pc'[g] \in {"off", "waiting"}
        /\ \A g \in Polls : g[1] # s => ctrls'[g] = ctrls[g]
        /\ \A t \in Scrapes : request'[t] = "answered" => request[t] = "answered" /\ t # s
    BY <1>1 DEF Handle, TypeOK, Position
  <2> QED
    BY <1>n, <2>1 DEF Tally
<1>2. ASSUME NEW s \in Scrapes, EnumerationFails(s) PROVE Tally'
  BY <1>2, <1>n DEF EnumerationFails, Tally, TypeOK
<1>3. ASSUME NEW s \in Scrapes, Respond(s) PROVE Tally'
  BY <1>3, <1>n DEF Respond, Waited, PollsOf, Tally, TypeOK
<1>4. ASSUME NEW n \in Names, NEW d \in Slots, Swap(n, d) PROVE Tally'
  BY <1>4 DEF Swap, Tally
<1>5. ASSUME NEW g \in Polls, PollStep(g) PROVE Tally'
  <2>1. /\ UNCHANGED <<request, ctrls>>
        /\ pc[g] \notin {"off", "done"} /\ pc'[g] # "off"
        /\ \A h \in Polls : h # g => pc'[h] = pc[h]
        /\ request[g[1]] = "collecting"
    BY <1>5, StepShape DEF Phases
  <2>2. CASE Stays(g) \/ Passes(g)
    <3>1. UNCHANGED <<ok, failed, success>> /\ pc'[g] # "done"
      BY <2>1, <2>2 DEF Stays, Passes
    <3> QED
      BY <1>n, <2>1, <3>1 DEF Tally
  <2>3. CASE Finishes(g)
    <3>1. /\ UNCHANGED <<ok, failed>> /\ pc'[g] = "done"
          /\ success'[g] = IF ok[g] THEN "yes" ELSE "no"
          /\ \A h \in Polls : h # g => success'[h] = success[h]
      BY <2>3 DEF Finishes, TypeOK
    <3> QED
      BY <1>n, <2>1, <3>1 DEF Tally
  <2>4. ASSUME NEW r \in Reasons, Breaks(g, r) PROVE Tally'
    <3>1. /\ pc'[g] = "record" /\ UNCHANGED success
          /\ ok'[g] = FALSE
          /\ \A h \in Polls : h # g => ok'[h] = ok[h]
          /\ failed' = failed \cup {Failure(g, r)}
          /\ Failure(g, r).poll = g
      BY <2>4 DEF Breaks, TypeOK, Failure
    <3>2. \A h \in Polls : ok'[h] <=> ~\E f \in failed' : f.poll = h
      BY <3>1 DEF Tally
    <3>3. \A f \in failed' : pc'[f.poll] # "off"
      BY <1>n, <2>1, <3>1 DEF Tally
    <3> QED
      BY <1>n, <2>1, <3>1, <3>2, <3>3 DEF Tally
  <2> QED
    BY <1>5, <2>2, <2>3, <2>4, StepAccount
<1>6. CASE UNCHANGED vars
  BY <1>6 DEF vars, Tally
<1> QED
  BY <1>1, <1>2, <1>3, <1>4, <1>5, <1>6 DEF Next, Quiescent

LEMMA InitTally == Init => Tally
BY DEF Init, Tally

\* nvme_logpage_scrape_success is 0 exactly for the polls in which a collector
\* failed, at whatever stage, and no request is answered before all its polls
\* have set theirs.
THEOREM SuccessIsTold == Spec => []SuccessTellsFailure
<1>1. Spec => [](TypeOK /\ Position /\ Phases /\ Tally)
  BY InitPosition, NextPosition, InitRemembered, PhasesStep, InitTally, TallyStep,
     PTL DEF Spec
<1>2. TypeOK /\ Tally => SuccessTellsFailure
  <2> SUFFICES ASSUME TypeOK, Tally, NEW g \in Polls
               PROVE  /\ success[g] # "absent" =>
                           (success[g] = "no" <=> \E f \in failed : f.poll = g)
                      /\ request[g[1]] = "answered" /\ ctrls[g] # NoDrive
                           => success[g] # "absent"
    BY DEF SuccessTellsFailure
  <2>1. success[g] # "absent" => pc[g] = "done"
    BY DEF Tally
  <2>2. pc[g] = "done" => success[g] = IF ok[g] THEN "yes" ELSE "no"
    BY DEF Tally
  <2>3. ok[g] <=> ~\E f \in failed : f.poll = g
    BY DEF Tally
  <2>4. request[g[1]] = "answered" /\ ctrls[g] # NoDrive => pc[g] = "done"
    BY DEF Tally
  <2> QED
    BY <2>1, <2>2, <2>3, <2>4
<1> QED
  BY <1>1, <1>2, PTL

-----------------------------------------------------------------------------
(* nvme_logpage_supported.                                                 *)

\* A failure of collector i of poll g.
Of(f, g, i) == f.poll = g /\ f.stage = i

\* Poll g has left the collector i behind, or only its failure is still to be
\* recorded.
Past(g, i) == i < stage[g] \/ (i = stage[g] /\ pc[g] \in {"record", "log"})

Settled(g, i) ==
  /\ supported[g][PageOrder[i]] = "absent" <=>
       \E f \in failed : Of(f, g, i) /\ f.reason # "parse"
  /\ (\E f \in failed : Of(f, g, i) /\ f.reason = "parse") =>
       supported[g][PageOrder[i]] = "yes"

\* The pages behind a poll are settled, and of those ahead nothing is said.
Pageful ==
  /\ \A g \in Polls, i \in 0..Len(PageOrder) :
       ~Past(g, i) => ~\E f \in failed : Of(f, g, i)
  /\ \A g \in Polls, i \in 1..Len(PageOrder) :
       IF Past(g, i) THEN Settled(g, i) ELSE supported[g][PageOrder[i]] = "absent"
  /\ \A g \in Polls : pc[g] \in {"clear", "finish", "done"} =>
       stage[g] = Len(PageOrder) + 1

LEMMA PagefulStep ==
  TypeOK /\ Position /\ Pageful /\ [Next]_vars => Pageful'
<1> SUFFICES ASSUME TypeOK, Position, Pageful, [Next]_vars PROVE Pageful'
  OBVIOUS
<1> USE DEF machine, locals, scrapeState, responses, history
<1>t. /\ Len(PageOrder) \in Nat
      /\ stage \in [Polls -> 0..Len(PageOrder) + 1]
      /\ supported \in [Polls -> [Pages -> {"absent", "no", "yes"}]]
      /\ \A i \in 1..Len(PageOrder) : PageOrder[i] \in Pages
      /\ \A i, j \in 1..Len(PageOrder) : PageOrder[i] = PageOrder[j] => i = j
  BY PagesFact, PagesAssumption DEF TypeOK
<1>0. ASSUME UNCHANGED <<stage, failed, supported>>,
             \A g \in Polls : pc'[g] = pc[g] \/ {pc[g], pc'[g]} \subseteq {"off", "waiting"}
      PROVE  Pageful'
  <2>1. \A g \in Polls, i \in 0..Len(PageOrder) : Past(g, i)' <=> Past(g, i)
    BY <1>0 DEF Past
  <2>2. \A g \in Polls, i \in 1..Len(PageOrder) : Past(g, i)' <=> Past(g, i)
    BY <1>0 DEF Past
  <2>3. \A g \in Polls : pc'[g] \in {"clear", "finish", "done"} => pc[g] = pc'[g]
    BY <1>0
  <2>4. \A g \in Polls, i \in 0..Len(PageOrder) :
       ~Past(g, i)' => ~\E f \in failed' : Of(f, g, i)
    BY <1>0, <2>1 DEF Pageful
  <2>5. \A g \in Polls, i \in 1..Len(PageOrder) :
       IF Past(g, i)' THEN Settled(g, i)' ELSE supported'[g][PageOrder[i]] = "absent"
    BY <1>0, <2>2 DEF Pageful, Settled
  <2> QED
    BY <1>0, <2>3, <2>4, <2>5 DEF Pageful
<1>1. ASSUME NEW s \in Scrapes, Handle(s) PROVE Pageful'
  BY <1>0, <1>1 DEF Handle, Position
<1>2. ASSUME NEW s \in Scrapes, EnumerationFails(s) PROVE Pageful'
  BY <1>0, <1>2 DEF EnumerationFails
<1>3. ASSUME NEW s \in Scrapes, Respond(s) PROVE Pageful'
  BY <1>0, <1>3 DEF Respond
<1>4. ASSUME NEW n \in Names, NEW d \in Slots, Swap(n, d) PROVE Pageful'
  BY <1>0, <1>4 DEF Swap
<1>5. ASSUME NEW g \in Polls, PollStep(g) PROVE Pageful'
  <2>1. /\ pc[g] \notin {"off", "done"}
        /\ \A h \in Polls : h # g => pc'[h] = pc[h] /\ stage'[h] = stage[h]
    BY <1>5, StepShape
  <2>2. /\ pc[g] \in {"waiting", "namespaces", "identify", "remember"} => stage[g] = 0
        /\ pc[g] \in {"check", "size", "read", "mark"} => stage[g] \in 1..Len(PageOrder)
        /\ pc[g] \in {"record", "log"} => stage[g] \in 0..Len(PageOrder)
    BY DEF Position
  \* It is enough to look at g when the others keep what is said of them.
  <2>3. ASSUME \A h \in Polls : h # g => supported'[h] = supported[h],
               \A f \in failed' : f \in failed \/ f.poll = g, failed \subseteq failed',
               \A i \in 0..Len(PageOrder) : ~Past(g, i)' => ~\E f \in failed' : Of(f, g, i),
               \A i \in 1..Len(PageOrder) :
                 IF Past(g, i)' THEN Settled(g, i)'
                 ELSE supported'[g][PageOrder[i]] = "absent",
               pc'[g] \in {"clear", "finish", "done"} => stage'[g] = Len(PageOrder) + 1
        PROVE  Pageful'
    <3>1. \A h \in Polls, i \in 0..Len(PageOrder) : h # g =>
            /\ Past(h, i)' <=> Past(h, i)
            /\ \A f \in failed' : Of(f, h, i) => f \in failed
      BY <2>1, <2>3 DEF Past, Of
    <3>2. \A h \in Polls, i \in 1..Len(PageOrder) : h # g =>
            /\ Past(h, i)' <=> Past(h, i)
            /\ Settled(h, i) => Settled(h, i)'
      <4> SUFFICES ASSUME NEW h \in Polls, NEW i \in 1..Len(PageOrder), h # g
                   PROVE  /\ Past(h, i)' <=> Past(h, i)
                          /\ Settled(h, i) => Settled(h, i)'
        OBVIOUS
      <4>0. i \in 0..Len(PageOrder)
        BY <1>t
      <4>1. (Past(h, i)' <=> Past(h, i)) /\ supported'[h] = supported[h]
        BY <2>3, <3>1, <4>0
      <4>2. \A f : f \in failed' /\ Of(f, h, i) <=> f \in failed /\ Of(f, h, i)
        BY <2>3, <3>1, <4>0
      <4> QED
        BY <4>1, <4>2 DEF Settled
    <3>3. \A h \in Polls, i \in 0..Len(PageOrder) :
            ~Past(h, i)' => ~\E f \in failed' : Of(f, h, i)
      BY <2>3, <3>1 DEF Pageful
    <3>4. \A h \in Polls, i \in 1..Len(PageOrder) :
            IF Past(h, i)' THEN Settled(h, i)'
            ELSE supported'[h][PageOrder[i]] = "absent"
      BY <2>3, <3>2 DEF Pageful
    <3>5. \A h \in Polls : pc'[h] \in {"clear", "finish", "done"} =>
            stage'[h] = Len(PageOrder) + 1
      BY <2>1, <2>3 DEF Pageful
    <3> QED
      BY <3>3, <3>4, <3>5 DEF Pageful
  <2>4. CASE Stays(g) \/ Finishes(g)
    <3>1. /\ UNCHANGED <<stage, failed, supported>>
          /\ pc'[g] \in {"clear", "finish", "done"} => pc[g] \in {"clear", "finish", "done"}
          /\ pc[g] \in {"record", "log"} <=> pc'[g] \in {"record", "log"}
      BY <2>4 DEF Stays, Finishes
    <3>2. \A i : Past(g, i)' <=> Past(g, i)
      BY <3>1 DEF Past
    <3>3. \A i \in 1..Len(PageOrder) : Settled(g, i) => Settled(g, i)'
      BY <3>1 DEF Settled
    <3> QED
      BY <2>3, <3>1, <3>2, <3>3 DEF Pageful
  <2>5. CASE Passes(g)
    <3>1. /\ failed' = failed /\ stage'[g] = stage[g] + 1
          /\ pc'[g] \notin {"record", "log", "done"}
          /\ pc[g] \notin {"clear", "finish", "done"}
          /\ pc'[g] \in {"clear", "finish"} => ~(stage[g] < Len(PageOrder))
      BY <1>t, <2>5 DEF Passes
    <3>2. stage[g] \in 0..Len(PageOrder)
      BY <1>t, <2>2, <2>5 DEF Passes
    <3>3. \A i \in 0..Len(PageOrder) : Past(g, i)' <=> i < stage[g] \/ i = stage[g]
      BY <1>t, <3>1, <3>2 DEF Past
    <3>4. \A i \in 0..Len(PageOrder) : ~Past(g, i)' => ~Past(g, i)
      BY <3>3 DEF Past
    <3>5. \A i \in 0..Len(PageOrder) : ~Past(g, i)' => ~\E f \in failed' : Of(f, g, i)
      BY <3>1, <3>4 DEF Pageful
    <3>6. pc'[g] \in {"clear", "finish", "done"} => stage'[g] = Len(PageOrder) + 1
      BY <1>t, <3>1, <3>2
    <3>7. CASE pc[g] \in {"identify", "remember", "record", "log"} /\ UNCHANGED supported
      <4>1. \A i \in 1..Len(PageOrder) : Past(g, i)' <=> Past(g, i)
        BY <1>t, <2>2, <3>1, <3>2, <3>7 DEF Past
      <4>2. \A i \in 1..Len(PageOrder) : Settled(g, i) => Settled(g, i)'
        BY <3>1, <3>7 DEF Settled
      <4> QED
        BY <2>3, <3>1, <3>5, <3>6, <3>7, <4>1, <4>2 DEF Pageful
    <3>8. ASSUME NEW v \in {"no", "yes"}, reportPage(g, v), pc[g] \in {"check", "read", "mark"}
          PROVE  Pageful'
      <4>1. /\ stage[g] \in 1..Len(PageOrder) /\ ~Past(g, stage[g])
            /\ Page(g) = PageOrder[stage[g]] /\ Page(g) \in Pages
        BY <1>t, <2>2, <3>8 DEF Past, Page
      <4>2. /\ \A h \in Polls : h # g => supported'[h] = supported[h]
            /\ supported'[g][Page(g)] = v
            /\ \A p \in Pages : p # Page(g) => supported'[g][p] = supported[g][p]
        BY <1>t, <3>8, <4>1 DEF reportPage
      <4>3. PICK n \in 1..Len(PageOrder) : n = stage[g]
        BY <4>1
      <4>4. ~\E f \in failed' : Of(f, g, n)
        BY <3>1, <3>2, <4>1, <4>3 DEF Pageful
      <4>5. Settled(g, n)'
        BY <4>1, <4>2, <4>3, <4>4 DEF Settled
      <4>6. ASSUME NEW i \in 1..Len(PageOrder), i # n
            PROVE  IF Past(g, i)' THEN Settled(g, i)'
                   ELSE supported'[g][PageOrder[i]] = "absent"
        <5>1. Past(g, i)' <=> Past(g, i)
          BY <1>t, <3>3, <3>8, <4>3, <4>6 DEF Past
        <5>2. supported'[g][PageOrder[i]] = supported[g][PageOrder[i]]
          BY <1>t, <4>1, <4>2, <4>3, <4>6
        <5>3. Settled(g, i) => Settled(g, i)'
          BY <3>1, <5>2 DEF Settled
        <5> QED
          BY <5>1, <5>2, <5>3 DEF Pageful
      <4>7. Past(g, n)'
        BY <1>t, <3>3, <4>3
      <4> QED
        BY <2>3, <3>1, <3>5, <3>6, <4>2, <4>5, <4>6, <4>7
    <3> QED
      BY <2>5, <3>7, <3>8 DEF Passes
  <2>6. ASSUME NEW r \in Reasons, Breaks(g, r) PROVE Pageful'
    <3>1. /\ stage'[g] = stage[g] /\ pc'[g] = "record" /\ pc[g] \in {"identify", "read"}
          /\ failed' = failed \cup {Failure(g, r)}
          /\ Failure(g, r).poll = g /\ Failure(g, r).stage = stage[g]
          /\ Failure(g, r).reason = r
      BY <2>6 DEF Breaks, Failure
    <3>2. stage[g] \in 0..Len(PageOrder) /\ ~Past(g, stage[g])
      BY <1>t, <2>2, <3>1 DEF Past
    <3> DEFINE o == Failure(g, r)
    <3> HIDE DEF o
    <3>3. /\ failed' = failed \cup {o} /\ o.poll = g /\ o.stage = stage[g] /\ o.reason = r
      BY <3>1 DEF o
    <3>4. \A i \in 0..Len(PageOrder) : Past(g, i)' <=> i < stage[g] \/ i = stage[g]
      BY <3>1 DEF Past
    <3>5. \A i \in 0..Len(PageOrder) : i # stage[g] =>
            /\ Past(g, i)' <=> Past(g, i)
            /\ \A f : f \in failed' /\ Of(f, g, i) <=> f \in failed /\ Of(f, g, i)
      BY <3>1, <3>3, <3>4 DEF Past, Of
    <3>6. \A i \in 0..Len(PageOrder) : ~Past(g, i)' => ~\E f \in failed' : Of(f, g, i)
      BY <3>4, <3>5 DEF Pageful
    <3>7. /\ \A h \in Polls : h # g => supported'[h] = supported[h]
          /\ stage[g] = 0 => UNCHANGED supported
          /\ stage[g] # 0 =>
               /\ stage[g] \in 1..Len(PageOrder) /\ Page(g) = PageOrder[stage[g]]
               /\ \A p \in Pages : p # Page(g) => supported'[g][p] = supported[g][p]
               /\ IF r = "parse" THEN supported'[g][Page(g)] = "yes"
                  ELSE supported'[g][Page(g)] = supported[g][Page(g)]
      BY <1>t, <2>2, <2>6 DEF Breaks, reportPage, Page
    <3>8. ASSUME NEW i \in 1..Len(PageOrder), i # stage[g]
          PROVE  IF Past(g, i)' THEN Settled(g, i)'
                 ELSE supported'[g][PageOrder[i]] = "absent"
      <4>1. i \in 0..Len(PageOrder)
        BY <1>t
      <4>2. supported'[g][PageOrder[i]] = supported[g][PageOrder[i]]
        BY <1>t, <3>2, <3>7, <3>8
      <4>3. Settled(g, i) => Settled(g, i)'
        BY <3>5, <3>8, <4>1, <4>2 DEF Settled
      <4> QED
        BY <3>5, <3>8, <4>1, <4>2, <4>3 DEF Pageful
    <3>9. ASSUME NEW i \in 1..Len(PageOrder), i = stage[g]
          PROVE  IF Past(g, i)' THEN Settled(g, i)'
                 ELSE supported'[g][PageOrder[i]] = "absent"
      <4>1. i \in 0..Len(PageOrder) /\ i # 0
        BY <1>t
      <4>2. ~\E f \in failed : Of(f, g, i)
        BY <3>2, <3>9, <4>1 DEF Pageful
      <4>3. supported[g][PageOrder[i]] = "absent"
        BY <3>2, <3>9 DEF Pageful
      <4>4. supported'[g][PageOrder[i]] = IF r = "parse" THEN "yes" ELSE "absent"
        BY <3>7, <3>9, <4>1, <4>3
      <4>5. /\ \A f \in failed' : Of(f, g, i) => f = o
            /\ o \in failed' /\ Of(o, g, i)
        BY <3>3, <3>9, <4>2 DEF Of
      <4>6. Settled(g, i)'
        BY <3>3, <4>4, <4>5 DEF Settled
      <4>7. Past(g, i)'
        BY <3>4, <3>9, <4>1
      <4> QED
        BY <4>6, <4>7
    <3> QED
      BY <2>3, <3>1, <3>3, <3>6, <3>7, <3>8, <3>9
  <2> QED
    BY <1>5, <2>4, <2>5, <2>6, StepAccount
<1>6. CASE UNCHANGED vars
  BY <1>0, <1>6 DEF vars
<1> QED
  BY <1>1, <1>2, <1>3, <1>4, <1>5, <1>6 DEF Next, Quiescent

LEMMA InitPageful == Init => Pageful
BY PagesFact DEF Init, Pageful, Past

\* A finished poll has reported every page as there or not there, except those
\* whose read failed before the parser; of a page that came back and did not
\* parse it says that it is there.
THEOREM GaugeAccounted == Spec => []GaugeAccountsForPage
<1>1. Spec => [](TypeOK /\ Position /\ Pageful)
  BY InitPosition, NextPosition, InitPageful, PagefulStep, PTL DEF Spec
<1>2. TypeOK /\ Pageful => GaugeAccountsForPage
  <2> SUFFICES ASSUME TypeOK, Pageful, NEW g \in Polls, NEW i \in 1..Len(PageOrder),
                      pc[g] = "done"
               PROVE  LET errors == {f.reason : f \in {e \in failed : e.poll = g /\ e.stage = i}}
                      IN  /\ supported[g][PageOrder[i]] = "absent" <=> errors \ {"parse"} # {}
                          /\ "parse" \in errors => supported[g][PageOrder[i]] = "yes"
    BY DEF GaugeAccountsForPage
  <2>1. stage[g] = Len(PageOrder) + 1
    BY DEF Pageful
  <2>2. Past(g, i)
    BY <2>1, PagesFact DEF Past
  <2>3. Settled(g, i)
    BY <2>2 DEF Pageful
  <2> QED
    BY <2>3 DEF Settled, Of
<1> QED
  BY <1>1, <1>2, PTL

-----------------------------------------------------------------------------
(* nvme_logpage_errors_total.                                              *)

\* The failures with key k that recordError has seen.
Booked(k) == {f \in failed \ Pending("record") : ErrKeyOf(f) = k}

\* A counter is the number of the failures it has seen.
Sums ==
  /\ IsFiniteSet(failed)
  /\ Pending("record") \subseteq failed
  /\ \A k \in ErrKeys : errCounts[k] = Cardinality(Booked(k))

\* Nothing but a collector that failed is recorded, and it is recorded next.
LEMMA RecordStep ==
  ASSUME TypeOK, Position, NEW g \in Polls, PollStep(g)
  PROVE  /\ Moved(g) /\ UNCHANGED ctrls
         /\ \/ /\ Record(g) /\ pc[g] = "record" /\ pc'[g] # "record" /\ UNCHANGED failed
            \/ /\ pc[g] # "record" /\ pc'[g] # "record" /\ UNCHANGED <<errCounts, failed>>
            \/ /\ pc[g] # "record" /\ UNCHANGED errCounts
               /\ \E r \in Reasons : Breaks(g, r)
<1>1. Moved(g) /\ UNCHANGED ctrls
  BY StepBook, StepShape
<1>2. CASE pc[g] = "record"
  <2>1. Record(g)
    BY <1>2 DEF PollStep, Acquire, EnumerateNamespaces, ReadIdentify, Remember, Check,
       Size, Read, Mark, Log, Clear, Finish
  <2>2. pc'[g] # "record" /\ UNCHANGED failed
    BY <1>2, StepAccount DEF Stays, Passes, Finishes, Breaks
  <2> QED
    BY <1>1, <1>2, <2>1, <2>2
<1>3. CASE pc[g] # "record"
  <2>1. ~Record(g)
    BY <1>3 DEF Record
  <2>2. UNCHANGED errCounts
    BY <2>1, StepBook DEF Aside
  <2>3. CASE Stays(g) \/ Passes(g) \/ Finishes(g)
    <3>1. pc'[g] # "record" /\ UNCHANGED failed
      BY <1>3, <2>3 DEF Stays, Passes, Finishes
    <3> QED
      BY <1>1, <1>3, <2>2, <3>1
  <2> QED
    BY <1>1, <1>3, <2>2, <2>3, StepAccount
<1> QED
  BY <1>2, <1>3

LEMMA SumsStep ==
  TypeOK /\ Position /\ Pageful /\ Sums /\ [Next]_vars => Sums'
<1> SUFFICES ASSUME TypeOK, Position, Pageful, Sums, [Next]_vars PROVE Sums'
  OBVIOUS
<1> USE DEF machine, locals, scrapeState, responses, history
<1>0. ASSUME UNCHANGED <<failed, errCounts>>, UNCHANGED Pending("record") PROVE Sums'
  BY <1>0 DEF Sums, Booked
<1>1. ASSUME NEW s \in Scrapes, Handle(s) PROVE Sums'
  <2>1. \A g \in Polls : g[1] = s => pc[g] # "record" /\ pc'[g] # "record"
    BY <1>1 DEF Handle, Position
  <2>2. \A g \in Polls : g[1] # s =>
          pc'[g] = pc[g] /\ Failure(g, reason[g])' = Failure(g, reason[g])
    BY <1>1 DEF Handle, Failure, Key
  <2>3. UNCHANGED Pending("record")
    BY <2>1, <2>2 DEF Pending
  <2> QED
    BY <1>0, <1>1, <2>3 DEF Handle
<1>2. ASSUME NEW s \in Scrapes, EnumerationFails(s) PROVE Sums'
  BY <1>0, <1>2 DEF EnumerationFails, Pending, Failure, Key
<1>3. ASSUME NEW s \in Scrapes, Respond(s) PROVE Sums'
  BY <1>0, <1>3 DEF Respond, Pending, Failure, Key
<1>4. ASSUME NEW n \in Names, NEW d \in Slots, Swap(n, d) PROVE Sums'
  BY <1>0, <1>4 DEF Swap, Pending, Failure, Key
<1>5. ASSUME NEW g \in Polls, PollStep(g) PROVE Sums'
  <2>1. Moved(g) /\ UNCHANGED ctrls
    BY <1>5, RecordStep
  <2>2. \A h \in Polls : h # g =>
          pc'[h] = pc[h] /\ Failure(h, reason[h])' = Failure(h, reason[h])
    BY <2>1 DEF Moved, Failure, Key
  <2>3. CASE pc[g] # "record" /\ pc'[g] # "record" /\ UNCHANGED <<errCounts, failed>>
    <3>1. UNCHANGED Pending("record")
      BY <2>2, <2>3 DEF Pending
    <3> QED
      BY <1>0, <2>3, <3>1
  <2>4. ASSUME pc[g] # "record", UNCHANGED errCounts, NEW r \in Reasons, Breaks(g, r)
        PROVE  Sums'
    <3> DEFINE o == Failure(g, r)
    <3>1. /\ failed' = failed \cup {o} /\ o.poll = g /\ o.stage = stage[g]
          /\ stage'[g] = stage[g] /\ pc'[g] = "record" /\ reason'[g] = r
          /\ pc[g] \in {"identify", "read"}
      BY <2>4 DEF Breaks, Failure, TypeOK
    <3>2. Failure(g, reason[g])' = o
      BY <2>1, <3>1 DEF Failure, Key
    <3> HIDE DEF o
    <3>3. o \notin failed
      <4>1. stage[g] \in 0..Len(PageOrder) /\ ~Past(g, stage[g])
        BY <3>1, PagesFact DEF Position, Past
      <4> QED
        BY <3>1, <4>1 DEF Pageful, Of
    <3>4. Pending("record")' = Pending("record") \cup {o}
      BY <2>2, <2>4, <3>1, <3>2 DEF Pending
    <3>5. \A k : UNCHANGED Booked(k)
      BY <3>1, <3>3, <3>4 DEF Booked
    <3>6. IsFiniteSet(failed')
      BY <3>1, FS_AddElement DEF Sums
    <3>7. Pending("record")' \subseteq failed'
      BY <3>1, <3>4 DEF Sums
    <3> QED
      BY <2>4, <3>5, <3>6, <3>7 DEF Sums
  <2>5. CASE Record(g) /\ pc[g] = "record" /\ pc'[g] # "record" /\ UNCHANGED failed
    <3> DEFINE o == Failure(g, reason[g])
    <3>1. reason[g] \in Reasons /\ ctrls[g] \in Drives
      BY <2>5 DEF Position
    <3>2. /\ ErrKeyOf(o) = <<Key(g), reason[g]>> /\ ErrKeyOf(o) \in ErrKeys /\ o.poll = g
      BY <3>1 DEF Failure, Key, Keys, Polls, ErrKeyOf, ErrKeys
    <3>3. errCounts' = [errCounts EXCEPT ![ErrKeyOf(o)] = @ + 1]
      BY <2>5, <3>2 DEF Record, recordError
    <3>4. Pending("record") = Pending("record")' \cup {o} /\ o \in Pending("record")
      BY <2>2, <2>5 DEF Pending
    <3>5. o \notin Pending("record")'
      <4>1. \A h \in Polls : pc'[h] = "record" => h # g
        BY <2>5
      <4>2. \A p \in Pending("record")' : p.poll # g
        BY <4>1 DEF Pending, Failure
      <4> QED
        BY <3>2, <4>2
    <3> HIDE DEF o
    <3>6. o \in failed
      BY <3>4 DEF Sums
    <3>7. ASSUME NEW k \in ErrKeys PROVE errCounts'[k] = Cardinality(Booked(k)')
      <4>0. IsFiniteSet(Booked(k))
        BY FS_Subset DEF Booked, Sums
      <4>1. CASE k = ErrKeyOf(o)
        <5>1. Booked(k)' = Booked(k) \cup {o} /\ o \notin Booked(k)
          BY <2>5, <3>4, <3>5, <3>6, <4>1 DEF Booked
        <5>2. Cardinality(Booked(k)') = Cardinality(Booked(k)) + 1
          BY <4>0, <5>1, FS_AddElement
        <5>3. errCounts'[k] = errCounts[k] + 1
          BY <3>3, <4>1 DEF TypeOK
        <5> QED
          BY <5>2, <5>3 DEF Sums
      <4>2. CASE k # ErrKeyOf(o)
        <5>1. Booked(k)' = Booked(k)
          BY <2>5, <3>4, <4>2 DEF Booked
        <5>2. errCounts'[k] = errCounts[k]
          BY <3>3, <4>2 DEF TypeOK
        <5> QED
          BY <5>1, <5>2 DEF Sums
      <4> QED
        BY <4>1, <4>2
    <3>8. IsFiniteSet(failed') /\ Pending("record")' \subseteq failed'
      BY <2>5, <3>4 DEF Sums
    <3> QED
      BY <3>7, <3>8 DEF Sums
  <2> QED
    BY <1>5, <2>3, <2>4, <2>5, RecordStep
<1>6. CASE UNCHANGED vars
  BY <1>0, <1>6 DEF vars, Pending, Failure, Key
<1> QED
  BY <1>1, <1>2, <1>3, <1>4, <1>5, <1>6 DEF Next, Quiescent

LEMMA InitSums == Init => Sums
<1> SUFFICES ASSUME Init PROVE Sums
  OBVIOUS
<1>1. failed = {} /\ Pending("record") = {} /\ \A k : Booked(k) = {}
  BY DEF Init, Pending, Booked
<1> QED
  BY <1>1, FS_EmptySet DEF Init, Sums

\* The failures with key k of a set of requests.
Among(k, scrapes) == {f \in failed : ErrKeyOf(f) = k /\ f.poll[1] \in scrapes}

LEMMA AmongFinite ==
  ASSUME Sums, NEW k, NEW S
  PROVE  IsFiniteSet(Among(k, S)) /\ Cardinality(Among(k, S)) \in Nat
<1>1. Among(k, S) \subseteq failed
  BY DEF Among
<1> QED
  BY <1>1, FS_Subset, FS_CardinalityType DEF Sums

Covered(s, k) ==
  /\ exposed[s][k] >= Cardinality(Among(k, {s} \cup earlier[s]))
  /\ exposed[s][k] <= Cardinality(Among(k, Scrapes))

Covers == \A s \in Scrapes, k \in ErrKeys : request[s] = "answered" => Covered(s, k)

LEMMA CoversStep ==
  TypeOK /\ Position /\ Phases /\ Pageful /\ Sums /\ Covers /\ [Next]_vars => Covers'
<1> SUFFICES ASSUME TypeOK, Position, Phases, Pageful, Sums, Covers, [Next]_vars
             PROVE  Covers'
  OBVIOUS
<1> USE DEF machine, locals, scrapeState, responses, history
<1>n. \A f \in failed : f.poll \in Polls /\ f.poll[1] \in Scrapes
  BY DEF TypeOK, Failures, Polls
<1>0. ASSUME UNCHANGED <<failed, exposed>>,
             \A s \in Scrapes : request'[s] = "answered" =>
               request[s] = "answered" /\ earlier'[s] = earlier[s]
      PROVE  Covers'
  <2>1. \A k, S : UNCHANGED Among(k, S)
    BY <1>0 DEF Among
  <2>2. \A s \in Scrapes, k \in ErrKeys :
          request'[s] = "answered" => (Covered(s, k) => Covered(s, k)')
    <3> SUFFICES ASSUME NEW s \in Scrapes, NEW k \in ErrKeys, request'[s] = "answered",
                        Covered(s, k)
                 PROVE  Covered(s, k)'
      OBVIOUS
    <3>1. Among(k, {s} \cup earlier[s])' = Among(k, {s} \cup earlier[s])
      BY <1>0 DEF Among
    <3>2. Among(k, Scrapes)' = Among(k, Scrapes)
      BY <1>0 DEF Among
    <3> QED
      BY <1>0, <3>1, <3>2 DEF Covered
  <2> QED
    BY <1>0, <2>2 DEF Covers
<1>1. ASSUME NEW s \in Scrapes, Handle(s) PROVE Covers'
  BY <1>0, <1>1 DEF Handle, TypeOK
<1>2. ASSUME NEW s \in Scrapes, EnumerationFails(s) PROVE Covers'
  BY <1>0, <1>2 DEF EnumerationFails, TypeOK
<1>3. ASSUME NEW s \in Scrapes, Respond(s) PROVE Covers'
  <2>1. /\ exposed'[s] = errCounts /\ UNCHANGED <<failed, earlier>>
        /\ \A t \in Scrapes : t # s => exposed'[t] = exposed[t] /\ request'[t] = request[t]
    BY <1>3 DEF Respond, TypeOK
  <2>2. \A f \in failed : f.poll[1] \in {s} \cup earlier[s] => pc[f.poll] # "record"
    <3>1. \A g \in Polls : g[1] = s => pc[g] \in {"off", "done"}
      BY <1>3, ConstantsAssumption DEF Respond, Waited, PollsOf, Position
    <3>2. \A g \in Polls : g[1] \in earlier[s] => pc[g] \in {"off", "done"}
      BY DEF Phases
    <3> QED
      BY <1>n, <3>1, <3>2
  <2>3. \A f \in failed : f.poll[1] \in {s} \cup earlier[s] => f \notin Pending("record")
    BY <2>2 DEF Pending, Failure
  <2>4. ASSUME NEW k \in ErrKeys PROVE Covered(s, k)'
    <3>1. Among(k, {s} \cup earlier[s]) \subseteq Booked(k)
      BY <2>3 DEF Among, Booked
    <3>2. Booked(k) \subseteq Among(k, Scrapes) /\ Booked(k) \subseteq failed
      BY <1>n DEF Among, Booked
    <3>3. IsFiniteSet(Booked(k)) /\ IsFiniteSet(Among(k, Scrapes))
      BY <3>2, FS_Subset, AmongFinite DEF Sums
    <3>4. /\ Cardinality(Among(k, {s} \cup earlier[s])) <= Cardinality(Booked(k))
          /\ Cardinality(Booked(k)) <= Cardinality(Among(k, Scrapes))
      BY <3>1, <3>2, <3>3, FS_Subset
    <3>5. exposed'[s][k] = Cardinality(Booked(k))
      BY <2>1 DEF Sums
    <3>6. Among(k, {s} \cup earlier[s])' = Among(k, {s} \cup earlier[s])
      BY <2>1 DEF Among
    <3>7. Among(k, Scrapes)' = Among(k, Scrapes)
      BY <2>1 DEF Among
    <3>8. /\ Cardinality(Among(k, {s} \cup earlier[s])) \in Nat
          /\ Cardinality(Among(k, Scrapes)) \in Nat
          /\ Cardinality(Booked(k)) \in Nat
      BY <3>3, AmongFinite, FS_CardinalityType
    <3> QED
      BY <3>4, <3>5, <3>6, <3>7, <3>8 DEF Covered
  <2>5. ASSUME NEW t \in Scrapes, NEW k \in ErrKeys, t # s, request'[t] = "answered"
        PROVE  Covered(t, k)'
    <3>1. Covered(t, k)
      BY <2>1, <2>5 DEF Covers
    <3>2. Among(k, {t} \cup earlier[t])' = Among(k, {t} \cup earlier[t])
      BY <2>1 DEF Among
    <3>3. Among(k, Scrapes)' = Among(k, Scrapes)
      BY <2>1 DEF Among
    <3> QED
      BY <2>1, <2>5, <3>1, <3>2, <3>3 DEF Covered
  <2> QED
    BY <2>4, <2>5 DEF Covers
<1>4. ASSUME NEW n \in Names, NEW d \in Slots, Swap(n, d) PROVE Covers'
  BY <1>0, <1>4 DEF Swap
<1>5. ASSUME NEW g \in Polls, PollStep(g) PROVE Covers'
  <2>1. /\ UNCHANGED <<request, earlier, exposed>> /\ request[g[1]] = "collecting"
        /\ g[1] \in Scrapes
    BY <1>5, StepShape, StepBook DEF Phases, Aside, Polls
  <2>2. CASE UNCHANGED failed
    BY <1>0, <2>1, <2>2
  <2>3. ASSUME NEW r \in Reasons, Breaks(g, r) PROVE Covers'
    <3> SUFFICES ASSUME NEW s \in Scrapes, NEW k \in ErrKeys, request[s] = "answered"
                 PROVE  Covered(s, k)'
      BY <2>1 DEF Covers
    <3>1. failed' = failed \cup {Failure(g, r)} /\ Failure(g, r).poll = g
      BY <2>3 DEF Breaks, Failure
    <3>2. Covered(s, k)
      BY DEF Covers
    <3>3. g[1] \notin {s} \cup earlier[s]
      BY <2>1 DEF Phases
    <3> DEFINE o == Failure(g, r)
    <3> HIDE DEF o
    <3>4. failed' = failed \cup {o} /\ o.poll[1] \notin {s} \cup earlier[s]
      BY <3>1, <3>3 DEF o
    <3>5. Among(k, {s} \cup earlier[s])' = Among(k, {s} \cup earlier[s])
      BY <2>1, <3>4 DEF Among
    <3>6. Among(k, Scrapes) \subseteq Among(k, Scrapes)'
      BY <3>4 DEF Among
    <3>7. Sums'
      BY <1>5, SumsStep DEF Next
    <3>8. /\ IsFiniteSet(Among(k, Scrapes)') /\ Cardinality(Among(k, Scrapes)') \in Nat
      <4>1. Among(k, Scrapes)' \subseteq failed'
        BY DEF Among
      <4> QED
        BY <3>7, <4>1, FS_Subset, FS_CardinalityType DEF Sums
    <3>9. Cardinality(Among(k, Scrapes)) <= Cardinality(Among(k, Scrapes)')
      BY <3>6, <3>8, FS_Subset
    <3>10. /\ exposed[s][k] \in Nat /\ Cardinality(Among(k, Scrapes)) \in Nat
      BY AmongFinite DEF TypeOK
    <3> QED
      BY <2>1, <3>2, <3>5, <3>8, <3>9, <3>10 DEF Covered
  <2> QED
    BY <1>5, <2>2, <2>3, RecordStep
<1>6. CASE UNCHANGED vars
  BY <1>0, <1>6 DEF vars
<1> QED
  BY <1>1, <1>2, <1>3, <1>4, <1>5, <1>6 DEF Next, Quiescent

\* An answer counts every failure of its own polls and of the requests answered
\* before it arrived, and never more than there were, however many goroutines
\* count at the same time and whichever drives change places.
THEOREM AnswersCoverFailures == Spec => []ExposedCoversFailures
<1>1. Init => Covers
  BY DEF Init, Covers
<1>2. Spec => [](TypeOK /\ Position /\ Phases /\ Pageful /\ Sums /\ Covers)
  BY <1>1, InitPosition, NextPosition, InitRemembered, PhasesStep, InitPageful,
     PagefulStep, InitSums, SumsStep, CoversStep, PTL DEF Spec
<1>3. Covers => ExposedCoversFailures
  BY DEF Covers, Covered, Among, ExposedCoversFailures
<1> QED
  BY <1>2, <1>3, PTL

-----------------------------------------------------------------------------
(* The log.                                                                *)

\* The failures with key k whose line is written or owed, and the clean polls
\* of a controller.
Claimed(k) == {f \in lines \cup Pending("log") : ErrKeyOf(f) = k}
CleanOf(d) == {g \in Polls : Clean(g) /\ Key(g) = d}

\* What one step does to the lines, to the marks of logged failures and to the
\* set of clean polls.
Quietly ==
  /\ UNCHANGED <<logged, errCounts>>
  /\ UNCHANGED (lines \cup Pending("log"))
  /\ \A g \in Polls : Clean(g)' <=> Clean(g)

Cleans(g) ==
  /\ logged' = {k \in logged : k[1] # Key(g)}
  /\ UNCHANGED errCounts
  /\ UNCHANGED (lines \cup Pending("log"))
  /\ ~Clean(g) /\ Clean(g)'
  /\ \A h \in Polls : h # g => (Clean(h)' <=> Clean(h))

\* Counted once, marked, and a line claimed unless the mark was there.
Claims(g, o) ==
  /\ o \in Failures /\ o.poll = g /\ ErrKeyOf(o) \in ErrKeys
  /\ o.key = Key(g)
  /\ pc[g] = "record"
  /\ errCounts' = [errCounts EXCEPT ![ErrKeyOf(o)] = @ + 1]
  /\ logged' = logged \cup {ErrKeyOf(o)}
  /\ Pending("record") = Pending("record")' \cup {o}
  /\ (lines \cup Pending("log"))' =
       IF ErrKeyOf(o) \in logged THEN lines \cup Pending("log")
       ELSE (lines \cup Pending("log")) \cup {o}
  /\ \A h \in Polls : Clean(h)' <=> Clean(h)

\* A poll that goes to "clear" has not failed.
Clears == \A g \in Polls : pc[g] = "clear" => ok[g]

LEMMA StepLog ==
  ASSUME TypeOK, Position, Clears, NEW g \in Polls, PollStep(g)
  PROVE  /\ Clears'
         /\ UNCHANGED <<ctrls, earlier, request>>
         /\ Quietly \/ Cleans(g) \/ \E o : Claims(g, o)
<1> USE DEF machine, locals, scrapeState, responses, history
<1>1. /\ UNCHANGED <<ctrls, earlier, request>> /\ Moved(g)
      /\ pc[g] \notin {"off", "done"} /\ pc'[g] # "off"
  BY StepShape, StepBook
<1>2. \A h \in Polls : h # g => pc'[h] = pc[h] /\ (ok'[h] <=> ok[h])
  <2>1. UNCHANGED ok \/ \E r : ok' = [ok EXCEPT ![g] = FALSE]
    BY StepAccount DEF Stays, Passes, Finishes, Breaks
  <2> QED
    BY <1>1, <2>1 DEF Moved, TypeOK
<1>3. \A h \in Polls : h # g =>
        (Clean(h)' <=> Clean(h)) /\ Failure(h, reason[h])' = Failure(h, reason[h])
  BY <1>1, <1>2 DEF Moved, Clean, Failure, Key
<1>4. CASE pc[g] \in {"clear", "finish"}
  <2>1. CASE pc[g] = "clear"
    <3>1. Clear(g)
      BY <2>1 DEF PollStep, Acquire, EnumerateNamespaces, ReadIdentify, Remember,
         Check, Size, Read, Mark, Record, Log, Finish
    <3>2. /\ UNCHANGED <<errCounts, lines, ok>> /\ pc'[g] = "finish"
          /\ logged' = {k \in logged : k[1] # Key(g)}
      BY <2>1, <3>1 DEF Clear, clearLogged, Goto, TypeOK
    <3>3. UNCHANGED Pending("log")
      BY <1>1, <2>1, <3>2, PendingOfOne
    <3>4. ok[g]
      BY <2>1 DEF Clears
    <3>5. ~Clean(g) /\ Clean(g)'
      BY <2>1, <3>2, <3>4 DEF Clean
    <3>6. Clears'
      BY <1>2, <3>2 DEF Clears
    <3> QED
      BY <1>1, <1>3, <3>2, <3>3, <3>5, <3>6 DEF Cleans
  <2>2. CASE pc[g] = "finish"
    <3>1. Finish(g)
      BY <2>2 DEF PollStep, Acquire, EnumerateNamespaces, ReadIdentify, Remember,
         Check, Size, Read, Mark, Record, Log, Clear
    <3>2. UNCHANGED <<errCounts, logged, lines, ok>> /\ pc'[g] = "done"
      BY <3>1 DEF Finish, Goto, TypeOK
    <3>3. UNCHANGED Pending("log")
      BY <1>1, <2>2, <3>2, PendingOfOne
    <3>4. Clean(g)' <=> Clean(g)
      BY <2>2, <3>2 DEF Clean
    <3>5. \A h \in Polls : Clean(h)' <=> Clean(h)
      BY <1>3, <3>4
    <3>6. Clears'
      BY <1>2, <3>2 DEF Clears
    <3> QED
      BY <1>1, <3>2, <3>3, <3>5, <3>6 DEF Quietly
  <2> QED
    BY <1>4, <2>1, <2>2
<1>5. CASE pc[g] \notin {"clear", "finish"}
  <2>1. /\ pc'[g] = "clear" => ok'[g]
        /\ ~Clean(g) /\ ~Clean(g)'
    <3>1. CASE Stays(g)
      BY <1>5, <3>1 DEF Stays, Clean
    <3>2. CASE Passes(g)
      BY <1>1, <1>5, <3>2 DEF Passes, Clean
    <3>3. CASE Finishes(g)
      BY <1>5, <3>3 DEF Finishes
    <3>4. ASSUME NEW r \in Reasons, Breaks(g, r)
          PROVE  (pc'[g] = "clear" => ok'[g]) /\ ~Clean(g) /\ ~Clean(g)'
      BY <1>1, <1>5, <3>4 DEF Breaks, Clean
    <3> QED
      BY <3>1, <3>2, <3>3, <3>4, StepAccount
  <2>2. \A h \in Polls : Clean(h)' <=> Clean(h)
    BY <1>3, <2>1
  <2>3. Clears'
    BY <1>2, <2>1 DEF Clears
  <2>4. CASE Aside(g)
    <3>1. UNCHANGED Pending("log")
      BY <1>1, <2>4, PendingOfOne DEF Aside
    <3> QED
      BY <1>1, <2>2, <2>3, <2>4, <3>1 DEF Aside, Quietly
  <2>5. CASE Log(g) /\ UNCHANGED <<errCounts, logged>>
    <3>1. pc[g] = "log" /\ lines' = lines \cup {Failure(g, reason[g])} /\ pc'[g] # "log"
      BY <2>5 DEF Log, Advance, Goto, TypeOK
    <3>2. /\ Pending("log") = Pending("log")' \cup {Failure(g, reason[g])}
          /\ Failure(g, reason[g]) \in Pending("log")
      BY <1>1, <3>1, PendingOfOne
    <3>3. UNCHANGED (lines \cup Pending("log"))
      BY <3>1, <3>2
    <3> QED
      BY <1>1, <2>2, <2>3, <2>5, <3>3 DEF Quietly
  <2>6. CASE Record(g) /\ UNCHANGED lines
    <3> DEFINE o == Failure(g, reason[g])
    <3>1. /\ pc[g] = "record" /\ reason[g] \in Reasons
          /\ stage[g] \in 0..Len(PageOrder) /\ ctrls[g] \in Drives
      BY <2>6 DEF Record, Position
    <3>2. /\ o \in Failures /\ ErrKeyOf(o) = <<Key(g), reason[g]>> /\ o.poll = g
          /\ ErrKeyOf(o) \in ErrKeys /\ o.key = Key(g)
      BY <3>1 DEF Failure, Failures, Key, Keys, Polls, ErrKeyOf, ErrKeys
    <3>3. /\ errCounts' = [errCounts EXCEPT ![ErrKeyOf(o)] = @ + 1]
          /\ logged' = logged \cup {ErrKeyOf(o)}
      BY <2>6, <3>2 DEF Record, recordError
    <3>4. (lines \cup Pending("log"))' =
            IF ErrKeyOf(o) \in logged THEN lines \cup Pending("log")
            ELSE (lines \cup Pending("log")) \cup {o}
      <4>1. CASE ErrKeyOf(o) \in logged
        <5>1. pc'[g] # "log"
          BY <2>6, <3>2, <4>1 DEF Record, Advance, Goto, TypeOK
        <5>2. UNCHANGED Pending("log")
          BY <1>1, <3>1, <5>1, PendingOfOne
        <5> QED
          BY <2>6, <4>1, <5>2
      <4>2. CASE ErrKeyOf(o) \notin logged
        <5>1. pc'[g] = "log" /\ UNCHANGED <<stage, reason>>
          BY <2>6, <3>2, <4>2 DEF Record, Goto, TypeOK
        <5>2. Pending("log")' = Pending("log") \cup {o}
          BY <1>1, <3>1, <5>1, PendingOfOne
        <5> QED
          BY <2>6, <4>2, <5>2
      <4> QED
        BY <4>1, <4>2
    <3>5. Pending("record") = Pending("record")' \cup {o}
      <4>1. pc'[g] # "record"
        BY <2>6, RecordStep, <3>1
      <4> QED
        BY <1>1, <1>3, <3>1, <4>1 DEF Pending, Moved
    <3> HIDE DEF o
    <3>6. Claims(g, o)
      BY <2>2, <3>1, <3>2, <3>3, <3>4, <3>5 DEF Claims
    <3> QED
      BY <1>1, <2>3, <3>6
  <2>7. ~Clear(g)
    BY <1>5 DEF Clear
  <2> QED
    BY <2>4, <2>5, <2>6, <2>7, StepBook
<1> QED
  BY <1>4, <1>5

LEMMA QuietElsewhere ==
  ASSUME TypeOK, Position, [Next]_vars, \A g \in Polls : ~PollStep(g)
  PROVE  /\ Quietly /\ UNCHANGED failed
         /\ Clears => Clears'
         /\ \A g \in Polls : pc[g] # "off" => ctrls'[g] = ctrls[g] /\ earlier'[g[1]] = earlier[g[1]]
         /\ UNCHANGED Pending("record")
<1> USE DEF machine, locals, scrapeState, responses, history
<1>0. ASSUME UNCHANGED <<logged, errCounts, lines, pc, stage, reason, ok, ctrls, failed, earlier>>
      PROVE  /\ Quietly /\ UNCHANGED failed
             /\ Clears => Clears'
             /\ \A g \in Polls : pc[g] # "off" =>
                  ctrls'[g] = ctrls[g] /\ earlier'[g[1]] = earlier[g[1]]
             /\ UNCHANGED Pending("record")
  <2>1. UNCHANGED <<Pending("log"), Pending("record")>>
    BY <1>0 DEF Pending, Failure, Key
  <2>2. \A g \in Polls : Clean(g)' <=> Clean(g)
    BY <1>0 DEF Clean
  <2>3. Clears => Clears'
    BY <1>0 DEF Clears
  <2> QED
    BY <1>0, <2>1, <2>2, <2>3 DEF Quietly
<1>1. ASSUME NEW s \in Scrapes, Handle(s)
      PROVE  /\ Quietly /\ UNCHANGED failed
             /\ Clears => Clears'
             /\ \A g \in Polls : pc[g] # "off" =>
                  ctrls'[g] = ctrls[g] /\ earlier'[g[1]] = earlier[g[1]]
             /\ UNCHANGED Pending("record")
  <2>1. \A g \in Polls : g[1] = s => pc[g] = "off" /\ pc'[g] \in {"off", "waiting"}
    BY <1>1 DEF Handle, Position
  <2>2. \A g \in Polls : g[1] # s =>
          /\ pc'[g] = pc[g] /\ Failure(g, reason[g])' = Failure(g, reason[g])
          /\ ctrls'[g] = ctrls[g] /\ earlier'[g[1]] = earlier[g[1]]
    BY <1>1 DEF Handle, Failure, Key, TypeOK, Polls
  <2>3. UNCHANGED <<Pending("log"), Pending("record")>>
    BY <2>1, <2>2 DEF Pending
  <2>4. UNCHANGED <<ok, failed, lines, logged, errCounts>>
    BY <1>1 DEF Handle
  <2>5. \A g \in Polls : (Clean(g)' <=> Clean(g)) /\ (pc'[g] = "clear" => pc[g] = "clear")
    BY <2>1, <2>2, <2>4 DEF Clean
  <2>6. Clears => Clears'
    BY <2>4, <2>5 DEF Clears
  <2> QED
    BY <2>1, <2>2, <2>3, <2>4, <2>5, <2>6 DEF Quietly
<1>2. ASSUME NEW s \in Scrapes, EnumerationFails(s) \/ Respond(s)
      PROVE  UNCHANGED <<logged, errCounts, lines, pc, stage, reason, ok, ctrls, failed, earlier>>
  BY <1>2 DEF EnumerationFails, Respond
<1>3. ASSUME NEW n \in Names, NEW d \in Slots, Swap(n, d)
      PROVE  UNCHANGED <<logged, errCounts, lines, pc, stage, reason, ok, ctrls, failed, earlier>>
  BY <1>3 DEF Swap
<1>4. CASE UNCHANGED vars
  BY <1>0, <1>4 DEF vars
<1> QED
  BY <1>0, <1>1, <1>2, <1>3, <1>4 DEF Next, Quiescent

\* Lines of a key alternate with clean polls of its controller, but for the line
\* of the mark that stands now.
Budget ==
  /\ IsFiniteSet(lines \cup Pending("log"))
  /\ \A d : IsFiniteSet(CleanOf(d))
  /\ \A k \in ErrKeys : Cardinality(Claimed(k))
       <= Cardinality(CleanOf(k[1])) + (IF k \in logged THEN 1 ELSE 0)
  /\ \A k \in ErrKeys : k \in logged \/ errCounts[k] > 0 => Claimed(k) # {}

LEMMA BudgetFinite ==
  ASSUME Budget, NEW k, NEW d
  PROVE  /\ IsFiniteSet(Claimed(k)) /\ Cardinality(Claimed(k)) \in Nat
         /\ IsFiniteSet(CleanOf(d)) /\ Cardinality(CleanOf(d)) \in Nat
<1>1. Claimed(k) \subseteq lines \cup Pending("log")
  BY DEF Claimed
<1> QED
  BY <1>1, FS_Subset, FS_CardinalityType DEF Budget

LEMMA BudgetStep ==
  TypeOK /\ Position /\ Clears /\ Budget /\ [Next]_vars => Clears' /\ Budget'
<1> SUFFICES ASSUME TypeOK, Position, Clears, Budget, [Next]_vars
             PROVE  Clears' /\ Budget'
  OBVIOUS
<1>k. \A g \in Polls : Clean(g) => pc[g] # "off"
  BY DEF Clean
<1>1. ASSUME Quietly, \A g \in Polls : pc[g] # "off" => ctrls'[g] = ctrls[g]
      PROVE  Budget'
  <2>1. \A d : CleanOf(d)' = CleanOf(d)
    BY <1>1, <1>k DEF Quietly, CleanOf, Key
  <2>2. \A k : Claimed(k)' = Claimed(k)
    BY <1>1 DEF Quietly, Claimed
  <2> QED
    BY <1>1, <2>1, <2>2 DEF Quietly, Budget
<1>2. ASSUME NEW g \in Polls, UNCHANGED ctrls, Cleans(g) PROVE Budget'
  <2>1. \A k : Claimed(k)' = Claimed(k)
    BY <1>2 DEF Cleans, Claimed
  <2>2. \A d : CleanOf(d)' = IF d = Key(g) THEN CleanOf(d) \cup {g} ELSE CleanOf(d)
    BY <1>2 DEF Cleans, CleanOf, Key
  <2>3. \A d : g \notin CleanOf(d)
    BY <1>2 DEF Cleans, CleanOf
  <2>4. \A d : IsFiniteSet(CleanOf(d)')
    BY <2>2, FS_AddElement DEF Budget
  <2>5. ASSUME NEW k \in ErrKeys
        PROVE  Cardinality(Claimed(k)') <=
                 Cardinality(CleanOf(k[1])') + (IF k \in logged' THEN 1 ELSE 0)
    <3>1. /\ Cardinality(Claimed(k)) \in Nat /\ Cardinality(CleanOf(k[1])) \in Nat
          /\ IsFiniteSet(CleanOf(k[1]))
      BY BudgetFinite
    <3>2. CASE k[1] = Key(g)
      <4>1. Cardinality(CleanOf(k[1])') = Cardinality(CleanOf(k[1])) + 1
        BY <2>2, <2>3, <3>1, <3>2, FS_AddElement
      <4>2. k \notin logged'
        BY <1>2, <3>2 DEF Cleans
      <4> QED
        BY <2>1, <3>1, <4>1, <4>2 DEF Budget
    <3>3. CASE k[1] # Key(g)
      <4>1. k \in logged' <=> k \in logged
        BY <1>2, <3>3 DEF Cleans
      <4> QED
        BY <2>1, <2>2, <3>3, <4>1 DEF Budget
    <3> QED
      BY <3>2, <3>3
  <2> QED
    BY <1>2, <2>1, <2>4, <2>5 DEF Cleans, Budget
<1>3. ASSUME NEW g \in Polls, UNCHANGED ctrls, NEW o, Claims(g, o) PROVE Budget'
  <2>1. \A d : CleanOf(d)' = CleanOf(d)
    BY <1>3 DEF Claims, CleanOf, Key
  <2>2. \A k : Claimed(k)' = IF k = ErrKeyOf(o) /\ k \notin logged
                             THEN Claimed(k) \cup {o} ELSE Claimed(k)
    BY <1>3 DEF Claims, Claimed
  <2>3. IsFiniteSet((lines \cup Pending("log"))')
    BY <1>3, FS_AddElement DEF Claims, Budget
  <2>4. ASSUME NEW k \in ErrKeys
        PROVE  Cardinality(Claimed(k)') <=
                 Cardinality(CleanOf(k[1])') + (IF k \in logged' THEN 1 ELSE 0)
    <3>1. /\ Cardinality(Claimed(k)) \in Nat /\ Cardinality(CleanOf(k[1])) \in Nat
          /\ IsFiniteSet(Claimed(k))
      BY BudgetFinite
    <3>2. Cardinality(Claimed(k))
            <= Cardinality(CleanOf(k[1])) + (IF k \in logged THEN 1 ELSE 0)
      BY DEF Budget
    <3>3. CASE k = ErrKeyOf(o) /\ k \notin logged
      <4>1. Cardinality(Claimed(k)') <= Cardinality(Claimed(k)) + 1
        <5>1. Claimed(k)' = Claimed(k) \cup {o}
          BY <2>2, <3>3
        <5>2. Cardinality(Claimed(k) \cup {o}) \in {Cardinality(Claimed(k)), Cardinality(Claimed(k)) + 1}
          BY <3>1, FS_AddElement
        <5> QED
          BY <3>1, <5>1, <5>2
      <4>2. k \in logged' /\ Cardinality(Claimed(k)') \in Nat
        BY <1>3, <2>2, <3>1, <3>3, FS_AddElement, FS_CardinalityType DEF Claims
      <4> QED
        BY <2>1, <3>1, <3>2, <3>3, <4>1, <4>2
    <3>4. CASE k = ErrKeyOf(o) /\ k \in logged
      <4>1. k \in logged' /\ Claimed(k)' = Claimed(k)
        BY <1>3, <2>2, <3>4 DEF Claims
      <4> QED
        BY <2>1, <3>2, <3>4, <4>1
    <3>5. CASE k # ErrKeyOf(o)
      <4>1. (k \in logged' <=> k \in logged) /\ Claimed(k)' = Claimed(k)
        BY <1>3, <2>2, <3>5 DEF Claims
      <4> QED
        BY <2>1, <3>2, <4>1
    <3> QED
      BY <3>3, <3>4, <3>5
  <2>5. ASSUME NEW k \in ErrKeys, k \in logged' \/ errCounts'[k] > 0
        PROVE  Claimed(k)' # {}
    <3>1. CASE k = ErrKeyOf(o)
      BY <2>2, <3>1 DEF Budget
    <3>2. CASE k # ErrKeyOf(o)
      <4>1. k \in logged \/ errCounts[k] > 0
        BY <1>3, <2>5, <3>2 DEF Claims, TypeOK
      <4> QED
        BY <2>2, <3>2, <4>1 DEF Budget
    <3> QED
      BY <3>1, <3>2
  <2>6. \A d : IsFiniteSet(CleanOf(d)')
    BY <2>1 DEF Budget
  <2> QED
    BY <2>3, <2>4, <2>5, <2>6 DEF Budget
<1>4. ASSUME NEW g \in Polls, PollStep(g) PROVE Clears' /\ Budget'
  BY <1>1, <1>2, <1>3, <1>4, StepLog
<1> QED
  BY <1>1, <1>4, QuietElsewhere

LEMMA ClearsStep == TypeOK /\ Position /\ Clears /\ [Next]_vars => Clears'
BY StepLog, QuietElsewhere

LEMMA InitBudget == Init => Clears /\ Budget
<1> SUFFICES ASSUME Init PROVE Clears /\ Budget
  OBVIOUS
<1>1. /\ lines = {} /\ Pending("log") = {} /\ logged = {}
      /\ \A k : Claimed(k) = {} /\ \A d : CleanOf(d) = {}
      /\ \A g \in Polls : pc[g] = "off"
      /\ \A k \in ErrKeys : errCounts[k] = 0
  BY DEF Init, Pending, Claimed, CleanOf, Clean
<1> QED
  BY <1>1, FS_EmptySet DEF Clears, Budget

\* A failing controller is logged once per reason, and once more after each
\* clean poll of it; a failure that is counted has been logged, or is about to
\* be.  One section of the mutex decides both, so this holds however many
\* requests poll the controller at the same time.
THEOREM LogIsBounded == Spec => []LogBudget
<1>1. Spec => [](TypeOK /\ Position /\ Clears /\ Budget)
  BY InitPosition, NextPosition, InitBudget, BudgetStep, PTL DEF Spec
<1>2. Budget => LogBudget
  <2> SUFFICES ASSUME Budget, NEW k \in ErrKeys
               PROVE  /\ Cardinality(Claimed(k)) <= 1 + Cardinality(CleanOf(k[1]))
                      /\ errCounts[k] > 0 => Claimed(k) # {}
    BY DEF LogBudget, Claimed, CleanOf
  <2>1. Cardinality(Claimed(k)) \in Nat /\ Cardinality(CleanOf(k[1])) \in Nat
    BY BudgetFinite
  <2> QED
    BY <2>1 DEF Budget
<1> QED
  BY <1>1, <1>2, PTL

\* Whoever was polled clean before a mark was set finds a line of a request that
\* came after that poll.
Recurs ==
  /\ \A k \in logged, g \in Polls : Clean(g) /\ Key(g) = k[1] =>
       \E l \in Claimed(k) : l.poll[1] \notin {g[1]} \cup earlier[g[1]]
  /\ RecurrenceIsLogged

LEMMA RecursStep ==
  TypeOK /\ Position /\ Phases /\ Clears /\ Tally /\ Recurs /\ [Next]_vars => Recurs'
<1> SUFFICES ASSUME TypeOK, Position, Phases, Clears, Tally, Recurs, [Next]_vars
             PROVE  Recurs'
  OBVIOUS
<1>k. \A g \in Polls : Clean(g) => pc[g] # "off"
  BY DEF Clean
<1>n. \A f \in failed : f.poll \in Polls /\ pc[f.poll] # "off" /\ ErrKeyOf(f)[1] = f.key
  BY DEF TypeOK, Failures, Tally, ErrKeyOf
<1>q. RecurrenceIsLogged <=>
        \A f \in failed \ Pending("record"), g \in Polls :
          Clean(g) /\ Key(g) = f.key /\ g[1] \in earlier[f.poll[1]] =>
            \E l \in Claimed(ErrKeyOf(f)) : l.poll[1] \notin {g[1]} \cup earlier[g[1]]
  BY DEF RecurrenceIsLogged, Claimed
<1>r. RecurrenceIsLogged' <=>
        \A f \in failed' \ Pending("record")', g \in Polls :
          Clean(g)' /\ Key(g)' = f.key /\ g[1] \in earlier'[f.poll[1]] =>
            \E l \in Claimed(ErrKeyOf(f))' : l.poll[1] \notin {g[1]} \cup earlier'[g[1]]
  BY DEF RecurrenceIsLogged, Claimed
<1>1. ASSUME Quietly, failed' \ Pending("record")' \subseteq failed \ Pending("record"),
             \A g \in Polls : pc[g] # "off" =>
               ctrls'[g] = ctrls[g] /\ earlier'[g[1]] = earlier[g[1]]
      PROVE  Recurs'
  <2>1. \A k : Claimed(k)' = Claimed(k)
    BY <1>1 DEF Quietly, Claimed
  <2>2. \A g \in Polls : Clean(g)' =>
          Clean(g) /\ Key(g)' = Key(g) /\ earlier'[g[1]] = earlier[g[1]]
    BY <1>1, <1>k DEF Quietly, Key
  <2>3. \A f \in failed' \ Pending("record")' :
          f \in failed \ Pending("record") /\ earlier'[f.poll[1]] = earlier[f.poll[1]]
    BY <1>1, <1>n
  <2>4. RecurrenceIsLogged'
    BY <1>q, <1>r, <2>1, <2>2, <2>3 DEF Recurs
  <2> QED
    BY <1>1, <2>1, <2>2, <2>4 DEF Quietly, Recurs
<1>2. ASSUME NEW g \in Polls, PollStep(g) PROVE Recurs'
  <2>1. UNCHANGED <<ctrls, earlier, request>> /\ request[g[1]] = "collecting"
    BY <1>2, StepLog, StepShape DEF Phases
  <2>2. \A s \in Scrapes : g[1] \notin earlier[s]
    BY <2>1 DEF Phases
  <2>3. CASE Quietly
    <3>1. failed' \ Pending("record")' \subseteq failed \ Pending("record")
      <4>1. CASE UNCHANGED failed /\ ~Record(g)
        <5>1. pc[g] # "record"
          BY <1>2, <4>1, RecordStep
        <5>2. pc'[g] # "record" \/ \E r \in Reasons : Breaks(g, r)
          BY <1>2, <4>1, RecordStep
        <5>3. \A h \in Polls : h # g =>
                pc'[h] = pc[h] /\ Failure(h, reason[h])' = Failure(h, reason[h])
          BY <1>2, RecordStep DEF Moved, Failure, Key
        <5>4. Pending("record") \subseteq Pending("record")'
          BY <5>1, <5>3 DEF Pending
        <5> QED
          BY <4>1, <5>4
      <4>2. CASE Record(g)
        <5>1. errCounts' # errCounts
          <6>1. <<Key(g), reason[g]>> \in ErrKeys
            BY <4>2 DEF Record, Position, ErrKeys, Key, Keys, Polls
          <6> QED
            BY <4>2, <6>1 DEF Record, recordError, TypeOK
        <5> QED
          BY <2>3, <5>1 DEF Quietly
      <4>3. ASSUME NEW r \in Reasons, Breaks(g, r), pc[g] # "record"
            PROVE  failed' \ Pending("record")' \subseteq failed \ Pending("record")
        <5>1. /\ failed' = failed \cup {Failure(g, r)} /\ pc'[g] = "record"
              /\ Failure(g, reason[g])' = Failure(g, r)
          BY <2>1, <4>3 DEF Breaks, Failure, Key, TypeOK
        <5>2. \A h \in Polls : h # g =>
                pc'[h] = pc[h] /\ Failure(h, reason[h])' = Failure(h, reason[h])
          BY <1>2, RecordStep DEF Moved, Failure, Key
        <5>3. /\ Pending("record") \subseteq Pending("record")'
              /\ Failure(g, r) \in Pending("record")'
          BY <4>3, <5>1, <5>2 DEF Pending
        <5> QED
          BY <5>1, <5>3
      <4> QED
        BY <1>2, <4>1, <4>2, <4>3, RecordStep
    <3> QED
      BY <1>1, <2>1, <2>3, <3>1
  <2>4. CASE Cleans(g)
    <3>1. \A k : Claimed(k)' = Claimed(k)
      BY <2>4 DEF Cleans, Claimed
    <3>2. /\ \A h \in Polls : h # g => (Clean(h)' <=> Clean(h))
          /\ \A h \in Polls : Key(h)' = Key(h)
      BY <2>1, <2>4 DEF Cleans, Key
    <3>3. failed' \ Pending("record")' \subseteq failed \ Pending("record")
      <4>1. UNCHANGED errCounts /\ Clean(g)' /\ ~Clean(g)
        BY <2>4 DEF Cleans
      <4>2. pc'[g] # "record" /\ ~(\E r \in Reasons : Breaks(g, r))
        BY <4>1 DEF Clean, Breaks
      <4>3. pc[g] # "record" /\ UNCHANGED failed
        <5>1. ~Record(g)
          <6>1. Record(g) => pc'[g] \in {"log", "check", "clear", "finish"} /\ (pc'[g] = "finish" => ~ok[g]) /\ UNCHANGED ok
            BY DEF Record, Advance, Goto, TypeOK
          <6> QED
            BY <4>1, <6>1 DEF Clean
        <5> QED
          BY <1>2, <4>2, <5>1, RecordStep
      <4>4. \A h \in Polls : h # g =>
              pc'[h] = pc[h] /\ Failure(h, reason[h])' = Failure(h, reason[h])
        BY <1>2, RecordStep DEF Moved, Failure, Key
      <4>5. Pending("record")' = Pending("record")
        BY <4>2, <4>3, <4>4 DEF Pending
      <4> QED
        BY <4>3, <4>5
    <3>4. \A k \in logged', h \in Polls : Clean(h)' /\ Key(h)' = k[1] =>
            \E l \in Claimed(k)' : l.poll[1] \notin {h[1]} \cup earlier'[h[1]]
      BY <2>1, <2>4, <3>1, <3>2 DEF Cleans, Recurs
    <3>5. \A f \in failed : f.poll[1] \in Scrapes
      BY <1>n DEF Polls
    <3>6. RecurrenceIsLogged'
      BY <1>q, <1>r, <2>1, <2>2, <3>1, <3>2, <3>3, <3>5 DEF Recurs
    <3> QED
      BY <3>4, <3>6 DEF Recurs
  <2>5. ASSUME NEW o, Claims(g, o) PROVE Recurs'
    <3>1. /\ \A k : Claimed(k) \subseteq Claimed(k)'
          /\ ErrKeyOf(o) \notin logged => o \in Claimed(ErrKeyOf(o))'
          /\ logged' = logged \cup {ErrKeyOf(o)}
      BY <2>5 DEF Claims, Claimed
    <3>2. \A h \in Polls : (Clean(h)' <=> Clean(h)) /\ Key(h)' = Key(h)
      BY <2>1, <2>5 DEF Claims, Key
    <3>3. \A h \in Polls : Clean(h) /\ Key(h) = Key(g) =>
            g[1] \notin {h[1]} \cup earlier[h[1]]
      <4> SUFFICES ASSUME NEW h \in Polls, Clean(h), Key(h) = Key(g), g[1] = h[1]
                   PROVE  FALSE
        BY <2>2 DEF Polls
      <4>1. h[2] = g[2]
        BY DEF Key
      <4>2. h = g
        BY <4>1 DEF Polls
      <4> QED
        BY <2>5, <4>2 DEF Claims, Clean
    <3>4. ASSUME NEW k \in logged', NEW h \in Polls, Clean(h)', Key(h)' = k[1]
          PROVE  \E l \in Claimed(k)' : l.poll[1] \notin {h[1]} \cup earlier'[h[1]]
      <4>1. CASE k \in logged
        BY <2>1, <3>1, <3>2, <3>4, <4>1 DEF Recurs
      <4>2. CASE k \notin logged
        <5>1. k = ErrKeyOf(o) /\ o \in Claimed(k)' /\ k[1] = Key(g) /\ o.poll = g
          BY <2>5, <3>1, <4>2 DEF Claims, ErrKeyOf
        <5>2. o.poll[1] \notin {h[1]} \cup earlier'[h[1]]
          BY <2>1, <3>2, <3>3, <3>4, <5>1
        <5> QED
          BY <5>1, <5>2
      <4> QED
        BY <4>1, <4>2
    <3>5. UNCHANGED failed /\ Pending("record") = Pending("record")' \cup {o}
      <4>1. pc[g] = "record"
        BY <2>5 DEF Claims
      <4> QED
        BY <1>2, <2>5, <4>1, RecordStep DEF Claims
    <3>6. ASSUME NEW f \in failed' \ Pending("record")', NEW h \in Polls,
                 Clean(h)', Key(h)' = f.key, h[1] \in earlier'[f.poll[1]]
          PROVE  \E l \in Claimed(ErrKeyOf(f))' :
                   l.poll[1] \notin {h[1]} \cup earlier'[h[1]]
      <4>1. CASE f = o
        <5>1. ErrKeyOf(f) \in logged' /\ ErrKeyOf(f)[1] = f.key
          BY <3>1, <4>1 DEF ErrKeyOf
        <5> QED
          BY <3>4, <3>6, <5>1
      <4>2. CASE f # o
        <5>1. f \in failed \ Pending("record")
          BY <3>5, <3>6, <4>2
        <5> QED
          BY <1>q, <2>1, <3>1, <3>2, <3>6, <5>1 DEF Recurs
      <4> QED
        BY <4>1, <4>2
    <3>7. RecurrenceIsLogged'
      BY <1>r, <3>6
    <3> QED
      BY <3>4, <3>7 DEF Recurs
  <2> QED
    BY <1>2, <2>3, <2>4, <2>5, StepLog
<1> QED
  BY <1>1, <1>2, QuietElsewhere

LEMMA InitRecurs == Init => Recurs
BY DEF Init, Recurs, RecurrenceIsLogged

\* A failure that recurs after a clean poll is logged again, by the poll that
\* meets it or by one that met it since: a clean poll takes away every mark of
\* its controller, and a mark that was set again was set with a line.
THEOREM RecurrencesAreLogged == Spec => []RecurrenceIsLogged
<1>1. Spec => [](TypeOK /\ Position /\ Phases /\ Clears /\ Tally /\ Recurs)
  BY InitPosition, NextPosition, InitRemembered, PhasesStep, InitBudget, BudgetStep,
     InitTally, TallyStep, InitRecurs, RecursStep, ClearsStep, PTL DEF Spec
<1>2. Recurs => RecurrenceIsLogged
  BY DEF Recurs
<1> QED
  BY <1>1, <1>2, PTL

-----------------------------------------------------------------------------
(* The length of the error log.                                            *)

\* The poll is past Identify.
Identified(g) == stage[g] > 0 \/ pc[g] \in {"record", "log", "clear", "finish", "done"}

\* The lengths of a slot are its drive's when none is exchanged under a request,
\* and a poll that is past Identify got one or knows why not.
Lengths ==
  ~MidScrapeSwaps =>
    /\ disturbed = {}
    /\ \A k \in Keys : errorLogEntries[k] \in {0, ELPE[k[2]] + 1}
    /\ \A g \in Polls : pc[g] = "remember" => entries[g] = ELPE[ctrls[g]] + 1
    /\ \A g \in Polls : Identified(g) => errorLogEntries[Key(g)] > 0 \/ NoLength(g)
    /\ ReadSizeIsOwn

LEMMA LengthsStep ==
  TypeOK /\ Position /\ Phases /\ Truth /\ Tally /\ Lengths /\ [Next]_vars => Lengths'
<1> SUFFICES ASSUME TypeOK, Position, Phases, Truth, Tally, Lengths, [Next]_vars,
                    ~MidScrapeSwaps
             PROVE  Lengths'
  BY DEF Lengths
<1> USE DEF machine, locals, scrapeState, responses, history
<1>t. /\ Len(PageOrder) \in Nat
      /\ stage \in [Polls -> 0..Len(PageOrder) + 1]
      /\ pc \in [Polls -> Labels]
      /\ entries \in [Polls -> Nat]
      /\ errorLogEntries \in [Keys -> Nat]
      /\ \A d \in Drives : ELPE[d] \in 0..255
  BY PagesFact, ConstantsAssumption DEF TypeOK
<1>i. /\ disturbed = {}
      /\ \A k \in Keys : errorLogEntries[k] \in {0, ELPE[k[2]] + 1}
      /\ \A g \in Polls : pc[g] = "remember" => entries[g] = ELPE[ctrls[g]] + 1
      /\ \A g \in Polls : Identified(g) => errorLogEntries[Key(g)] > 0 \/ NoLength(g)
      /\ ReadSizeIsOwn
  BY DEF Lengths
<1>0. ASSUME UNCHANGED <<pc, stage, entries, ctrls, errorLogEntries, failed, earlier>>,
             disturbed' = {}
      PROVE  Lengths'
  <2>1. /\ \A h \in Polls : NoLength(h)' <=> NoLength(h)
        /\ \A h \in Polls : Key(h)' = Key(h) /\ Page(h)' = Page(h)
        /\ \A h \in Polls : Identified(h)' <=> Identified(h)
    BY <1>0 DEF NoLength, Key, Page, Identified
  <2>2. \A h \in Polls : SameKey(h)' = SameKey(h)
    BY <1>0, <2>1 DEF SameKey
  <2> QED
    BY <1>0, <1>i, <2>1, <2>2 DEF Lengths, ReadSizeIsOwn, SameKey
<1>1. ASSUME NEW s \in Scrapes, Handle(s) PROVE Lengths'
  <2>1. /\ \A g \in Polls : g[1] = s => pc[g] = "off" /\ stage[g] = 0
        /\ \A g \in Polls : g[1] = s => pc'[g] \in {"off", "waiting"}
        /\ \A g \in Polls : g[1] # s => pc'[g] = pc[g] /\ ctrls'[g] = ctrls[g]
        /\ UNCHANGED <<stage, entries, errorLogEntries, failed, disturbed>>
    BY <1>1 DEF Handle, Position
  <2>2. \A g \in Polls : g[1] # s => Key(g)' = Key(g) /\ (NoLength(g)' <=> NoLength(g))
    BY <2>1 DEF Key, NoLength
  <2>3. \A g \in Polls : Page(g)' = Page(g)
    BY <2>1 DEF Page
  <2>4. \A g \in Polls : pc'[g] = "remember" => entries'[g] = ELPE[ctrls'[g]] + 1
    BY <1>i, <2>1
  <2>5. \A g \in Polls : Identified(g)' => errorLogEntries'[Key(g)'] > 0 \/ NoLength(g)'
    BY <1>i, <2>1, <2>2 DEF Identified
  <2>6. ReadSizeIsOwn'
    <3> SUFFICES ASSUME NEW g \in Polls \ disturbed', pc'[g] = "read", Page(g)' = "0x01"
                 PROVE  \/ entries'[g] = ELPE[ctrls'[g]] + 1
                        \/ entries'[g] = FallbackEntries /\ \A h \in SameKey(g)' : NoLength(h)'
      BY DEF ReadSizeIsOwn
    <3>1. g[1] # s /\ pc[g] = "read" /\ Page(g) = "0x01" /\ earlier'[g[1]] = earlier[g[1]]
      BY <1>1, <2>1, <2>3 DEF Handle, TypeOK, Polls
    <3>2. s \notin {g[1]} \cup earlier[g[1]]
      BY <1>1, <3>1 DEF Handle, Phases, Polls
    <3>3. SameKey(g)' = SameKey(g) /\ \A h \in SameKey(g) : h[1] # s
      BY <2>2, <3>1, <3>2 DEF SameKey
    <3> QED
      BY <1>i, <2>1, <2>2, <3>1, <3>3 DEF ReadSizeIsOwn, SameKey
  <2> QED
    BY <1>i, <2>1, <2>4, <2>5, <2>6 DEF Lengths
<1>2. ASSUME NEW s \in Scrapes, EnumerationFails(s) \/ Respond(s) PROVE Lengths'
  BY <1>0, <1>i, <1>2 DEF EnumerationFails, Respond
<1>3. ASSUME NEW n \in Names, NEW d \in Slots, Swap(n, d) PROVE Lengths'
  <2>1. disturbed' = {}
    BY <1>i, <1>3 DEF Swap, Polls
  <2> QED
    BY <1>0, <1>3, <2>1 DEF Swap
<1>4. ASSUME NEW g \in Polls, PollStep(g) PROVE Lengths'
  <2>1. /\ UNCHANGED <<ctrls, disturbed, earlier>> /\ slot[g[2]] = ctrls[g]
        /\ pc[g] \notin {"off", "done"}
        /\ ctrls[g] \in Drives /\ Key(g) \in Keys
        /\ \A h \in Polls : h # g => pc'[h] = pc[h] /\ stage'[h] = stage[h]
        /\ failed \subseteq failed'
        /\ \A h \in Polls : Key(h)' = Key(h)
    <3>1. failed \subseteq failed'
      BY <1>4, StepAccount DEF Stays, Passes, Finishes, Breaks
    <3>2. UNCHANGED <<ctrls, disturbed, earlier>> /\ pc[g] \notin {"off", "done"}
          /\ \A h \in Polls : h # g => pc'[h] = pc[h] /\ stage'[h] = stage[h]
      BY <1>4, StepShape
    <3> QED
      BY <1>i, <3>1, <3>2 DEF Truth, Position, Key, Keys, Polls
  <2>2. /\ \A h \in Polls : NoLength(h) => NoLength(h)'
        /\ \A h \in Polls : SameKey(h)' = SameKey(h)
    BY <2>1 DEF NoLength, SameKey
  \* What is left to show when only g and what is remembered of its key change.
  <2>3. ASSUME \A h \in Polls : h # g => entries'[h] = entries[h],
               \A k \in Keys : errorLogEntries'[k] \in {0, ELPE[k[2]] + 1},
               \A k \in Keys : errorLogEntries[k] > 0 => errorLogEntries'[k] > 0,
               pc'[g] = "remember" => entries'[g] = ELPE[ctrls[g]] + 1,
               Identified(g)' => errorLogEntries'[Key(g)] > 0 \/ NoLength(g)',
               pc'[g] = "read" /\ Page(g)' = "0x01" =>
                 \/ entries'[g] = ELPE[ctrls[g]] + 1
                 \/ entries'[g] = FallbackEntries /\ \A h \in SameKey(g) : NoLength(h)'
        PROVE  Lengths'
    <3>1. \A h \in Polls : h # g => Page(h)' = Page(h)
      BY <2>1 DEF Page
    <3>2. \A h \in Polls : pc[h] # "off" => Key(h) \in Keys
      BY DEF Position, Key, Keys, Polls
    <3>3. \A h \in Polls : Identified(h) => Key(h) \in Keys
      BY <3>2 DEF Position, Identified
    <3>4. \A h \in Polls : pc'[h] = "remember" => entries'[h] = ELPE[ctrls'[h]] + 1
      BY <1>i, <2>1, <2>3
    <3>5. \A h \in Polls : Identified(h)' => errorLogEntries'[Key(h)'] > 0 \/ NoLength(h)'
      BY <1>i, <2>1, <2>2, <2>3, <3>3 DEF Identified
    <3>6. ReadSizeIsOwn'
      <4> SUFFICES ASSUME NEW h \in Polls \ disturbed', pc'[h] = "read", Page(h)' = "0x01"
                   PROVE  \/ entries'[h] = ELPE[ctrls'[h]] + 1
                          \/ entries'[h] = FallbackEntries /\ \A k \in SameKey(h)' : NoLength(k)'
        BY DEF ReadSizeIsOwn
      <4>1. CASE h = g
        BY <2>1, <2>2, <2>3, <4>1
      <4>2. CASE h # g
        <5>1. \/ entries[h] = ELPE[ctrls[h]] + 1
              \/ entries[h] = FallbackEntries /\ \A k \in SameKey(h) : NoLength(k)
          BY <1>i, <2>1, <3>1, <4>2 DEF ReadSizeIsOwn
        <5> QED
          BY <2>1, <2>2, <2>3, <4>2, <5>1 DEF SameKey
      <4> QED
        BY <4>1, <4>2
    <3> QED
      BY <1>i, <2>1, <2>3, <3>4, <3>5, <3>6 DEF Lengths
  \* Past Identify nothing of this is lost.
  <2>4. ASSUME UNCHANGED errorLogEntries,
               \A h \in Polls : h # g => entries'[h] = entries[h],
               Identified(g), pc'[g] \notin {"remember", "read"}
        PROVE  Lengths'
    BY <1>i, <2>1, <2>2, <2>3, <2>4
  <2>5. CASE ReadIdentify(g)
    <3> PICK a \in Answers :
          /\ Reply(g, "identify", a)
          /\ \/ /\ a = "data"
                /\ entries' = [entries EXCEPT ![g] = ELPE[slot[g[2]]] + 1]
                /\ Goto(g, "remember")
                /\ UNCHANGED <<stage, ok, reason, failed>>
             \/ ~isDeviceError(a) /\ Advance(g) /\ UNCHANGED failed
             \/ a # "data" /\ isDeviceError(a) /\ Fail(g, a)
      BY <2>5 DEF ReadIdentify
    <3>1. UNCHANGED errorLogEntries /\ pc[g] = "identify" /\ stage[g] = 0
      BY <2>5 DEF ReadIdentify, Position
    <3>2. CASE /\ a = "data"
               /\ entries' = [entries EXCEPT ![g] = ELPE[slot[g[2]]] + 1]
               /\ Goto(g, "remember") /\ UNCHANGED <<stage, ok, reason, failed>>
      <4>1. /\ \A h \in Polls : h # g => entries'[h] = entries[h]
            /\ pc'[g] = "remember" /\ stage'[g] = 0
            /\ entries'[g] = ELPE[ctrls[g]] + 1
        BY <1>t, <2>1, <3>1, <3>2 DEF Goto
      <4> QED
        BY <1>i, <2>3, <3>1, <4>1 DEF Identified
    <3>3. CASE ~isDeviceError(a) /\ Advance(g)
      <4>1. /\ \A h \in Polls : h # g => entries'[h] = entries[h]
            /\ pc'[g] \in {"check", "clear", "finish"}
        BY <1>t, <3>3 DEF Advance, Goto
      <4>2. Verdict[ctrls[g]]["identify"] = "refused"
        <5>1. a = "refused"
          BY <3>3 DEF isDeviceError
        <5>2. a = Verdict[slot[g[2]]]["identify"]
          BY <5>1, ReplyFact DEF Commands
        <5> QED
          BY <2>1, <5>1, <5>2
      <4>3. NoLength(g)'
        BY <2>1, <4>2 DEF NoLength
      <4> QED
        BY <1>i, <2>3, <3>1, <4>1, <4>3
    <3>4. CASE Fail(g, a)
      <4>1. /\ UNCHANGED entries /\ pc'[g] = "record"
            /\ Failure(g, classifyError(a)) \in failed'
            /\ Failure(g, classifyError(a)).poll = g
            /\ Failure(g, classifyError(a)).stage = 0
        BY <1>t, <3>1, <3>4 DEF Fail, Goto, Failure
      <4>2. NoLength(g)'
        BY <4>1 DEF NoLength
      <4> QED
        BY <1>i, <2>3, <3>1, <4>1, <4>2
    <3> QED
      BY <3>2, <3>3, <3>4
  <2>6. CASE Remember(g)
    <3>1. /\ pc[g] = "remember" /\ entries[g] = ELPE[ctrls[g]] + 1
          /\ errorLogEntries' = [errorLogEntries EXCEPT ![Key(g)] = entries[g]]
          /\ \A h \in Polls : h # g => entries'[h] = entries[h]
          /\ pc'[g] \in {"check", "clear", "finish"}
      BY <1>t, <1>i, <2>6 DEF Remember, rememberErrorLogEntries, Advance, Goto
    <3>2. /\ errorLogEntries'[Key(g)] = ELPE[ctrls[g]] + 1 /\ Key(g)[2] = ctrls[g]
          /\ \A k \in Keys : k # Key(g) => errorLogEntries'[k] = errorLogEntries[k]
      BY <1>t, <2>1, <3>1 DEF Key
    <3>3. ELPE[ctrls[g]] + 1 > 0
      <4>1. ELPE[ctrls[g]] \in 0..255
        BY <1>t, <2>1
      <4> QED
        BY <4>1
    <3>4. \A k \in Keys : errorLogEntries'[k] \in {0, ELPE[k[2]] + 1}
      BY <1>i, <3>2
    <3>5. errorLogEntries'[Key(g)] > 0
      BY <3>2, <3>3
    <3>6. \A k \in Keys : errorLogEntries[k] > 0 => errorLogEntries'[k] > 0
      BY <3>2, <3>5
    <3> QED
      BY <2>3, <3>1, <3>4, <3>5, <3>6
  <2>7. CASE Size(g)
    <3>1. /\ pc[g] = "size" /\ stage[g] > 0 /\ pc'[g] = "read" /\ stage'[g] = stage[g]
          /\ UNCHANGED <<errorLogEntries, failed>>
          /\ \A h \in Polls : h # g => entries'[h] = entries[h]
          /\ entries'[g] = errorInfoSize(g)
      BY <1>t, <2>7 DEF Size, Goto, Position
    \* Each poll that answered before is past Identify, like this one.
    <3>2. ASSUME NEW h \in SameKey(g)
          PROVE  errorLogEntries[Key(g)] > 0 \/ NoLength(h)
      <4>1. h \in Polls /\ Key(h) = Key(g) /\ ctrls[h] # NoDrive
        BY <2>1, ConstantsAssumption DEF SameKey, Key
      <4>2. CASE h[1] = g[1]
        <5>1. h = g
          BY <4>1, <4>2 DEF Key, Polls
        <5> QED
          BY <1>i, <3>1, <5>1 DEF Identified
      <4>3. CASE h[1] \in earlier[g[1]]
        <5>1. pc[h] = "done"
          BY <4>1, <4>3 DEF Phases, Tally, Polls
        <5> QED
          BY <1>i, <4>1, <5>1 DEF Identified
      <4> QED
        BY <4>2, <4>3 DEF SameKey
    <3>3. \/ entries'[g] = ELPE[ctrls[g]] + 1
          \/ entries'[g] = FallbackEntries /\ \A h \in SameKey(g) : NoLength(h)
      <4>1. errorLogEntries[Key(g)] \in {0, ELPE[Key(g)[2]] + 1} /\ Key(g)[2] = ctrls[g]
        BY <1>i, <2>1 DEF Key
      <4> QED
        BY <3>1, <3>2, <4>1 DEF errorInfoSize, knownErrorLogEntries
    <3>4. \/ entries'[g] = ELPE[ctrls[g]] + 1
          \/ entries'[g] = FallbackEntries /\ \A h \in SameKey(g) : NoLength(h)'
      BY <2>2, <3>3 DEF SameKey
    <3>5. Identified(g) /\ g \in SameKey(g)
      BY <3>1 DEF Identified, SameKey
    <3> QED
      BY <1>i, <2>2, <2>3, <3>1, <3>2, <3>4, <3>5
  <2>8. CASE Check(g)
    <3>1. /\ UNCHANGED errorLogEntries /\ pc[g] = "check" /\ stage[g] > 0
      BY <2>8, <1>t DEF Check, Position
    <3>2. CASE Advance(g)
      <4>1. /\ pc'[g] \in {"check", "clear", "finish"}
            /\ \A h \in Polls : h # g => entries'[h] = entries[h]
        BY <1>t, <3>2 DEF Advance, Goto
      <4> QED
        BY <2>4, <3>1, <4>1 DEF Identified
    <3>3. CASE /\ Goto(g, IF Page(g) = "0x01" THEN "size" ELSE "read")
               /\ UNCHANGED <<supported, stage, ok, reason, entries>>
      <4>1. /\ UNCHANGED <<entries, stage>> /\ pc'[g] \in {"size", "read"}
            /\ Page(g)' = Page(g) /\ (pc'[g] = "read" => Page(g) # "0x01")
        BY <1>t, <3>3 DEF Goto, Page
      <4> QED
        BY <1>i, <2>2, <2>1, <2>3, <3>1, <4>1 DEF Identified
    <3> QED
      BY <2>8, <3>2, <3>3 DEF Check
  <2>9. CASE Read(g) \/ Mark(g) \/ Record(g) \/ Log(g)
    <3>1. /\ UNCHANGED errorLogEntries
          /\ stage[g] > 0 \/ pc[g] \in {"record", "log"}
          /\ \A h \in Polls : h # g => entries'[h] = entries[h]
          /\ pc'[g] \notin {"remember", "read"}
      BY <1>t, <2>9 DEF Read, Mark, Record, Log, Advance, Fail, Goto, Position
    <3> QED
      BY <2>4, <3>1 DEF Identified
  <2>10. CASE Acquire(g) \/ EnumerateNamespaces(g)
    <3>1. /\ UNCHANGED <<errorLogEntries, entries, stage>> /\ stage[g] = 0
          /\ pc'[g] \in {"namespaces", "identify"}
      BY <1>t, <2>10 DEF Acquire, EnumerateNamespaces, Goto, Position
    <3> QED
      BY <1>i, <2>3, <3>1 DEF Identified
  <2>11. CASE Clear(g) \/ Finish(g)
    <3>1. /\ UNCHANGED <<errorLogEntries, entries, stage>> /\ pc'[g] \in {"finish", "done"}
          /\ pc[g] \in {"clear", "finish"}
      BY <1>t, <2>11 DEF Clear, Finish, Goto
    <3> QED
      BY <1>i, <2>1, <2>2, <2>3, <3>1 DEF Identified
  <2> QED
    BY <1>4, <2>5, <2>6, <2>7, <2>8, <2>9, <2>10, <2>11 DEF PollStep
<1>5. CASE UNCHANGED vars
  BY <1>0, <1>i, <1>5 DEF vars
<1> QED
  BY <1>1, <1>2, <1>3, <1>4, <1>5 DEF Next, Quiescent

LEMMA InitLengths == Init => Lengths
BY DEF Init, Lengths, ReadSizeIsOwn, Identified

\* When drives are exchanged only between requests, the error log is read to the
\* length its own controller gave, whatever is remembered of the drives that
\* were in the slot before, and the eight entries of the fallback are read only
\* when neither this poll nor one of an earlier request got a length from it.
THEOREM ReadSizesAreTheirOwn == Spec => [](~MidScrapeSwaps => ReadSizeIsOwn)
<1>1. Spec => [](TypeOK /\ Position /\ Phases /\ Truth /\ Tally /\ Lengths)
  BY InitPosition, NextPosition, InitRemembered, PhasesStep, InitTruth, TruthStep,
     InitTally, TallyStep, InitLengths, LengthsStep, PTL DEF Spec
<1>2. Lengths => (~MidScrapeSwaps => ReadSizeIsOwn)
  BY DEF Lengths
<1> QED
  BY <1>1, <1>2, PTL

=============================================================================
