--------------------------- MODULE ExporterProofs ---------------------------
(***************************************************************************)
(* What holds of Exporter for every fleet, every number of requests and    *)
(* CPUs, every page order and every bound.                                 *)
(***************************************************************************)
EXTENDS Exporter, TLAPS

\* Where a poll is tells which collector it is in, that it works for a drive,
\* and what it carries.
Position ==
  \A g \in Polls :
    /\ request[g[1]] \in {"idle", "failed"} => pc[g] = "off"
    /\ pc[g] # "off" => ctrls[g] \in Drives
    /\ pc[g] \in {"off", "waiting", "namespaces", "identify", "remember"}
         => stage[g] = 0
    /\ pc[g] \in {"check", "size", "read", "mark"}
         => stage[g] \in 1..Len(PageOrder)
    /\ pc[g] \in {"record", "log"}
         => stage[g] \in 0..Len(PageOrder) /\ reason[g] \in Reasons

LEMMA PagesFact ==
  /\ Len(PageOrder) \in Nat
  /\ \A i \in 1..Len(PageOrder) : PageOrder[i] \in Pages
  /\ Pages \subseteq Commands
BY ConstantsAssumption DEF Pages, Commands

LEMMA EntriesOfELPE == \A elpe \in 0..255 : elpe + 1 \in Nat
  OBVIOUS

LEMMA InitPosition == Init => TypeOK /\ Position
<1> SUFFICES ASSUME Init PROVE TypeOK /\ Position
  OBVIOUS
<1> USE ConstantsAssumption, PagesFact DEF Init
<1>1. TypeOK
  BY DEF TypeOK, Slots, Keys, ErrKeys, Labels, Reasons, Polls
<1>2. Position
  BY DEF Position
<1> QED
  BY <1>1, <1>2

\* A step of g that leaves the other polls where they are keeps Position if it
\* puts g in its place.
LEMMA PositionOfOne ==
  ASSUME TypeOK, Position, NEW g \in Polls, pc[g] # "off",
         UNCHANGED <<request, ctrls>>, pc'[g] # "off",
         \A h \in Polls : h # g =>
           pc'[h] = pc[h] /\ stage'[h] = stage[h] /\ reason'[h] = reason[h],
         pc'[g] \in {"waiting", "namespaces", "identify", "remember"}
           => stage'[g] = 0,
         pc'[g] \in {"check", "size", "read", "mark"}
           => stage'[g] \in 1..Len(PageOrder),
         pc'[g] \in {"record", "log"}
           => stage'[g] \in 0..Len(PageOrder) /\ reason'[g] \in Reasons
  PROVE  Position'
BY DEF Position

LEMMA AdvanceFact ==
  ASSUME TypeOK, Position, NEW g \in Polls, Advance(g),
         stage[g] \in 0..Len(PageOrder), pc[g] # "off"
  PROVE  /\ pc' \in [Polls -> Labels]
         /\ stage' \in [Polls -> 0..Len(PageOrder) + 1]
         /\ entries' \in [Polls -> Nat]
         /\ reason' \in [Polls -> Reasons \cup {"none"}]
         /\ ok' \in [Polls -> BOOLEAN]
         /\ UNCHANGED <<request, ctrls>> => Position'
<1> USE PagesFact
<1>1. /\ pc' \in [Polls -> Labels] /\ pc'[g] \in {"check", "clear", "finish"}
      /\ \A h \in Polls : h # g =>
           pc'[h] = pc[h] /\ stage'[h] = stage[h] /\ reason'[h] = reason[h]
  BY DEF Advance, TypeOK, Goto, Labels
<1>2. /\ stage' \in [Polls -> 0..Len(PageOrder) + 1]
      /\ pc'[g] = "check" => stage'[g] \in 1..Len(PageOrder)
  BY DEF Advance, TypeOK, Goto
<1>3. UNCHANGED <<request, ctrls>> => Position'
  BY <1>1, <1>2, PositionOfOne
<1>4. /\ entries' \in [Polls -> Nat] /\ ok' \in [Polls -> BOOLEAN]
      /\ reason' \in [Polls -> Reasons \cup {"none"}]
  BY DEF Advance, TypeOK
<1> QED
  BY <1>1, <1>2, <1>3, <1>4

LEMMA FailFact ==
  ASSUME TypeOK, Position, NEW g \in Polls, NEW a \in Answers, Fail(g, a),
         stage[g] \in 0..Len(PageOrder), pc[g] # "off"
  PROVE  /\ pc' \in [Polls -> Labels]
         /\ stage' \in [Polls -> 0..Len(PageOrder) + 1]
         /\ entries' \in [Polls -> Nat]
         /\ reason' \in [Polls -> Reasons \cup {"none"}]
         /\ ok' \in [Polls -> BOOLEAN]
         /\ failed' \subseteq Failures
         /\ UNCHANGED <<request, ctrls>> => Position'
<1>1. classifyError(a) \in Reasons
  BY DEF classifyError, Reasons
<1>2. ctrls[g] \in Drives
  BY DEF Position
<1>3. Failure(g, classifyError(a)) \in Failures
  BY <1>1, <1>2 DEF Failure, Failures, Key, Keys, Polls
<1>4. /\ pc' \in [Polls -> Labels] /\ pc'[g] = "record"
      /\ stage' \in [Polls -> 0..Len(PageOrder) + 1]
      /\ reason' \in [Polls -> Reasons \cup {"none"}]
      /\ stage'[g] \in 0..Len(PageOrder) /\ reason'[g] \in Reasons
      /\ \A h \in Polls : h # g =>
           pc'[h] = pc[h] /\ stage'[h] = stage[h] /\ reason'[h] = reason[h]
  BY <1>1 DEF Fail, TypeOK, Goto, Labels
<1>5. UNCHANGED <<request, ctrls>> => Position'
  BY <1>4, PositionOfOne
<1>6. /\ entries' \in [Polls -> Nat] /\ ok' \in [Polls -> BOOLEAN]
      /\ failed' \subseteq Failures
  BY <1>3 DEF Fail, TypeOK
<1> QED
  BY <1>4, <1>5, <1>6

LEMMA ReplyFact ==
  ASSUME TypeOK, NEW g \in Polls, NEW c \in Commands, NEW a, Reply(g, c, a)
  PROVE  /\ faults' \in 0..MaxFaults
         /\ a # "open" => slot[g[2]] \in Drives
         /\ a \in {"data", "refused", "foreign"} => a = Verdict[slot[g[2]]][c]
<1>1. slot[g[2]] \in Slots
  BY DEF TypeOK, Polls
<1>2. Faults \cap {"data", "refused", "foreign"} = {}
  BY ConstantsAssumption DEF DeviceErrors
<1> QED
  BY <1>1, <1>2, ConstantsAssumption DEF Reply, TypeOK, Slots

LEMMA NextPosition == TypeOK /\ Position /\ [Next]_vars => TypeOK' /\ Position'
<1> SUFFICES ASSUME TypeOK, Position, [Next]_vars PROVE TypeOK' /\ Position'
  OBVIOUS
<1> USE PagesFact
<1> USE DEF Polls, Slots, machine, locals, scrapeState, responses, history
<1>1. ASSUME NEW s \in Scrapes, Handle(s) PROVE TypeOK' /\ Position'
  <2>1. TypeOK'
    BY <1>1 DEF Handle, TypeOK, Labels
  <2>2. Position'
    BY <1>1, ConstantsAssumption DEF Handle, TypeOK, Position
  <2> QED
    BY <2>1, <2>2
<1>2. ASSUME NEW s \in Scrapes, EnumerationFails(s) PROVE TypeOK' /\ Position'
  <2>1. TypeOK'
    BY <1>2, ConstantsAssumption DEF EnumerationFails, TypeOK
  <2>2. Position'
    BY <1>2 DEF EnumerationFails, TypeOK, Position
  <2> QED
    BY <2>1, <2>2
<1>3. ASSUME NEW s \in Scrapes, Respond(s) PROVE TypeOK' /\ Position'
  <2>1. TypeOK'
    BY <1>3 DEF Respond, TypeOK
  <2>2. Position'
    BY <1>3 DEF Respond, TypeOK, Position
  <2> QED
    BY <2>1, <2>2
<1>4. ASSUME NEW n \in Names, NEW d \in Slots, Swap(n, d) PROVE TypeOK' /\ Position'
  <2>1. TypeOK'
    BY <1>4, ConstantsAssumption DEF Swap, TypeOK
  <2>2. Position'
    BY <1>4 DEF Swap, TypeOK, Position
  <2> QED
    BY <2>1, <2>2
<1>5. ASSUME NEW g \in Polls, PollStep(g) PROVE TypeOK' /\ Position'
  <2>1. CASE Acquire(g)
    <3>1. TypeOK'
      BY <2>1 DEF Acquire, Goto, TypeOK, Labels
    <3>2. Position'
      BY <2>1 DEF Acquire, Goto, TypeOK, Position
    <3> QED
      BY <3>1, <3>2
  <2>2. CASE EnumerateNamespaces(g)
    <3>1. TypeOK'
      BY <2>2, ConstantsAssumption DEF EnumerateNamespaces, Goto, TypeOK, Labels
    <3>2. Position'
      BY <2>2 DEF EnumerateNamespaces, Goto, TypeOK, Position
    <3> QED
      BY <3>1, <3>2
  <2>3. CASE ReadIdentify(g)
    <3> PICK a \in Answers :
          /\ Reply(g, "identify", a)
          /\ \/ /\ a = "data"
                /\ entries' = [entries EXCEPT ![g] = ELPE[slot[g[2]]] + 1]
                /\ Goto(g, "remember")
                /\ UNCHANGED <<stage, ok, reason, failed>>
             \/ ~isDeviceError(a) /\ Advance(g) /\ UNCHANGED failed
             \/ a # "data" /\ isDeviceError(a) /\ Fail(g, a)
      BY <2>3 DEF ReadIdentify
    <3>1. /\ faults' \in 0..MaxFaults
          /\ a # "open" => slot[g[2]] \in Drives
      BY ReplyFact DEF Commands
    <3>2. /\ pc[g] = "identify" /\ stage[g] = 0 /\ ctrls[g] \in Drives
          /\ stage[g] \in 0..Len(PageOrder) /\ pc[g] # "off"
      BY <2>3 DEF ReadIdentify, Position
    <3>3. UNCHANGED <<slot, swaps, request, ctrls, scrapeState, responses, earlier,
                      disturbed, negatives, lines>>
      BY <2>3 DEF ReadIdentify
    <3>4. CASE /\ a = "data"
               /\ entries' = [entries EXCEPT ![g] = ELPE[slot[g[2]]] + 1]
               /\ Goto(g, "remember")
               /\ UNCHANGED <<stage, ok, reason, failed>>
      <4>1. entries' \in [Polls -> Nat]
        <5>1. ELPE[slot[g[2]]] \in 0..255
          BY <3>1, <3>4, ConstantsAssumption
        <5>2. ELPE[slot[g[2]]] + 1 \in Nat
          BY <5>1, EntriesOfELPE, Zenon
        <5> QED
          BY <3>4, <5>2, Zenon DEF TypeOK
      <4>2. TypeOK'
        BY <3>1, <3>3, <3>4, <4>1 DEF TypeOK, Goto, Labels
      <4>3. Position'
        BY <3>2, <3>3, <3>4 DEF Goto, TypeOK, Position
      <4> QED
        BY <4>2, <4>3
    <3>5. CASE Advance(g) /\ UNCHANGED failed
      <4>1. TypeOK'
        BY <3>1, <3>2, <3>3, <3>5, AdvanceFact DEF TypeOK
      <4>2. Position'
        BY <3>2, <3>3, <3>5, AdvanceFact
      <4> QED
        BY <4>1, <4>2
    <3>6. CASE Fail(g, a)
      <4>1. TypeOK'
        BY <3>1, <3>2, <3>3, <3>6, FailFact DEF TypeOK, Labels
      <4>2. Position'
        BY <3>2, <3>3, <3>6, FailFact
      <4> QED
        BY <4>1, <4>2
    <3> QED
      BY <3>4, <3>5, <3>6
  <2>4. CASE Remember(g)
    <3>1. /\ stage[g] \in 0..Len(PageOrder) /\ ctrls[g] \in Drives
          /\ Advance(g) /\ pc[g] # "off"
      BY <2>4 DEF Remember, Position
    <3>2. TypeOK'
      BY <2>4, <3>1, AdvanceFact DEF Remember, rememberErrorLogEntries, TypeOK, Key, Keys
    <3>3. Position'
      BY <2>4, <3>1, AdvanceFact DEF Remember
    <3> QED
      BY <3>2, <3>3
  <2>5. CASE Check(g)
    <3>1. /\ stage[g] \in 1..Len(PageOrder) /\ ctrls[g] \in Drives /\ Page(g) \in Pages
          /\ stage[g] \in 0..Len(PageOrder)
          /\ pc[g] # "off"
      BY <2>5 DEF Check, Position, Page
    <3>2. CASE reportPage(g, "no") /\ Advance(g)
      <4>1. supported' \in [Polls -> [Pages -> {"absent", "no", "yes"}]]
        BY <3>1, <3>2 DEF reportPage, TypeOK
      <4>2. TypeOK'
        BY <2>5, <3>1, <3>2, <4>1, AdvanceFact DEF Check, TypeOK
      <4>3. Position'
        BY <2>5, <3>1, <3>2, AdvanceFact DEF Check
      <4> QED
        BY <4>2, <4>3
    <3>3. CASE /\ Goto(g, IF Page(g) = "0x01" THEN "size" ELSE "read")
               /\ UNCHANGED <<supported, stage, ok, reason, entries>>
      <4>1. TypeOK'
        BY <2>5, <3>1, <3>3 DEF Check, Goto, TypeOK, Labels
      <4>2. Position'
        BY <2>5, <3>1, <3>3 DEF Check, Goto, TypeOK, Position
      <4> QED
        BY <4>1, <4>2
    <3> QED
      BY <2>5, <3>2, <3>3 DEF Check
  <2>6. CASE Size(g)
    <3>1. ctrls[g] \in Drives
      BY <2>6 DEF Size, Position
    <3>2. errorInfoSize(g) \in Nat
      BY <3>1 DEF errorInfoSize, knownErrorLogEntries, FallbackEntries, Key, Keys, TypeOK
    <3>3. TypeOK'
      BY <2>6, <3>2 DEF Size, Goto, TypeOK, Labels
    <3>4. Position'
      BY <2>6 DEF Size, Goto, TypeOK, Position
    <3> QED
      BY <3>3, <3>4
  <2>7. CASE Read(g)
    <3> PICK a \in Answers :
          /\ Reply(g, Page(g), a)
          /\ \/ /\ reportPage(g, "yes") /\ Advance(g)
                /\ UNCHANGED <<failed, negatives>>
             \/ /\ ~isDeviceError(a) \/ a = "foreign"
                /\ negatives' = negatives \cup {Denial(g)}
                /\ Goto(g, "mark")
                /\ UNCHANGED <<supported, stage, ok, reason, entries, failed>>
             \/ reportPage(g, "yes") /\ Fail(g, a) /\ UNCHANGED negatives
             \/ Fail(g, a) /\ UNCHANGED <<supported, negatives>>
      BY <2>7 DEF Read
    <3>1. /\ stage[g] \in 1..Len(PageOrder) /\ ctrls[g] \in Drives /\ Page(g) \in Pages
          /\ stage[g] \in 0..Len(PageOrder)
          /\ pc[g] # "off"
      BY <2>7 DEF Read, Position, Page
    <3>2. /\ faults' \in 0..MaxFaults
          /\ a # "open" => slot[g[2]] \in Drives
      BY <3>1, ReplyFact
    <3>3. UNCHANGED <<slot, swaps, request, ctrls, scrapeState, success, exposed,
                      earlier, disturbed, lines>>
      BY <2>7 DEF Read
    <3>4. ASSUME reportPage(g, "yes")
          PROVE supported' \in [Polls -> [Pages -> {"absent", "no", "yes"}]]
      BY <3>1, <3>4 DEF reportPage, TypeOK
    <3>5. CASE /\ reportPage(g, "yes") /\ Advance(g) /\ UNCHANGED <<failed, negatives>>
      <4>1. TypeOK'
        BY <3>1, <3>2, <3>3, <3>4, <3>5, AdvanceFact DEF TypeOK
      <4>2. Position'
        BY <3>1, <3>3, <3>5, AdvanceFact
      <4> QED
        BY <4>1, <4>2
    <3>6. CASE /\ ~isDeviceError(a) \/ a = "foreign"
               /\ negatives' = negatives \cup {Denial(g)}
               /\ Goto(g, "mark")
               /\ UNCHANGED <<supported, stage, ok, reason, entries, failed>>
      <4>1. Denial(g) \in Denials
        BY <3>1, <3>2, <3>6 DEF Denial, Denials, Key, Keys, isDeviceError
      <4>2. TypeOK'
        BY <3>1, <3>2, <3>3, <3>6, <4>1 DEF TypeOK, Goto, Labels
      <4>3. Position'
        BY <3>1, <3>3, <3>6 DEF TypeOK, Position, Goto
      <4> QED
        BY <4>2, <4>3
    <3>7. CASE /\ Fail(g, a) /\ UNCHANGED negatives
               /\ reportPage(g, "yes") \/ UNCHANGED supported
      <4>1. TypeOK'
        BY <3>1, <3>2, <3>3, <3>4, <3>7, FailFact DEF TypeOK, Labels
      <4>2. Position'
        BY <3>1, <3>3, <3>7, FailFact
      <4> QED
        BY <4>1, <4>2
    <3> QED
      BY <3>5, <3>6, <3>7
  <2>8. CASE Mark(g)
    <3>1. /\ stage[g] \in 0..Len(PageOrder) /\ ctrls[g] \in Drives /\ Page(g) \in Pages
          /\ pc[g] # "off" /\ Advance(g)
      BY <2>8 DEF Mark, Position, Page
    <3>2. /\ supported' \in [Polls -> [Pages -> {"absent", "no", "yes"}]]
          /\ pageUnsupported' \subseteq Keys \X Pages
      BY <2>8, <3>1 DEF Mark, reportPage, markPageUnsupported, TypeOK, Key, Keys
    <3>3. TypeOK'
      BY <2>8, <3>1, <3>2, AdvanceFact DEF Mark, TypeOK
    <3>4. Position'
      BY <2>8, <3>1, AdvanceFact DEF Mark
    <3> QED
      BY <3>3, <3>4
  <2>9. CASE Record(g)
    <3> DEFINE k == <<Key(g), reason[g]>>
    <3>1. /\ stage[g] \in 0..Len(PageOrder) /\ ctrls[g] \in Drives /\ reason[g] \in Reasons
          /\ pc[g] # "off"
      BY <2>9 DEF Record, Position
    <3>2. k \in ErrKeys
      BY <3>1 DEF ErrKeys, Key, Keys
    <3>3. errCounts' \in [ErrKeys -> Nat] /\ logged' \subseteq ErrKeys
      BY <2>9, <3>2 DEF Record, recordError, TypeOK, ErrKeys
    <3>4. CASE Advance(g)
      <4>1. TypeOK'
        BY <2>9, <3>1, <3>3, <3>4, AdvanceFact DEF Record, TypeOK
      <4>2. Position'
        BY <2>9, <3>1, <3>4, AdvanceFact DEF Record
      <4> QED
        BY <4>1, <4>2
    <3>5. CASE Goto(g, "log") /\ UNCHANGED <<stage, ok, reason, entries>>
      <4>1. TypeOK'
        BY <2>9, <3>1, <3>3, <3>5 DEF Record, Goto, TypeOK, Labels
      <4>2. Position'
        BY <2>9, <3>1, <3>5 DEF Record, Goto, TypeOK, Position
      <4> QED
        BY <4>1, <4>2
    <3> QED
      BY <2>9, <3>4, <3>5 DEF Record
  <2>10. CASE Log(g)
    <3>1. /\ stage[g] \in 0..Len(PageOrder) /\ ctrls[g] \in Drives /\ reason[g] \in Reasons
          /\ Advance(g) /\ pc[g] # "off"
      BY <2>10 DEF Log, Position
    <3>2. Failure(g, reason[g]) \in Failures
      BY <3>1 DEF Failure, Failures, Key, Keys
    <3>3. TypeOK'
      BY <2>10, <3>1, <3>2, AdvanceFact DEF Log, TypeOK
    <3>4. Position'
      BY <2>10, <3>1, AdvanceFact DEF Log
    <3> QED
      BY <3>3, <3>4
  <2>11. CASE Clear(g)
    <3>1. TypeOK'
      BY <2>11 DEF Clear, clearLogged, Goto, TypeOK, Labels
    <3>2. Position'
      BY <2>11 DEF Clear, Goto, TypeOK, Position
    <3> QED
      BY <3>1, <3>2
  <2>12. CASE Finish(g)
    <3>1. TypeOK'
      BY <2>12 DEF Finish, Goto, TypeOK, Labels
    <3>2. Position'
      BY <2>12 DEF Finish, Goto, TypeOK, Position
    <3> QED
      BY <3>1, <3>2
  <2> QED
    BY <1>5, <2>1, <2>2, <2>3, <2>4, <2>5, <2>6, <2>7, <2>8, <2>9, <2>10, <2>11,
       <2>12 DEF PollStep
<1>6. CASE UNCHANGED vars
  BY <1>6 DEF vars, TypeOK, Position
<1> QED
  BY <1>1, <1>2, <1>3, <1>4, <1>5, <1>6 DEF Next, Quiescent

\* Every variable keeps its type, whatever is polled, fails or is exchanged:
\* no collector index leaves the order of collectController's calls, and only
\* a controller the request enumerated is counted, logged or remembered.
THEOREM TypeCorrect == Spec => []TypeOK
<1>1. Spec => [](TypeOK /\ Position)
  BY InitPosition, NextPosition, PTL DEF Spec
<1> QED
  BY <1>1, PTL

-----------------------------------------------------------------------------
(* Who may ask again for a page that was denied.                           *)

\* What a step of one poll does to what the denials are about: nothing; or it
\* finds the page not known as unsupported; or goes on from there to the read;
\* or the read is denied; or the denial is remembered.
Elsewhere(g) == pc'[g] \notin {"off", "size", "read", "mark"}
Nothing(g)   == UNCHANGED negatives /\ Elsewhere(g) /\ pc[g] # "mark"
Unknown(g)   == /\ pc[g] = "check" /\ ~pageKnownUnsupported(g)
                /\ pc'[g] \in {"size", "read"} /\ UNCHANGED <<stage, negatives>>
Sized(g)     == /\ pc[g] = "size" /\ pc'[g] = "read"
                /\ UNCHANGED <<stage, negatives>>
Denied(g)    == /\ pc[g] = "read" /\ pc'[g] = "mark" /\ UNCHANGED stage
                /\ negatives' = negatives \cup {Denial(g)}
Marked(g)    == /\ pc[g] = "mark" /\ Elsewhere(g) /\ UNCHANGED negatives
                /\ <<Key(g), Page(g)>> \in pageUnsupported'

LEMMA StepShape ==
  ASSUME TypeOK, Position, NEW g \in Polls, PollStep(g)
  PROVE  /\ UNCHANGED <<request, ctrls, earlier, slot, disturbed>>
         /\ pc[g] \notin {"off", "done"} /\ pc'[g] # "off"
         /\ \A h \in Polls : h # g => pc'[h] = pc[h] /\ stage'[h] = stage[h]
         /\ pageUnsupported \subseteq pageUnsupported'
         /\ Nothing(g) \/ Unknown(g) \/ Sized(g) \/ Denied(g) \/ Marked(g)
<1> USE DEF machine, locals, scrapeState, responses, history, Elsewhere
<1> pc \in [Polls -> Labels] /\ stage \in [Polls -> 0..Len(PageOrder) + 1]
  BY DEF TypeOK
<1>1. CASE Acquire(g)
  BY <1>1 DEF Acquire, Goto, Nothing
<1>2. CASE EnumerateNamespaces(g)
  BY <1>2 DEF EnumerateNamespaces, Goto, Nothing
<1>3. CASE ReadIdentify(g)
  BY <1>3 DEF ReadIdentify, Advance, Fail, Goto, Nothing
<1>4. CASE Remember(g)
  BY <1>4 DEF Remember, Advance, Goto, Nothing
<1>5. CASE Check(g)
  BY <1>5 DEF Check, Advance, Goto, Nothing, Unknown
<1>6. CASE Size(g)
  BY <1>6 DEF Size, Goto, Sized
<1>7. CASE Read(g)
  BY <1>7 DEF Read, Advance, Fail, Goto, Nothing, Denied
<1>8. CASE Mark(g)
  BY <1>8 DEF Mark, markPageUnsupported, Advance, Goto, Marked
<1>9. CASE Record(g)
  BY <1>9 DEF Record, Advance, Goto, Nothing
<1>10. CASE Log(g)
  BY <1>10 DEF Log, Advance, Goto, Nothing
<1>11. CASE Clear(g)
  BY <1>11 DEF Clear, Goto, Nothing
<1>12. CASE Finish(g)
  BY <1>12 DEF Finish, Goto, Nothing
<1> QED
  BY <1>1, <1>2, <1>3, <1>4, <1>5, <1>6, <1>7, <1>8, <1>9, <1>10, <1>11, <1>12
     DEF PollStep

\* A poll runs only while its request does, and a request waits for its polls.
Phases ==
  /\ \A g \in Polls : pc[g] \notin {"off", "done"} => request[g[1]] = "collecting"
  /\ \A s \in Scrapes : \A t \in earlier[s] : request[t] = "answered"

\* A denial is in the cache, or its poll is about to put it there; and a poll
\* that found no denial of its page was preceded by none.
Remembered ==
  /\ \A n \in negatives :
       /\ pc[n.poll] # "off" /\ n.key = Key(n.poll)
       /\ \/ <<n.key, n.page>> \in pageUnsupported
          \/ pc[n.poll] = "mark" /\ n.page = Page(n.poll)
  /\ \A g \in Polls, n \in negatives :
       pc[g] \in {"size", "read"} /\ n.key = Key(g) /\ n.page = Page(g)
         => n.poll = g \/ n.poll[1] \notin earlier[g[1]]
  /\ ReaskNeedsOverlap

LEMMA PhasesStep ==
  TypeOK /\ Position /\ Phases /\ [Next]_vars => Phases'
<1> SUFFICES ASSUME TypeOK, Position, Phases, [Next]_vars PROVE Phases'
  OBVIOUS
<1> USE DEF machine, locals, scrapeState, responses, history
<1>1. ASSUME NEW s \in Scrapes, Handle(s) PROVE Phases'
  BY <1>1 DEF Handle, Phases, TypeOK, Polls
<1>2. ASSUME NEW s \in Scrapes, EnumerationFails(s) PROVE Phases'
  BY <1>2 DEF EnumerationFails, Phases, TypeOK, Polls
<1>3. ASSUME NEW s \in Scrapes, Respond(s) PROVE Phases'
  <2>1. \A g \in Polls : g[1] = s => pc[g] \in {"off", "done"}
    BY <1>3, ConstantsAssumption DEF Respond, Waited, PollsOf, Position
  <2> QED
    BY <1>3, <2>1 DEF Respond, Phases, TypeOK, Polls
<1>4. ASSUME NEW n \in Names, NEW d \in Slots, Swap(n, d) PROVE Phases'
  BY <1>4 DEF Swap, Phases
<1>5. ASSUME NEW g \in Polls, PollStep(g) PROVE Phases'
  BY <1>5, StepShape DEF Phases
<1>6. CASE UNCHANGED vars
  BY <1>6 DEF vars, Phases
<1> QED
  BY <1>1, <1>2, <1>3, <1>4, <1>5, <1>6 DEF Next, Quiescent

LEMMA RememberedStep ==
  TypeOK /\ Position /\ Phases /\ Remembered /\ [Next]_vars => Remembered'
<1> SUFFICES ASSUME TypeOK, Position, Phases, Remembered, [Next]_vars PROVE Remembered'
  OBVIOUS
<1> USE DEF machine, locals, scrapeState, responses, history
<1>n. \A n \in negatives : n.poll \in Polls
  BY DEF TypeOK, Denials
<1>1. ASSUME NEW s \in Scrapes, Handle(s) PROVE Remembered'
  <2>1. \A g \in Polls : g[1] = s => pc[g] = "off" /\ pc'[g] \in {"waiting", "off"}
    BY <1>1 DEF Handle, Position
  <2>2. \A g \in Polls : g[1] # s =>
          pc'[g] = pc[g] /\ ctrls'[g] = ctrls[g] /\ earlier'[g[1]] = earlier[g[1]]
    BY <1>1 DEF Handle, TypeOK, Polls
  <2>3. \A n \in negatives : n.poll[1] # s
    BY <1>n, <2>1 DEF Remembered
  <2>4. UNCHANGED <<stage, negatives, pageUnsupported>>
    BY <1>1 DEF Handle
  <2> QED
    BY <1>n, <2>1, <2>2, <2>3, <2>4 DEF Remembered, ReaskNeedsOverlap, Key, Page
<1>2. ASSUME NEW s \in Scrapes, EnumerationFails(s) PROVE Remembered'
  BY <1>2 DEF EnumerationFails, Remembered, ReaskNeedsOverlap, Key, Page
<1>3. ASSUME NEW s \in Scrapes, Respond(s) PROVE Remembered'
  BY <1>3 DEF Respond, Remembered, ReaskNeedsOverlap, Key, Page
<1>4. ASSUME NEW n \in Names, NEW d \in Slots, Swap(n, d) PROVE Remembered'
  BY <1>4 DEF Swap, Remembered, ReaskNeedsOverlap, Key, Page
<1>5. ASSUME NEW g \in Polls, PollStep(g) PROVE Remembered'
  <2>1. /\ UNCHANGED <<request, ctrls, earlier>>
        /\ pc[g] \notin {"off", "done"} /\ pc'[g] # "off"
        /\ \A h \in Polls : h # g => pc'[h] = pc[h] /\ stage'[h] = stage[h]
        /\ pageUnsupported \subseteq pageUnsupported'
    BY <1>5, StepShape
  <2>2. \A s \in Scrapes : g[1] \notin earlier[s]
    BY <2>1 DEF Phases
  <2>3. CASE Nothing(g)
    BY <1>n, <2>1, <2>3 DEF Nothing, Elsewhere, Remembered, ReaskNeedsOverlap, Key, Page
  <2>4. CASE Unknown(g)
    <3>1. ASSUME NEW n \in negatives, n.key = Key(g), n.page = Page(g)
          PROVE  n.poll[1] \notin earlier[g[1]]
      <4>1. pc[n.poll] = "mark"
        BY <2>4, <3>1 DEF Unknown, pageKnownUnsupported, Remembered
      <4>2. request[n.poll[1]] = "collecting"
        BY <1>n, <4>1 DEF Phases
      <4> QED
        BY <4>2 DEF Phases, Polls
    <3>2. \A h \in Polls : Key(h)' = Key(h) /\ Page(h)' = Page(h)
      BY <2>1, <2>4 DEF Unknown, Key, Page
    <3> QED
      BY <1>n, <2>1, <2>4, <3>1, <3>2 DEF Unknown, Remembered, ReaskNeedsOverlap
  <2>5. CASE Sized(g)
    BY <1>n, <2>1, <2>5 DEF Sized, Remembered, ReaskNeedsOverlap, Key, Page
  <2>6. CASE Denied(g)
    <3> DEFINE d == Denial(g)
    <3>1. d.poll = g /\ d.key = Key(g) /\ d.page = Page(g)
      BY DEF Denial
    <3>2. \A h \in Polls : Key(h)' = Key(h) /\ Page(h)' = Page(h)
      BY <2>1, <2>6 DEF Denied, Key, Page
    <3>3. negatives' = negatives \cup {d}
      BY <2>6 DEF Denied
    <3> HIDE DEF d
    <3>4. \A n \in negatives' :
            /\ pc'[n.poll] # "off" /\ n.key = Key(n.poll)'
            /\ \/ <<n.key, n.page>> \in pageUnsupported'
               \/ pc'[n.poll] = "mark" /\ n.page = Page(n.poll)'
      BY <1>n, <2>1, <2>6, <3>1, <3>2, <3>3 DEF Denied, Remembered
    <3>5. \A h \in Polls, n \in negatives' :
            pc'[h] \in {"size", "read"} /\ n.key = Key(h)' /\ n.page = Page(h)'
              => n.poll = h \/ n.poll[1] \notin earlier'[h[1]]
      BY <2>1, <2>2, <2>6, <3>1, <3>2, <3>3 DEF Denied, Remembered, Polls
    <3>6. \A n \in negatives :
            n.key = d.key /\ n.page = d.page /\ n.poll # g
              => n.poll[1] \notin earlier[g[1]] /\ g[1] \notin earlier[n.poll[1]]
      BY <1>n, <2>2, <2>6, <3>1 DEF Denied, Remembered, Polls
    <3>7. ReaskNeedsOverlap'
      BY <2>1, <3>1, <3>3, <3>6 DEF ReaskNeedsOverlap, Remembered
    <3> QED
      BY <3>4, <3>5, <3>7 DEF Remembered
  <2>7. CASE Marked(g)
    BY <1>n, <2>1, <2>7 DEF Marked, Elsewhere, Remembered, ReaskNeedsOverlap, Key, Page
  <2> QED
    BY <1>5, <2>3, <2>4, <2>5, <2>6, <2>7, StepShape
<1>6. CASE UNCHANGED vars
  BY <1>6 DEF vars, Remembered, ReaskNeedsOverlap, Key, Page
<1> QED
  BY <1>1, <1>2, <1>3, <1>4, <1>5, <1>6 DEF Next, Quiescent

LEMMA InitRemembered == Init => Phases /\ Remembered
BY DEF Init, Phases, Remembered, ReaskNeedsOverlap

\* A request that arrives after another was answered never puts to a
\* controller a question that the other one's poll saw denied: not for any
\* number of overlapping requests, and not even when drives change places
\* while they run.
THEOREM NoReaskAfterAnswer == Spec => []ReaskNeedsOverlap
<1>1. Spec => [](TypeOK /\ Position /\ Phases /\ Remembered)
  BY InitPosition, NextPosition, InitRemembered, PhasesStep, RememberedStep, PTL DEF Spec
<1>2. Remembered => ReaskNeedsOverlap
  BY DEF Remembered
<1> QED
  BY <1>1, <1>2, PTL

-----------------------------------------------------------------------------
(* What is remembered of a drive is true of it.                            *)

\* A running poll talks to the drive it was enumerated for, unless drives were
\* exchanged meanwhile; only the drive itself, never a failure, denies a page;
\* and what is remembered, or about to be, was denied.
Truth ==
  /\ \A g \in Polls : pc[g] \notin {"off", "done"} =>
       slot[g[2]] = ctrls[g] \/ g \in disturbed
  /\ \A n \in negatives : n.poll \in disturbed \/ Verdict[n.key[2]][n.page] # "data"
  /\ \A g \in Polls : pc[g] = "mark" =>
       \E n \in negatives : n.poll = g /\ n.key = Key(g) /\ n.page = Page(g)
  /\ \A u \in pageUnsupported : \E n \in negatives : n.key = u[1] /\ n.page = u[2]

\* The gauge agrees with the drive when no drive is exchanged under a request.
GaugeTruth ==
  ~MidScrapeSwaps =>
    /\ disturbed = {}
    /\ \A g \in Polls : pc[g] = "off" => \A p \in Pages : supported[g][p] = "absent"
    /\ SupportedGaugeTruthful

LEMMA TruthStep ==
  TypeOK /\ Position /\ Phases /\ Truth /\ [Next]_vars => Truth'
<1> SUFFICES ASSUME TypeOK, Position, Phases, Truth, [Next]_vars PROVE Truth'
  OBVIOUS
<1> USE DEF machine, locals, scrapeState, responses, history
<1>1. ASSUME NEW s \in Scrapes, Handle(s) PROVE Truth'
  <2>1. /\ \A g \in Polls : g[1] # s => pc'[g] = pc[g] /\ ctrls'[g] = ctrls[g]
        /\ \A g \in Polls : g[1] = s =>
             ctrls'[g] = slot[g[2]] /\ pc'[g] \in {"waiting", "off"}
        /\ UNCHANGED <<slot, disturbed, stage, negatives, pageUnsupported>>
    BY <1>1 DEF Handle, Position
  <2>2. \A g \in Polls : pc'[g] = "mark" => pc[g] = "mark" /\ Key(g)' = Key(g)
    BY <2>1 DEF Key
  <2>3. \A g \in Polls : pc'[g] \notin {"off", "done"} =>
          slot'[g[2]] = ctrls'[g] \/ g \in disturbed'
    BY <2>1 DEF Truth
  <2> QED
    BY <2>1, <2>2, <2>3 DEF Truth, Page
<1>2. ASSUME NEW s \in Scrapes, EnumerationFails(s) PROVE Truth'
  BY <1>2 DEF EnumerationFails, Truth, Key, Page
<1>3. ASSUME NEW s \in Scrapes, Respond(s) PROVE Truth'
  BY <1>3 DEF Respond, Truth, Key, Page
<1>4. ASSUME NEW n \in Names, NEW d \in Slots, Swap(n, d) PROVE Truth'
  <2>1. \A g \in Polls : pc[g] \notin {"off", "done"} =>
          slot'[g[2]] = slot[g[2]] \/ g \in disturbed'
    BY <1>4 DEF Swap, Phases, TypeOK, Polls
  <2>2. disturbed \subseteq disturbed'
        /\ UNCHANGED <<pc, stage, ctrls, negatives, pageUnsupported>>
    BY <1>4 DEF Swap
  <2> QED
    BY <2>1, <2>2 DEF Truth, Key, Page
<1>5. ASSUME NEW g \in Polls, PollStep(g) PROVE Truth'
  <2>1. /\ UNCHANGED <<ctrls, slot, disturbed>>
        /\ pc[g] \notin {"off", "done"} /\ pc'[g] # "off"
        /\ \A h \in Polls : h # g => pc'[h] = pc[h] /\ stage'[h] = stage[h]
    BY <1>5, StepShape
  <2>2. \A h \in Polls : pc'[h] \notin {"off", "done"} =>
          slot'[h[2]] = ctrls'[h] \/ h \in disturbed'
    BY <2>1 DEF Truth
  <2>3. \A h \in Polls : h # g => Key(h)' = Key(h) /\ Page(h)' = Page(h)
    BY <2>1 DEF Key, Page
  <2>4. CASE Denied(g)
    <3> DEFINE d == Denial(g)
    <3>1. /\ d.poll = g /\ d.key = Key(g) /\ d.page = Page(g)
          /\ Key(g)' = Key(g) /\ Page(g)' = Page(g)
          /\ negatives' = negatives \cup {d}
      BY <2>1, <2>4 DEF Denied, Denial, Key, Page
    <3>2. Read(g)
      BY <1>5, <2>4 DEF Denied, PollStep, Acquire, EnumerateNamespaces, ReadIdentify,
         Remember, Check, Size, Mark, Record, Log, Clear, Finish
    <3>3. \E a \in {"refused", "foreign"} : Reply(g, Page(g), a)
      BY <2>4, <3>2 DEF Denied, Read, Advance, Fail, Goto, isDeviceError, TypeOK
    <3>4. Verdict[slot[g[2]]][Page(g)] # "data"
      <4>1. Page(g) \in Commands
        BY <2>4, PagesFact DEF Denied, Position, Page
      <4> QED
        BY <3>3, <4>1, ReplyFact
    <3>5. d.poll \in disturbed \/ Verdict[d.key[2]][d.page] # "data"
      BY <2>1, <3>1, <3>4 DEF Truth, Key
    <3>6. UNCHANGED pageUnsupported
      BY <3>2 DEF Read
    <3> HIDE DEF d
    <3>7. \A n \in negatives' :
            n.poll \in disturbed' \/ Verdict[n.key[2]][n.page] # "data"
      BY <2>1, <3>1, <3>5 DEF Truth
    <3>8. \A h \in Polls : pc'[h] = "mark" =>
            \E n \in negatives' : n.poll = h /\ n.key = Key(h)' /\ n.page = Page(h)'
      BY <2>1, <2>3, <3>1 DEF Truth
    <3>9. \A u \in pageUnsupported' :
            \E n \in negatives' : n.key = u[1] /\ n.page = u[2]
      BY <3>1, <3>6 DEF Truth
    <3> QED
      BY <2>2, <3>7, <3>8, <3>9 DEF Truth
  <2>5. CASE ~Denied(g)
    <3>1. UNCHANGED negatives /\ pc'[g] # "mark"
      BY <1>5, <2>5, StepShape DEF Nothing, Unknown, Sized, Marked, Elsewhere
    <3>2. \A u \in pageUnsupported' :
            \E n \in negatives : n.key = u[1] /\ n.page = u[2]
      <4>1. \/ UNCHANGED pageUnsupported
            \/ /\ pc[g] = "mark"
               /\ pageUnsupported' = pageUnsupported \cup {<<Key(g), Page(g)>>}
        BY <1>5 DEF PollStep, Acquire, EnumerateNamespaces, ReadIdentify, Remember,
           Check, Size, Read, Mark, markPageUnsupported, Record, Log, Clear, Finish
      <4> QED
        BY <4>1 DEF Truth
    <3> QED
      BY <2>1, <2>2, <2>3, <3>1, <3>2 DEF Truth
  <2> QED
    BY <2>4, <2>5
<1>6. CASE UNCHANGED vars
  BY <1>6 DEF vars, Truth, Key, Page
<1> QED
  BY <1>1, <1>2, <1>3, <1>4, <1>5, <1>6 DEF Next, Quiescent

LEMMA InitTruth == Init => Truth /\ GaugeTruth
<1> SUFFICES ASSUME Init PROVE Truth /\ GaugeTruth
  OBVIOUS
<1>1. Truth
  BY DEF Init, Truth
<1>2. GaugeTruth
  BY DEF Init, GaugeTruth, SupportedGaugeTruthful
<1> QED
  BY <1>1, <1>2

\* Nothing but a controller's own permanent answer makes the exporter remember
\* that it lacks a page: no failure of a read does, in any order of failures,
\* and only an exchange of drives under a running request can attribute the
\* answer to the wrong one.
THEOREM CacheIsTruthful == Spec => []UnsupportedIsTruthful
<1>1. Spec => [](TypeOK /\ Position /\ Phases /\ Truth)
  BY InitPosition, NextPosition, InitRemembered, PhasesStep, InitTruth, TruthStep,
     PTL DEF Spec
<1>2. Truth => UnsupportedIsTruthful
  BY DEF Truth, UnsupportedIsTruthful
<1> QED
  BY <1>1, <1>2, PTL

\* A poll that no exchange disturbed reports what the drive it names serves.
LEMMA Reports ==
  ASSUME TypeOK, Position, Truth, NEW g \in Polls, PollStep(g), disturbed = {}
  PROVE  \/ UNCHANGED supported
         \/ \E v \in {"no", "yes"} :
              /\ Page(g) \in Pages
              /\ supported' = [supported EXCEPT ![g][Page(g)] = v]
              /\ v = "no"  => Verdict[ctrls[g]][Page(g)] # "data"
              /\ v = "yes" => Verdict[ctrls[g]][Page(g)] # "refused"
<1> USE DEF machine, locals, scrapeState, responses, history
<1>1. pc[g] \in {"check", "read", "mark"} => Page(g) \in Pages
  BY PagesFact DEF Position, Page
<1>2. pc[g] \notin {"off", "done"} => slot[g[2]] = ctrls[g]
  BY DEF Truth
<1>3. CASE Check(g)
  <2>1. CASE UNCHANGED supported
    BY <2>1
  <2>2. CASE pageKnownUnsupported(g) /\ reportPage(g, "no")
    <3>1. PICK n \in negatives : n.key = Key(g) /\ n.page = Page(g)
      BY <2>2 DEF pageKnownUnsupported, Truth
    <3>2. Verdict[ctrls[g]][Page(g)] # "data"
      BY <3>1 DEF Truth, Key
    <3> QED
      BY <1>1, <1>3, <2>2, <3>2 DEF Check, reportPage
  <2> QED
    BY <1>3, <2>1, <2>2 DEF Check
<1>4. CASE Read(g)
  <2>1. PICK a \in Answers :
          /\ Reply(g, Page(g), a)
          /\ \/ UNCHANGED supported
             \/ a \in {"data", "short"} /\ reportPage(g, "yes")
    BY <1>4 DEF Read
  <2>2. pc[g] = "read" /\ Page(g) \in Pages
    BY <1>1, <1>4 DEF Read
  <2>3. ASSUME a \in {"data", "short"} PROVE Verdict[slot[g[2]]][Page(g)] # "refused"
    <3>1. a = "data" => a = Verdict[slot[g[2]]][Page(g)]
      BY <2>1, <2>2, PagesFact, ReplyFact
    <3>2. a = "short" => Verdict[slot[g[2]]][Page(g)] # "refused"
      BY <2>1 DEF Reply
    <3> QED
      BY <2>3, <3>1, <3>2
  <2> QED
    BY <1>2, <2>1, <2>2, <2>3 DEF reportPage
<1>5. CASE Mark(g)
  <2>1. pc[g] = "mark" /\ Page(g) \in Pages /\ reportPage(g, "no")
    BY <1>1, <1>5 DEF Mark
  <2>2. PICK n \in negatives : n.poll = g /\ n.key = Key(g) /\ n.page = Page(g)
    BY <2>1 DEF Truth
  <2>3. Verdict[ctrls[g]][Page(g)] # "data"
    BY <2>2 DEF Truth, Key
  <2> QED
    BY <2>1, <2>3 DEF reportPage
<1>6. CASE ~Check(g) /\ ~Read(g) /\ ~Mark(g)
  BY <1>6 DEF PollStep, Acquire, EnumerateNamespaces, ReadIdentify, Remember, Size,
     Record, Log, Clear, Finish
<1> QED
  BY <1>3, <1>4, <1>5, <1>6

LEMMA GaugeStep ==
  TypeOK /\ Position /\ Truth /\ GaugeTruth /\ [Next]_vars => GaugeTruth'
<1> SUFFICES ASSUME TypeOK, Position, Truth, GaugeTruth, [Next]_vars, ~MidScrapeSwaps
             PROVE  /\ disturbed' = {}
                    /\ \A g \in Polls : pc'[g] = "off" =>
                         \A p \in Pages : supported'[g][p] = "absent"
                    /\ SupportedGaugeTruthful'
  BY DEF GaugeTruth
<1> USE DEF machine, locals, scrapeState, responses, history
<1>1. ASSUME NEW s \in Scrapes, Handle(s)
      PROVE  UNCHANGED <<disturbed, supported>> /\ GaugeTruth'
  <2>1. \A g \in Polls :
          /\ g[1] = s  => pc[g] = "off"
          /\ g[1] # s => ctrls'[g] = ctrls[g]
          /\ pc'[g] = "off" => pc[g] = "off"
    BY <1>1 DEF Handle, Position, TypeOK
  <2>2. UNCHANGED <<disturbed, supported>>
    BY <1>1 DEF Handle
  <2> QED
    BY <2>1, <2>2 DEF GaugeTruth, SupportedGaugeTruthful
<1>2. ASSUME NEW s \in Scrapes, EnumerationFails(s) PROVE GaugeTruth'
  BY <1>2 DEF EnumerationFails, GaugeTruth, SupportedGaugeTruthful
<1>3. ASSUME NEW s \in Scrapes, Respond(s) PROVE GaugeTruth'
  BY <1>3 DEF Respond, GaugeTruth, SupportedGaugeTruthful
<1>4. ASSUME NEW n \in Names, NEW d \in Slots, Swap(n, d) PROVE GaugeTruth'
  <2>1. disturbed' = {} /\ UNCHANGED <<pc, supported, ctrls>>
    BY <1>4 DEF Swap, GaugeTruth, Polls
  <2> QED
    BY <2>1 DEF GaugeTruth, SupportedGaugeTruthful
<1>5. ASSUME NEW g \in Polls, PollStep(g) PROVE GaugeTruth'
  <2>1. /\ disturbed' = {} /\ disturbed = {} /\ UNCHANGED ctrls
        /\ pc[g] # "off" /\ pc'[g] # "off"
        /\ \A h \in Polls : h # g => pc'[h] = pc[h]
    BY <1>5, StepShape DEF GaugeTruth
  <2>2. CASE UNCHANGED supported
    BY <2>1, <2>2 DEF GaugeTruth, SupportedGaugeTruthful
  <2>3. CASE ~UNCHANGED supported
    <3>1. PICK v \in {"no", "yes"} :
            /\ Page(g) \in Pages
            /\ supported' = [supported EXCEPT ![g][Page(g)] = v]
            /\ v = "no"  => Verdict[ctrls[g]][Page(g)] # "data"
            /\ v = "yes" => Verdict[ctrls[g]][Page(g)] # "refused"
      BY <1>5, <2>1, <2>3, Reports
    <3>2. \A h \in Polls : h # g => supported'[h] = supported[h]
      BY <3>1 DEF TypeOK
    <3>3. \A p \in Pages :
            supported'[g][p] = IF p = Page(g) THEN v ELSE supported[g][p]
      BY <3>1 DEF TypeOK
    <3> QED
      BY <2>1, <3>1, <3>2, <3>3 DEF GaugeTruth, SupportedGaugeTruthful
  <2> QED
    BY <2>2, <2>3
<1>6. CASE UNCHANGED vars
  BY <1>6 DEF vars, GaugeTruth, SupportedGaugeTruthful
<1> QED
  BY <1>1, <1>2, <1>3, <1>4, <1>5, <1>6 DEF Next, Quiescent, GaugeTruth

\* When drives are exchanged only between requests, nvme_logpage_supported
\* never says of a controller that it lacks a page it serves, nor that it has
\* one it refuses: whatever the cache holds of the drives that were in the
\* slot before.
THEOREM GaugeIsTruthful == Spec => [](~MidScrapeSwaps => SupportedGaugeTruthful)
<1>1. Spec => [](TypeOK /\ Position /\ Phases /\ Truth /\ GaugeTruth)
  BY InitPosition, NextPosition, InitRemembered, PhasesStep, InitTruth, TruthStep,
     GaugeStep, PTL DEF Spec
<1>2. GaugeTruth => (~MidScrapeSwaps => SupportedGaugeTruthful)
  BY DEF GaugeTruth
<1> QED
  BY <1>1, <1>2, PTL

-----------------------------------------------------------------------------
(* Counters.                                                               *)

\* An answered request saw no more than has been counted.
Counted ==
  /\ \A s \in Scrapes, k \in ErrKeys :
       request[s] = "answered" => exposed[s][k] <= errCounts[k]
  /\ CountersMonotoneForScraper

LEMMA CountsRise == TypeOK /\ Position /\ [Next]_vars =>
  \A k \in ErrKeys : errCounts'[k] >= errCounts[k]
<1> SUFFICES ASSUME TypeOK, Position, [Next]_vars, NEW k \in ErrKeys
             PROVE  errCounts'[k] >= errCounts[k]
  OBVIOUS
<1>t. errCounts \in [ErrKeys -> Nat]
  BY DEF TypeOK
<1>1. \/ UNCHANGED errCounts
      \/ \E l : errCounts' = [errCounts EXCEPT ![l] = @ + 1]
  BY DEF Next, PollStep, Quiescent, vars, machine, locals, scrapeState, responses,
     history, Handle, EnumerationFails, Respond, Swap, Acquire, EnumerateNamespaces,
     ReadIdentify, Remember, Check, Size, Read, Mark, Record, recordError, Log,
     Clear, clearLogged, Finish
<1> QED
  BY <1>t, <1>1

LEMMA CountedStep ==
  TypeOK /\ Position /\ Phases /\ Counted /\ [Next]_vars => Counted'
<1> SUFFICES ASSUME TypeOK, Position, Phases, Counted, [Next]_vars PROVE Counted'
  OBVIOUS
<1> USE DEF machine, locals, scrapeState, responses, history
<1>t. /\ errCounts \in [ErrKeys -> Nat] /\ exposed \in [Scrapes -> [ErrKeys -> Nat]]
      /\ errCounts' \in [ErrKeys -> Nat] /\ exposed' \in [Scrapes -> [ErrKeys -> Nat]]
      /\ \A k \in ErrKeys : errCounts'[k] >= errCounts[k]
  BY CountsRise, NextPosition DEF TypeOK
<1>1. ASSUME NEW s \in Scrapes, Respond(s) PROVE Counted'
  <2>1. /\ exposed'[s] = errCounts /\ UNCHANGED <<errCounts, earlier>>
        /\ \A t \in Scrapes : t # s => exposed'[t] = exposed[t] /\ request'[t] = request[t]
        /\ request[s] = "collecting"
    BY <1>1, <1>t DEF Respond, TypeOK
  <2>2. \A t \in Scrapes : s \notin earlier[t]
    BY <2>1 DEF Phases
  <2>3. \A t \in Scrapes, k \in ErrKeys : t \in earlier[s] => exposed[t][k] <= errCounts[k]
    BY DEF Counted, Phases
  <2>4. \A t \in Scrapes, k \in ErrKeys :
          request'[t] = "answered" => exposed'[t][k] <= errCounts'[k]
    BY <1>t, <2>1 DEF Counted
  <2>5. CountersMonotoneForScraper'
    BY <1>t, <2>1, <2>2, <2>3 DEF Counted, CountersMonotoneForScraper
  <2> QED
    BY <2>4, <2>5 DEF Counted
<1>2. ASSUME UNCHANGED exposed,
             \A s \in Scrapes : request'[s] = "answered" =>
               request[s] = "answered" /\ earlier'[s] = earlier[s]
      PROVE  Counted'
  <2>1. \A s \in Scrapes, k \in ErrKeys :
          request'[s] = "answered" => exposed'[s][k] <= errCounts'[k]
    <3> SUFFICES ASSUME NEW s \in Scrapes, NEW k \in ErrKeys, request'[s] = "answered"
                 PROVE  exposed[s][k] <= errCounts'[k]
      BY <1>2
    <3>1. exposed[s][k] <= errCounts[k]
      BY <1>2 DEF Counted
    <3>2. exposed[s][k] \in Nat /\ errCounts[k] \in Nat /\ errCounts'[k] \in Nat
      BY <1>t
    <3> QED
      BY <1>t, <3>1, <3>2
  <2> QED
    BY <1>2, <2>1 DEF Counted, CountersMonotoneForScraper
<1>3. ASSUME NEW s \in Scrapes, Handle(s) \/ EnumerationFails(s)
      PROVE  /\ UNCHANGED exposed
             /\ \A t \in Scrapes : request'[t] = "answered" =>
                  request[t] = "answered" /\ earlier'[t] = earlier[t]
  BY <1>3 DEF Handle, EnumerationFails, TypeOK
<1>4. ASSUME NEW g \in Polls, PollStep(g) PROVE UNCHANGED <<exposed, request, earlier>>
  BY <1>4, StepShape DEF PollStep, Acquire, EnumerateNamespaces,
     ReadIdentify, Remember, Check, Size, Read, Mark, Record, Log, Clear, Finish
<1>5. ASSUME NEW n \in Names, NEW d \in Slots, Swap(n, d)
      PROVE  UNCHANGED <<exposed, request, earlier>>
  BY <1>5 DEF Swap
<1>6. CASE UNCHANGED vars
  BY <1>2, <1>6 DEF vars
<1> QED
  BY <1>1, <1>2, <1>3, <1>4, <1>5, <1>6 DEF Next, Quiescent

\* Whatever other requests do meanwhile, a scraper that comes back after an
\* answer finds every counter at least where it was.
THEOREM ScrapersSeeCountersRise == Spec => []CountersMonotoneForScraper
<1>1. Init => Counted
  BY DEF Init, Counted, CountersMonotoneForScraper
<1>2. Spec => [](TypeOK /\ Position /\ Phases /\ Counted)
  BY <1>1, InitPosition, NextPosition, InitRemembered, PhasesStep, CountedStep, PTL DEF Spec
<1>3. Counted => CountersMonotoneForScraper
  BY DEF Counted
<1> QED
  BY <1>2, <1>3, PTL

-----------------------------------------------------------------------------
(* Exporter implements Ledger.                                             *)

Moved(g) == \A h \in Polls : h # g =>
  pc'[h] = pc[h] /\ stage'[h] = stage[h] /\ reason'[h] = reason[h]

\* Steps of a poll that are none of Ledger's.
Aside(g) ==
  /\ pc[g] # "log" /\ pc'[g] # "log"
  /\ UNCHANGED <<errCounts, logged, lines, exposed>>

LEMMA StepBook ==
  ASSUME TypeOK, Position, NEW g \in Polls, PollStep(g)
  PROVE  /\ Moved(g)
         /\ stage[g] \in Nat /\ stage'[g] \in Nat /\ stage'[g] >= stage[g]
         /\ \/ Aside(g)
            \/ Record(g) /\ UNCHANGED <<lines, exposed>>
            \/ Log(g) /\ UNCHANGED <<errCounts, logged, exposed>> /\ stage'[g] > stage[g]
            \/ Clear(g) /\ UNCHANGED <<errCounts, lines, exposed>> /\ pc'[g] # "log"
<1> USE DEF machine, locals, scrapeState, responses, history, Moved
<1> /\ pc \in [Polls -> Labels] /\ stage \in [Polls -> 0..Len(PageOrder) + 1]
    /\ reason \in [Polls -> Reasons \cup {"none"}] /\ Len(PageOrder) \in Nat
  BY PagesFact DEF TypeOK
<1>1. CASE Acquire(g)
  BY <1>1 DEF Acquire, Goto, Aside
<1>2. CASE EnumerateNamespaces(g)
  BY <1>2 DEF EnumerateNamespaces, Goto, Aside
<1>3. CASE ReadIdentify(g)
  BY <1>3 DEF ReadIdentify, Advance, Fail, Goto, Aside
<1>4. CASE Remember(g)
  BY <1>4 DEF Remember, Advance, Goto, Aside
<1>5. CASE Check(g)
  BY <1>5 DEF Check, Advance, Goto, Aside
<1>6. CASE Size(g)
  BY <1>6 DEF Size, Goto, Aside
<1>7. CASE Read(g)
  BY <1>7 DEF Read, Advance, Fail, Goto, Aside
<1>8. CASE Mark(g)
  BY <1>8 DEF Mark, Advance, Goto, Aside
<1>9. CASE Record(g)
  BY <1>9 DEF Record, Advance, Goto
<1>10. CASE Log(g)
  BY <1>10 DEF Log, Advance, Goto
<1>11. CASE Clear(g)
  BY <1>11 DEF Clear, clearLogged, Goto
<1>12. CASE Finish(g)
  BY <1>12 DEF Finish, Goto, Aside
<1> QED
  BY <1>1, <1>2, <1>3, <1>4, <1>5, <1>6, <1>7, <1>8, <1>9, <1>10, <1>11, <1>12
     DEF PollStep

\* A poll is past the collectors whose failures it logged.
LinesPast ==
  \A f \in lines : pc[f.poll] # "off" /\ stage[f.poll] > f.stage

LEMMA LinesPastStep ==
  TypeOK /\ Position /\ LinesPast /\ [Next]_vars => LinesPast'
<1> SUFFICES ASSUME TypeOK, Position, LinesPast, [Next]_vars PROVE LinesPast'
  OBVIOUS
<1> USE DEF machine, locals, scrapeState, responses, history
<1>n. \A f \in lines : f.poll \in Polls /\ f.stage \in Nat
  BY PagesFact DEF TypeOK, Failures
<1>1. ASSUME NEW s \in Scrapes, Handle(s) PROVE LinesPast'
  <2>1. \A g \in Polls : pc[g] # "off" => pc'[g] # "off"
    BY <1>1 DEF Handle, TypeOK
  <2> QED
    BY <1>1, <1>n, <2>1 DEF Handle, LinesPast
<1>2. ASSUME NEW s \in Scrapes, EnumerationFails(s) PROVE LinesPast'
  BY <1>2 DEF EnumerationFails, LinesPast
<1>3. ASSUME NEW s \in Scrapes, Respond(s) PROVE LinesPast'
  BY <1>3 DEF Respond, LinesPast
<1>4. ASSUME NEW n \in Names, NEW d \in Slots, Swap(n, d) PROVE LinesPast'
  BY <1>4 DEF Swap, LinesPast
<1>5. ASSUME NEW g \in Polls, PollStep(g) PROVE LinesPast'
  <2>1. /\ Moved(g) /\ stage[g] \in Nat /\ stage'[g] \in Nat /\ stage'[g] >= stage[g]
        /\ \/ UNCHANGED lines
           \/ lines' = lines \cup {Failure(g, reason[g])} /\ stage'[g] > stage[g]
    BY <1>5, StepBook DEF Aside, Log
  <2>2. pc'[g] # "off"
    BY <1>5, StepShape
  <2>3. \A f \in lines : pc'[f.poll] # "off" /\ stage'[f.poll] > f.stage
    BY <1>n, <2>1, <2>2 DEF LinesPast, Moved
  <2> QED
    BY <2>1, <2>2, <2>3 DEF LinesPast, Failure
<1>6. CASE UNCHANGED vars
  BY <1>6 DEF vars, LinesPast
<1> QED
  BY <1>1, <1>2, <1>3, <1>4, <1>5, <1>6 DEF Next, Quiescent

\* What is owed but not written, before and after a step of one poll.
LEMMA PendingOfOne ==
  ASSUME NEW g \in Polls, Moved(g), UNCHANGED ctrls
  PROVE  /\ pc[g] # "log" /\ pc'[g] # "log" => UNCHANGED Pending("log")
         /\ pc[g] # "log" /\ pc'[g] = "log" /\ UNCHANGED <<stage, reason>> =>
              Pending("log")' = Pending("log") \cup {Failure(g, reason[g])}
         /\ pc[g] = "log" /\ pc'[g] # "log" =>
              /\ Pending("log") = Pending("log")' \cup {Failure(g, reason[g])}
              /\ Failure(g, reason[g]) \in Pending("log")
<1>1. \A h \in Polls : h # g => Failure(h, reason[h])' = Failure(h, reason[h])
  BY DEF Moved, Failure, Key
<1>2. UNCHANGED <<stage, reason>> => Failure(g, reason[g])' = Failure(g, reason[g])
  BY DEF Failure, Key
<1> QED
  BY <1>1, <1>2 DEF Moved, Pending

LEMMA InitBook == Init => Book!Init /\ LinesPast
BY DEF Init, Book!Init, LinesPast, Pending

LEMMA CounterOfFailure ==
  /\ [f \in Failures |-> ErrKeyOf(f)] \in [Failures -> ErrKeys]
  /\ \A f \in Failures : [x \in Failures |-> ErrKeyOf(x)][f] = ErrKeyOf(f)
BY DEF Failures, ErrKeyOf, ErrKeys

LEMMA StepOfBook ==
  TypeOK /\ Position /\ Phases /\ LinesPast /\ [Next]_vars => [Book!Next]_(Book!vars)
<1> SUFFICES ASSUME TypeOK, Position, Phases, LinesPast, [Next]_vars
             PROVE  Book!Next \/ UNCHANGED Book!vars
  OBVIOUS
<1> USE DEF machine, locals, scrapeState, responses, history
<1>1. ASSUME NEW s \in Scrapes, Handle(s) PROVE Book!Arrive(s)
  <2>1. \A g \in Polls : g[1] = s => pc[g] # "log" /\ pc'[g] # "log"
    BY <1>1 DEF Handle, Position
  <2>2. \A g \in Polls : g[1] # s =>
          pc'[g] = pc[g] /\ Failure(g, reason[g])' = Failure(g, reason[g])
    BY <1>1 DEF Handle, Failure, Key
  <2>3. UNCHANGED Pending("log")
    BY <2>1, <2>2 DEF Pending
  <2> QED
    BY <1>1, <2>3 DEF Handle, TypeOK, Book!Arrive
<1>2. ASSUME NEW s \in Scrapes, EnumerationFails(s) PROVE UNCHANGED Book!vars
  <2>1. UNCHANGED Pending("log")
    BY <1>2 DEF EnumerationFails, Pending, Failure, Key
  <2> QED
    BY <1>2, <2>1 DEF EnumerationFails, TypeOK, Book!vars
<1>3. ASSUME NEW s \in Scrapes, Respond(s) PROVE Book!Answer(s)
  <2>1. UNCHANGED Pending("log")
    BY <1>3 DEF Respond, Pending, Failure, Key
  <2> QED
    BY <1>3, <2>1 DEF Respond, TypeOK, Book!Answer
<1>4. ASSUME NEW n \in Names, NEW d \in Slots, Swap(n, d) PROVE UNCHANGED Book!vars
  <2>1. UNCHANGED Pending("log")
    BY <1>4 DEF Swap, Pending, Failure, Key
  <2> QED
    BY <1>4, <2>1 DEF Swap, Book!vars
<1>5. ASSUME NEW g \in Polls, PollStep(g) PROVE Book!Next \/ UNCHANGED Book!vars
  <2> DEFINE o == Failure(g, reason[g])
  <2>1. Moved(g) /\ UNCHANGED <<request, ctrls>>
    BY <1>5, StepBook, StepShape
  <2>2. g[1] \in Scrapes /\ request[g[1]] = "collecting"
    BY <1>5, StepShape DEF Phases, Polls
  <2>3. \E s \in Scrapes : request[s] = "collecting"
    BY <2>2
  <2>4. CASE Aside(g)
    <3>1. UNCHANGED Pending("log")
      BY <2>1, <2>4, PendingOfOne DEF Aside
    <3> QED
      BY <2>1, <2>4, <3>1 DEF Aside, Book!vars
  <2>5. CASE Record(g) /\ UNCHANGED <<lines, exposed>>
    <3>1. /\ pc[g] = "record" /\ reason[g] \in Reasons
          /\ stage[g] \in 0..Len(PageOrder) /\ ctrls[g] \in Drives
      BY <2>5 DEF Record, Position
    <3>2. o \in Failures /\ ErrKeyOf(o) = <<Key(g), reason[g]>> /\ o.poll = g
          /\ o.stage = stage[g]
      BY <3>1 DEF Failure, Failures, Key, Keys, Polls, ErrKeyOf
    <3>3. o \notin lines \cup Pending("log")
      <4>1. o \notin lines
        BY <3>1, <3>2, PagesFact DEF LinesPast
      <4>2. o \notin Pending("log")
        BY <3>1, <3>2 DEF Pending, Failure
      <4> QED
        BY <4>1, <4>2
    <3>4. /\ errCounts' = [errCounts EXCEPT ![ErrKeyOf(o)] = @ + 1]
          /\ logged' = logged \cup {ErrKeyOf(o)}
      BY <2>5, <3>2 DEF Record, recordError
    <3>5. (lines \cup Pending("log"))' =
            IF ErrKeyOf(o) \in logged THEN lines \cup Pending("log")
            ELSE (lines \cup Pending("log")) \cup {o}
      <4>1. CASE ErrKeyOf(o) \in logged
        <5>1. pc'[g] # "log"
          BY <2>5, <3>2, <4>1 DEF Record, Advance, Goto, TypeOK
        <5>2. UNCHANGED Pending("log")
          BY <2>1, <3>1, <5>1, PendingOfOne
        <5> QED
          BY <2>5, <4>1, <5>2
      <4>2. CASE ErrKeyOf(o) \notin logged
        <5>1. pc'[g] = "log" /\ UNCHANGED <<stage, reason>>
          BY <2>5, <3>2, <4>2 DEF Record, Goto, TypeOK
        <5>2. Pending("log")' = Pending("log") \cup {o}
          BY <2>1, <3>1, <5>1, PendingOfOne
        <5> QED
          BY <2>5, <4>2, <5>2
      <4> QED
        BY <4>1, <4>2
    <3> HIDE DEF o
    <3>6. [x \in Failures |-> ErrKeyOf(x)][o] = ErrKeyOf(o)
      BY <3>2, CounterOfFailure
    <3>7. Book!Fail(ErrKeyOf(o), o)
      BY <2>1, <2>3, <2>5, <3>3, <3>4, <3>5, <3>6 DEF Book!Fail
    <3> QED
      BY <3>2, <3>6, <3>7 DEF Book!Next
  <2>6. CASE Log(g) /\ UNCHANGED <<errCounts, logged, exposed>> /\ stage'[g] > stage[g]
    <3>1. /\ pc[g] = "log" /\ reason[g] \in Reasons
          /\ stage[g] \in 0..Len(PageOrder) /\ ctrls[g] \in Drives
          /\ lines' = lines \cup {o}
      BY <2>6 DEF Log, Position
    <3>2. o \in Failures /\ o.poll = g /\ o.stage = stage[g]
      BY <3>1 DEF Failure, Failures, Key, Keys, Polls
    <3>3. o \notin lines
      BY <3>1, <3>2, PagesFact DEF LinesPast
    <3>4. pc'[g] # "log"
      BY <2>6 DEF Log, Advance, Goto, TypeOK
    <3>5. Pending("log") = Pending("log")' \cup {o} /\ o \in Pending("log")
      BY <2>1, <3>1, <3>4, PendingOfOne
    <3>6. Book!Write(o)
      BY <2>1, <2>3, <2>6, <3>1, <3>3, <3>5 DEF Book!Write
    <3> QED
      BY <3>2, <3>6 DEF Book!Next
  <2>7. CASE Clear(g) /\ UNCHANGED <<errCounts, lines, exposed>> /\ pc'[g] # "log"
    <3> DEFINE k == <<Key(g), "open">>
    <3>1. pc[g] = "clear" /\ ctrls[g] \in Drives
          /\ logged' = {l \in logged : l[1] # Key(g)}
      BY <2>7 DEF Clear, clearLogged, Position
    <3>2. k \in ErrKeys /\ k[1] = Key(g)
      BY <3>1 DEF ErrKeys, Key, Keys, Polls, Reasons
    <3>3. UNCHANGED Pending("log")
      BY <2>1, <2>7, <3>1, PendingOfOne
    <3>4. Book!Recover(k[1])
      BY <2>1, <2>3, <2>7, <3>1, <3>2, <3>3 DEF Book!Recover
    <3> QED
      BY <3>2, <3>4 DEF Book!Next
  <2> QED
    BY <1>5, <2>4, <2>5, <2>6, <2>7, StepBook
<1>6. CASE UNCHANGED vars
  BY <1>6 DEF vars, Book!vars, Pending, Failure, Key
<1> QED
  BY <1>1, <1>2, <1>3, <1>4, <1>5, <1>6 DEF Next, Quiescent, Book!Next

\* Every behaviour of the goroutines is one of Ledger: the counting and the
\* decision to log are one step, each answer shows one moment, and no line is
\* written twice or without having been owed.
THEOREM ExporterImplementsLedger == Spec => ImplementsLedger
<1>1. Spec => [](TypeOK /\ Position /\ Phases /\ LinesPast)
  BY InitPosition, NextPosition, InitRemembered, PhasesStep, InitBook, LinesPastStep,
     PTL DEF Spec
<1>2. Init => Book!Init
  BY InitBook
<1> QED
  BY <1>1, <1>2, StepOfBook, PTL DEF Spec, ImplementsLedger, Book!Spec

Facts == INSTANCE LedgerProofs WITH
  Readers <- Scrapes, Counters <- ErrKeys, Occurrences <- Failures,
  CounterOf <- [f \in Failures |-> ErrKeyOf(f)],
  waiting <- {s \in Scrapes : request[s] = "collecting"},
  answered <- {s \in Scrapes : request[s] = "answered"},
  count <- errCounts, failing <- logged,
  owed <- lines \cup Pending("log"), written <- lines, shown <- exposed

\* So what follows from Ledger holds of the exporter.
THEOREM LedgerOfExporter == Spec => []Book!LedgerInv
<1>1. Facts!Spec => []Facts!LedgerInv
  BY CounterOfFailure, Facts!LedgerHolds
<1>2. Book!Init => Facts!Init
  BY DEF Book!Init, Facts!Init
<1>3. [Book!Next]_(Book!vars) => [Facts!Next]_(Facts!vars)
  BY DEF Book!Next, Facts!Next, Book!vars, Facts!vars, Book!Arrive, Facts!Arrive,
     Book!Answer, Facts!Answer, Book!Fail, Facts!Fail, Book!Write, Facts!Write,
     Book!Recover, Facts!Recover
<1>4. Facts!LedgerInv => Book!LedgerInv
  BY DEF Book!LedgerInv, Facts!LedgerInv, Book!TypeOK, Facts!TypeOK
<1>5. Book!Spec => []Book!LedgerInv
  BY <1>1, <1>2, <1>3, <1>4, PTL DEF Book!Spec, Facts!Spec
<1> QED
  BY <1>5, ExporterImplementsLedger DEF ImplementsLedger

=============================================================================
