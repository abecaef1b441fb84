--------------------------- MODULE InventoryProofs ---------------------------
(***************************************************************************)
(* What holds of Inventory for every host, every change of it and every    *)
(* read that fails.                                                        *)
(***************************************************************************)
EXTENDS Inventory, Integers, FiniteSetTheorems, WellFoundedInduction, TLAPS

Running == {"off", "waiting", "list", "size", "sector", "identify", "check", "read",
            "label", "done"}

LEMMA InitTypes == Init => TypeOK
<1> SUFFICES ASSUME Init PROVE TypeOK
  OBVIOUS
<1> USE InventoryAssumption DEF Init
<1>1. NewPoll \in Poll
  BY DEF NewPoll, Poll, Serials
<1>2. attr \in [Names -> [Attributes -> Fields]]
  BY DEF Nothing, Fields
<1> QED
  BY <1>1, <1>2 DEF TypeOK, Attributes

\* A step of the host.  A block device leaves its array before it joins another.
LEMMA HostTypes ==
  ASSUME TypeOK, HostStep
  PROVE  \E h \in Hosts :
           /\ Change(h)
           /\ \A b \in Blocks : NoArray \in {h.member[b], host.member[b]}
                                \/ h.member[b] = host.member[b]
<1> USE InventoryAssumption
<1>h. /\ host \in Hosts
      /\ host = [slot |-> host.slot, state |-> host.state, attached |-> host.attached,
                 serves |-> host.serves, member |-> host.member]
      /\ host.slot \in [Names -> Drives \cup {None}] /\ host.state \in [Names -> States]
      /\ host.attached \in [Drives -> SUBSET NSIDs] /\ host.serves \subseteq Drives
      /\ host.member \in [Blocks -> Arrays \cup {NoArray}]
  BY DEF TypeOK, Hosts
<1>1. ASSUME NEW n \in Names, NEW d \in Drives \cup {None}, Swap(n, d)
      PROVE  /\ [host EXCEPT !.slot[n] = d, !.state[n] = "live"] \in Hosts
             /\ [host EXCEPT !.slot[n] = d, !.state[n] = "live"].member = host.member
  BY <1>h, <1>1 DEF Hosts
<1>2. ASSUME NEW n \in Names, NEW s \in States
      PROVE  /\ [host EXCEPT !.state[n] = s] \in Hosts
             /\ [host EXCEPT !.state[n] = s].member = host.member
  BY <1>h, <1>2 DEF Hosts
<1>3. ASSUME NEW d \in Drives
      PROVE  /\ [host EXCEPT !.serves = @ \cup {d}] \in Hosts
             /\ [host EXCEPT !.serves = @ \cup {d}].member = host.member
             /\ \A i \in NSIDs :
                  /\ [host EXCEPT !.attached[d] = @ \cup {i}] \in Hosts
                  /\ [host EXCEPT !.attached[d] = @ \cup {i}].member = host.member
                  /\ [host EXCEPT !.attached[d] = @ \ {i}] \in Hosts
                  /\ [host EXCEPT !.attached[d] = @ \ {i}].member = host.member
  BY <1>h, <1>3 DEF Hosts
<1>4. ASSUME NEW b \in Blocks, NEW a \in Arrays \cup {NoArray}
      PROVE  /\ [host EXCEPT !.member[b] = a] \in Hosts
             /\ \A c \in Blocks : [host EXCEPT !.member[b] = a].member[c] =
                                  IF c = b THEN a ELSE host.member[c]
  BY <1>h, <1>4 DEF Hosts
<1> DEFINE Goal ==
      \E h \in Hosts :
        /\ Change(h)
        /\ \A b \in Blocks : NoArray \in {h.member[b], host.member[b]}
                             \/ h.member[b] = host.member[b]
<1>5. ASSUME NEW h \in Hosts, Change(h), h.member = host.member PROVE Goal
  BY <1>5
<1> HIDE DEF Goal
<1>6. ASSUME NEW n \in Names, NEW d \in Drives \cup {None}, Swap(n, d) PROVE Goal
  BY <1>1, <1>5, <1>6 DEF Swap
<1>7. ASSUME NEW n \in Names, NEW s \in States, SetState(n, s) PROVE Goal
  BY <1>2, <1>5, <1>7 DEF SetState
<1>8. ASSUME NEW d \in Drives, Update(d) PROVE Goal
  BY <1>3, <1>5, <1>8 DEF Update
<1>9. ASSUME NEW d \in Drives, NEW i \in NSIDs, Attach(d, i) \/ Detach(d, i) PROVE Goal
  BY <1>3, <1>5, <1>9 DEF Attach, Detach
<1>10. ASSUME NEW b \in Blocks, Leave(b) PROVE Goal
  <2> DEFINE h == [host EXCEPT !.member[b] = NoArray]
  <2>1. h \in Hosts /\ \A c \in Blocks : h.member[c] = IF c = b THEN NoArray ELSE host.member[c]
    BY <1>4
  <2>2. Change(h)
    BY <1>10 DEF Leave
  <2> HIDE DEF h
  <2> QED
    BY <2>1, <2>2 DEF Goal
<1>11. ASSUME NEW b \in Blocks, NEW a \in Arrays, Join(b, a) PROVE Goal
  <2> DEFINE h == [host EXCEPT !.member[b] = a]
  <2>1. h \in Hosts /\ \A c \in Blocks : h.member[c] = IF c = b THEN a ELSE host.member[c]
    BY <1>4
  <2>2. Change(h) /\ host.member[b] = NoArray
    BY <1>11 DEF Join
  <2> HIDE DEF h
  <2> QED
    BY <2>1, <2>2 DEF Goal
<1> QED
  BY <1>6, <1>7, <1>8, <1>9, <1>10, <1>11 DEF HostStep, Goal

\* What a poll holds keeps its type when one part of it changes.
LEMMA PollTypes ==
  ASSUME NEW p \in Poll
  PROVE  /\ p.nss \subseteq NSIDs /\ p.unsized \subseteq NSIDs
         /\ p.size \in [NSIDs -> Serials] /\ p.sector \in [NSIDs -> Serials]
         /\ \A S \in SUBSET NSIDs :
              [p EXCEPT !.listing = TRUE, !.nss = S, !.unsized = S] \in Poll
         /\ \A i \in NSIDs, v \in Serials :
              /\ [p EXCEPT !.size[i] = v] \in Poll
              /\ [p EXCEPT !.sector[i] = v, !.unsized = @ \ {i}] \in Poll
         /\ \A v \in Serials : [p EXCEPT !.wire = v] \in Poll
         /\ \A v \in {"no", "yes"} : [p EXCEPT !.supported = v] \in Poll
         /\ \A i \in NSIDs \cup {0} : [p EXCEPT !.used = i] \in Poll
<1>1. /\ p.nss \subseteq NSIDs /\ p.unsized \subseteq NSIDs /\ p.listing \in BOOLEAN
      /\ p.size \in [NSIDs -> Serials] /\ p.sector \in [NSIDs -> Serials]
      /\ p.wire \in Serials /\ p.supported \in {"absent", "no", "yes"}
      /\ p.used \in NSIDs \cup {0}
      /\ p = [nss |-> p.nss, listing |-> p.listing, unsized |-> p.unsized,
              size |-> p.size, sector |-> p.sector, wire |-> p.wire,
              supported |-> p.supported, used |-> p.used]
  BY DEF Poll
<1>2. ASSUME NEW S \in SUBSET NSIDs
      PROVE  [p EXCEPT !.listing = TRUE, !.nss = S, !.unsized = S] \in Poll
  BY <1>1 DEF Poll
<1>3. ASSUME NEW i \in NSIDs, NEW v \in Serials
      PROVE  /\ [p EXCEPT !.size[i] = v] \in Poll
             /\ [p EXCEPT !.sector[i] = v, !.unsized = @ \ {i}] \in Poll
  BY <1>1 DEF Poll
<1>4. ASSUME NEW v \in Serials PROVE [p EXCEPT !.wire = v] \in Poll
  BY <1>1 DEF Poll
<1>5. ASSUME NEW v \in {"no", "yes"} PROVE [p EXCEPT !.supported = v] \in Poll
  BY <1>1 DEF Poll
<1>6. ASSUME NEW i \in NSIDs \cup {0} PROVE [p EXCEPT !.used = i] \in Poll
  BY <1>1 DEF Poll
<1> QED
  BY <1>1, <1>2, <1>3, <1>4, <1>5, <1>6

LEMMA Supports ==
  ASSUME TypeOK, NEW n \in Names, NEW v \in {"no", "yes"},
         poll' = [poll EXCEPT ![n].supported = v]
  PROVE  poll' \in [Names -> Poll]
<1>1. poll[n] \in Poll /\ poll \in [Names -> Poll]
  BY DEF TypeOK
<1>2. [poll[n] EXCEPT !.supported = v] \in Poll
  BY <1>1, PollTypes
<1> QED
  BY <1>1, <1>2

LEMMA NextTypes == TypeOK /\ [Next]_vars => TypeOK'
<1> SUFFICES ASSUME TypeOK, [Next]_vars PROVE TypeOK'
  OBVIOUS
<1> USE InventoryAssumption DEF request, memory
<1>t. /\ troubles \in 0..MaxTroubles
      /\ \A n \in Names : poll[n] \in Poll
      /\ \A n \in Names : host.slot[n] \in Serials /\ host.state[n] \in Fields
  BY DEF TypeOK, Hosts, Serials, Fields
<1>f. (Fault \/ Intact) => troubles' \in 0..MaxTroubles /\ clean' \in BOOLEAN
  <2>1. (Fault \/ Intact) => troubles' \in 0..MaxTroubles
    BY DEF TypeOK, Fault, Intact
  <2>2. (Fault \/ Intact) => clean' \in BOOLEAN
    BY Zenon DEF TypeOK, Fault, Intact
  <2> QED
    BY <2>1, <2>2
<1>1. CASE Handle
  <2>1. NewPoll \in Poll
    BY DEF NewPoll, Poll, Serials
  <2>2. Nothing \in [Names -> [Attributes -> Fields]]
    BY DEF Nothing, Fields
  <2>3. /\ troubles' \in 0..MaxTroubles /\ clean' \in BOOLEAN
        /\ listed' \subseteq Names /\ unread' \subseteq Names
        /\ phase' \in {"attributes", "failed"}
    BY <1>1, <1>f, <1>t DEF Handle, Present, enumerationFails, Fault
  <2>4. poll' \in [Names -> Poll] /\ pc' \in [Names -> {"off"}]
    BY <1>1, <2>1 DEF Handle
  <2>5. past' \subseteq Hosts /\ UNCHANGED <<host, memory>> /\ requests' \in 0..MaxRequests
        /\ next' \in Attributes /\ arrays' \subseteq Arrays
        /\ md' \in [Blocks -> Arrays \cup {NoArray}] /\ attr' = Nothing
    BY <1>1 DEF Handle, emptyMap, TypeOK, Attributes
  <2> QED
    BY <2>2, <2>3, <2>4, <2>5 DEF TypeOK
<1>2. CASE RequestStep
  <2>1. ASSUME NEW n \in Names, ReadAttribute(n) PROVE TypeOK'
    <3>1. PICK v \in Fields : readAttr(n, next, v) /\ attr' = [attr EXCEPT ![n][next] = v]
      BY <2>1 DEF ReadAttribute
    <3>2. attr' \in [Names -> [Attributes -> Fields]]
      BY <3>1 DEF TypeOK
    <3>3. next' \in Attributes
      BY <2>1 DEF ReadAttribute, After, TypeOK, Attributes
    <3>4. unread' \subseteq Names
      BY <2>1 DEF ReadAttribute, TypeOK
    <3> QED
      BY <1>f, <2>1, <3>1, <3>2, <3>3, <3>4 DEF ReadAttribute, readAttr, TypeOK
  <2>2. CASE ListArrays
    <3>1. {host.member[b] : b \in Blocks} \ {NoArray} \subseteq Arrays
      BY DEF TypeOK, Hosts
    <3> QED
      BY <1>f, <2>2, <3>1 DEF ListArrays, TypeOK
  <2>3. CASE StartPolls
    BY <2>3 DEF StartPolls, TypeOK
  <2>4. CASE Respond
    BY <2>4 DEF Respond, TypeOK
  <2>5. ASSUME NEW a \in Arrays, ReadArray(a) PROVE TypeOK'
    BY <1>f, <2>5 DEF ReadArray, TypeOK
  <2> QED
    BY <1>2, <2>1, <2>2, <2>3, <2>4, <2>5 DEF RequestStep
<1>3. ASSUME NEW n \in Names, PollStep(n) PROVE TypeOK'
  <2> USE <1>t DEF Goto
  <2>1. CASE Acquire(n)
    BY <2>1 DEF Acquire, TypeOK
  <2>2. CASE ListNamespaces(n)
    <3>1. NamespacesOf(n) \subseteq NSIDs
      BY DEF NamespacesOf
    <3>2. poll' \in [Names -> Poll]
      <4>1. \/ UNCHANGED poll
            \/ poll' = [poll EXCEPT ![n].listing = TRUE, ![n].nss = NamespacesOf(n),
                                    ![n].unsized = NamespacesOf(n)]
        BY <2>2 DEF ListNamespaces
      <4>2. [poll[n] EXCEPT !.listing = TRUE, !.nss = NamespacesOf(n),
                            !.unsized = NamespacesOf(n)] \in Poll
        BY <3>1, PollTypes
      <4> QED
        BY <4>1, <4>2 DEF TypeOK
    <3> QED
      BY <1>f, <2>2, <3>2 DEF ListNamespaces, TypeOK
  <2>3. CASE ReadSize(n)
    <3>1. PICK i \in NSIDs, v \in Serials :
            readUint(n, i, v) /\ poll' = [poll EXCEPT ![n].size[i] = v]
      BY <2>3 DEF ReadSize
    <3>2. poll' \in [Names -> Poll]
      BY <3>1, PollTypes DEF TypeOK
    <3> QED
      BY <1>f, <2>3, <3>1, <3>2 DEF ReadSize, readUint, TypeOK
  <2>4. CASE ReadSector(n)
    <3>1. PICK i \in NSIDs, v \in Serials :
            /\ readUint(n, i, v)
            /\ poll' = [poll EXCEPT ![n].sector[i] = v, ![n].unsized = @ \ {i}]
            /\ pc' = [pc EXCEPT ![n] = IF poll[n].unsized = {i} THEN "identify" ELSE "size"]
      BY <2>4 DEF ReadSector
    <3>2. poll' \in [Names -> Poll]
      BY <3>1, PollTypes DEF TypeOK
    <3> QED
      BY <1>f, <2>4, <3>1, <3>2 DEF ReadSector, readUint, TypeOK
  <2>5. CASE Identify(n)
    BY <2>5, PollTypes DEF Identify, TypeOK, Serials
  <2>6. CASE Check(n)
    <3>1. \/ UNCHANGED poll
          \/ \E v \in {"no", "yes"} : poll' = [poll EXCEPT ![n].supported = v]
      BY <2>6 DEF Check
    <3>2. poll' \in [Names -> Poll]
      BY <3>1, Supports DEF TypeOK
    <3> QED
      BY <2>6, <3>2 DEF Check, TypeOK
  <2>7. CASE ReadOCP(n)
    <3>1. pageUnsupported' \subseteq Names \X Fields
      BY <2>7 DEF ReadOCP, TypeOK, Key, Attributes
    <3>2. refusals' \subseteq Names \X Fields \X Serials
      BY <2>7 DEF ReadOCP, TypeOK, Refuser, Attributes, Serials
    <3>3. poll' \in [Names -> Poll]
      <4>1. \/ UNCHANGED poll
            \/ \E v \in {"no", "yes"} : poll' = [poll EXCEPT ![n].supported = v]
        BY <2>7 DEF ReadOCP
      <4> QED
        BY <4>1, Supports DEF TypeOK
    <3> QED
      BY <2>7, <3>1, <3>2, <3>3 DEF ReadOCP, TypeOK
  <2>8. CASE Label(n)
    <3>1. PICK i \in NSIDs \cup {0} : namespaceOne(n, i) /\ poll' = [poll EXCEPT ![n].used = i]
      BY <2>8 DEF Label
    <3>2. poll' \in [Names -> Poll]
      BY <3>1, PollTypes DEF TypeOK
    <3> QED
      BY <1>f, <2>8, <3>1, <3>2 DEF Label, namespaceOne, TypeOK
  <2> QED
    BY <1>3, <2>1, <2>2, <2>3, <2>4, <2>5, <2>6, <2>7, <2>8 DEF PollStep
<1>4. CASE HostStep
  <2>1. PICK h \in Hosts : Change(h)
    BY <1>4, HostTypes
  <2> QED
    BY <1>t, <2>1 DEF Change, TypeOK
<1>5. CASE UNCHANGED vars
  BY <1>5 DEF vars, TypeOK
<1> QED
  BY <1>1, <1>2, <1>3, <1>4, <1>5 DEF Next, Quiescent

\* Every variable keeps its type, whatever happens to the host: nothing but a
\* drive, a state or a blank ever stands in a field.
THEOREM TypeCorrect == Spec => []TypeOK
BY InitTypes, NextTypes, PTL DEF Spec

-----------------------------------------------------------------------------
(* What a step of a poll does.                                             *)

Others(n) == \A m \in Names : m # n => pc'[m] = pc[m] /\ poll'[m] = poll[m]

\* The parts of a poll that its steps leave alone, and those that they fill.
Kept(n, parts) == \A f \in parts : poll'[n][f] = poll[n][f]
Parts == {"nss", "listing", "unsized", "size", "sector", "wire", "supported", "used"}

Aside(n)  == /\ poll'[n] = poll[n] /\ pc[n] \in {"waiting", "check", "read"}
             /\ pc[n] = "waiting" => pc'[n] = "list"
Marked(n) == /\ Kept(n, Parts \ {"supported"}) /\ pc[n] \in {"check", "read"}
             /\ poll'[n].supported = "no" => Key(n) \in pageUnsupported'
             /\ poll'[n].supported = "yes" => pc'[n] = "label"
Listed(n) ==
  /\ Kept(n, {"size", "sector", "wire", "supported", "used"}) /\ pc[n] = "list"
  /\ \/ /\ Kept(n, Parts) /\ ~clean' /\ pc'[n] = "identify"
     \/ /\ poll'[n].listing /\ poll'[n].nss = NamespacesOf(n)
        /\ poll'[n].unsized = NamespacesOf(n)
        /\ pc'[n] = IF NamespacesOf(n) = {} THEN "identify" ELSE "size"
Sized(n) ==
  /\ Kept(n, Parts \ {"size"}) /\ pc[n] = "size" /\ pc'[n] = "sector"
  /\ \E i \in NSIDs, v \in Serials :
       /\ Smallest(i, poll[n].unsized)
       /\ \A j \in NSIDs : poll'[n].size[j] = IF j = i THEN v ELSE poll[n].size[j]
       /\ v = None \/ v = host.slot[n]
       /\ v = None => ~clean' \/ <<n, i>> \notin BlockDevices
Sectored(n) ==
  /\ Kept(n, Parts \ {"sector", "unsized"}) /\ pc[n] = "sector"
  /\ \E i \in NSIDs, v \in Serials :
       /\ Smallest(i, poll[n].unsized)
       /\ \A j \in NSIDs : poll'[n].sector[j] = IF j = i THEN v ELSE poll[n].sector[j]
       /\ v = None \/ v = host.slot[n]
       /\ poll'[n].unsized = poll[n].unsized \ {i}
       /\ pc'[n] = IF poll[n].unsized = {i} THEN "identify" ELSE "size"
Identified(n) ==
  /\ Kept(n, Parts \ {"wire"}) /\ pc[n] = "identify" /\ pc'[n] = "check"
  /\ poll'[n].wire \in {None, host.slot[n]}
Labelled(n) ==
  /\ Kept(n, Parts \ {"used"}) /\ pc[n] = "label" /\ pc'[n] = "done"
  /\ poll'[n].used = label(n) \/ (poll'[n].used = 0 /\ ~clean')

LEMMA PollShape ==
  ASSUME TypeOK, NEW n \in Names, PollStep(n)
  PROVE  /\ UNCHANGED <<host, request, past>> /\ clean' \in {FALSE, clean}
         /\ pc[n] \notin {"off", "done"} /\ pc'[n] # "off" /\ Others(n)
         /\ poll[n] \in Poll /\ poll'[n] \in Poll
         /\ \/ Aside(n) \/ Marked(n) \/ Listed(n) \/ Sized(n) \/ Sectored(n)
            \/ Identified(n) \/ Labelled(n)
<1> USE DEF Goto, Others, Kept, Parts
<1>t. /\ pc \in [Names -> Running] /\ poll \in [Names -> Poll] /\ poll[n] \in Poll
      /\ poll' \in [Names -> Poll]
      /\ poll[n].size \in [NSIDs -> Serials] /\ poll[n].sector \in [NSIDs -> Serials]
  BY NextTypes, PollTypes DEF TypeOK, Running, Next
<1>r. poll[n] = [nss |-> poll[n].nss, listing |-> poll[n].listing,
                 unsized |-> poll[n].unsized, size |-> poll[n].size,
                 sector |-> poll[n].sector, wire |-> poll[n].wire,
                 supported |-> poll[n].supported, used |-> poll[n].used]
  BY <1>t DEF Poll
<1>c. Fault \/ Intact => clean' \in {FALSE, clean}
  BY Zenon DEF Fault, Intact
<1>1. CASE Acquire(n)
  BY <1>1, <1>t DEF Acquire, Aside
<1>2. CASE ListNamespaces(n)
  <2>1. UNCHANGED <<host, request, past>> /\ clean' \in {FALSE, clean}
    BY <1>2, <1>c DEF ListNamespaces
  <2>2. CASE Fault /\ Goto(n, "identify") /\ UNCHANGED poll
    BY <1>2, <1>t, <2>1, <2>2 DEF ListNamespaces, Listed, Fault
  <2>3. CASE /\ poll' = [poll EXCEPT ![n].listing = TRUE, ![n].nss = NamespacesOf(n),
                                     ![n].unsized = NamespacesOf(n)]
             /\ Goto(n, IF NamespacesOf(n) = {} THEN "identify" ELSE "size")
    BY <1>2, <1>t, <1>r, <2>1, <2>3 DEF ListNamespaces, Listed
  <2> QED
    BY <1>2, <2>2, <2>3 DEF ListNamespaces
<1>3. CASE ReadSize(n)
  <2>1. PICK i \in NSIDs, v \in Serials :
          /\ Smallest(i, poll[n].unsized)
          /\ readUint(n, i, v)
          /\ poll' = [poll EXCEPT ![n].size[i] = v]
    BY <1>3 DEF ReadSize
  <2>2. /\ UNCHANGED <<host, request, past>> /\ clean' \in {FALSE, clean}
        /\ v = None \/ v = host.slot[n]
        /\ v = None => ~clean' \/ <<n, i>> \notin BlockDevices
    <3>1. <<n, i>> \in BlockDevices => host.slot[n] # None
      BY DEF BlockDevices, Present
    <3> QED
      BY <1>3, <1>c, <2>1, <3>1 DEF ReadSize, readUint, Fault
  <2>3. /\ Kept(n, Parts \ {"size"})
        /\ \A j \in NSIDs : poll'[n].size[j] = IF j = i THEN v ELSE poll[n].size[j]
    BY <1>t, <1>r, <2>1
  <2> QED
    BY <1>3, <1>t, <2>1, <2>2, <2>3 DEF ReadSize, Sized
<1>4. CASE ReadSector(n)
  <2>1. PICK i \in NSIDs, v \in Serials :
          /\ Smallest(i, poll[n].unsized)
          /\ readUint(n, i, v)
          /\ poll' = [poll EXCEPT ![n].sector[i] = v, ![n].unsized = @ \ {i}]
          /\ Goto(n, IF poll[n].unsized = {i} THEN "identify" ELSE "size")
    BY <1>4 DEF ReadSector
  <2>2. /\ UNCHANGED <<host, request, past>> /\ clean' \in {FALSE, clean}
        /\ v = None \/ v = host.slot[n]
    BY <1>4, <1>c, <2>1 DEF ReadSector, readUint, Fault
  <2>3. /\ Kept(n, Parts \ {"sector", "unsized"})
        /\ poll'[n].unsized = poll[n].unsized \ {i}
        /\ \A j \in NSIDs : poll'[n].sector[j] = IF j = i THEN v ELSE poll[n].sector[j]
    BY <1>t, <1>r, <2>1
  <2>4. /\ pc[n] = "sector" /\ Others(n)
        /\ pc'[n] = IF poll[n].unsized = {i} THEN "identify" ELSE "size"
    BY <1>4, <1>t, <2>1 DEF ReadSector
  <2>5. Sectored(n)
    BY <2>1, <2>2, <2>3, <2>4 DEF Sectored
  <2> QED
    BY <1>t, <2>2, <2>4, <2>5
<1>5. CASE Identify(n)
  BY <1>5, <1>t, <1>r DEF Identify, Identified
<1>6. CASE Check(n)
  BY <1>6, <1>t, <1>r DEF Check, pageKnownUnsupported, Aside, Marked, memory
<1>7. CASE ReadOCP(n)
  BY <1>7, <1>t, <1>r DEF ReadOCP, Aside, Marked, Key, request
<1>8. CASE Label(n)
  <2>1. PICK i \in NSIDs \cup {0} : namespaceOne(n, i) /\ poll' = [poll EXCEPT ![n].used = i]
    BY <1>8 DEF Label
  <2>2. /\ UNCHANGED <<host, request, past>> /\ clean' \in {FALSE, clean}
        /\ i = label(n) \/ (i = 0 /\ ~clean')
    BY <1>8, <1>c, <2>1 DEF Label, namespaceOne, Fault
  <2> QED
    BY <1>8, <1>t, <1>r, <2>1, <2>2 DEF Label, Labelled
<1> QED
  BY <1>1, <1>2, <1>3, <1>4, <1>5, <1>6, <1>7, <1>8 DEF PollStep

-----------------------------------------------------------------------------
(* What is held was so.                                                    *)

Was(n, d) == \E h \in past : h.slot[n] = d
Existing(h, n) == IF h.slot[n] = None THEN {} ELSE h.attached[h.slot[n]]

LEMMA NamespacesOfHost ==
  ASSUME TypeOK, NEW n \in Names
  PROVE  /\ NamespacesOf(n) = Existing(host, n)
         /\ label(n) \in {0, 1} /\ (label(n) = 1 <=> 1 \in Existing(host, n))
<1>1. host.slot[n] # None => host.attached[host.slot[n]] \subseteq NSIDs
  BY DEF TypeOK, Hosts
<1>2. NamespacesOf(n) = Existing(host, n)
  BY <1>1 DEF NamespacesOf, BlockDevices, Blocks, Present, Existing
<1> QED
  BY <1>2 DEF label

\* Each thing that is held of a controller was so at a moment since the request
\* arrived, though maybe each at another one.
AttrsKnown(n) ==
  /\ \A a \in Attributes \ {"state"} : attr[n][a] # None => Was(n, attr[n][a])
  /\ attr[n]["state"] # None =>
       \E h \in past : h.slot[n] # None /\ h.state[n] = attr[n]["state"]
PollKnown(n) ==
  /\ poll[n].listing => \E h \in past : poll[n].nss = Existing(h, n)
  /\ \A i \in NSIDs : /\ poll[n].size[i] # None => Was(n, poll[n].size[i])
                      /\ poll[n].sector[i] # None => Was(n, poll[n].sector[i])
  /\ poll[n].wire # None => Was(n, poll[n].wire)
  /\ poll[n].used # 0 => poll[n].used = 1 /\ \E h \in past : 1 \in Existing(h, n)

Known ==
  /\ phase # "idle" => host \in past
  /\ \A n \in Names : pc[n] # "off" => phase \in {"polling", "answered"}
  /\ \A n \in Names : AttrsKnown(n) /\ PollKnown(n)
  /\ \A b \in Blocks : md[b] # NoArray => \E h \in past : h.member[b] = md[b]
  /\ phase \notin {"idle", "failed"} =>
       \A n \in Names :
         /\ n \in listed => \E h \in past : h.slot[n] # None
         /\ n \notin listed => \E h \in past : h.slot[n] = None

LEMMA KnownGrows ==
  ASSUME past \subseteq past'
  PROVE  /\ UNCHANGED attr => \A n \in Names : AttrsKnown(n) => AttrsKnown(n)'
         /\ \A n \in Names : poll'[n] = poll[n] /\ PollKnown(n) => PollKnown(n)'
         /\ UNCHANGED md => \A b \in Blocks :
              (md[b] # NoArray => \E h \in past : h.member[b] = md[b]) =>
              (md[b] # NoArray => \E h \in past : h.member[b] = md[b])'
BY DEF AttrsKnown, PollKnown, Was

LEMMA PollKnownStep ==
  ASSUME TypeOK, NEW n \in Names, PollStep(n), PollKnown(n), host \in past
  PROVE  PollKnown(n)'
<1> USE DEF Kept, Parts, PollKnown, Was
<1>1. /\ UNCHANGED <<host, past>>
      /\ \/ Aside(n) \/ Marked(n) \/ Listed(n) \/ Sized(n) \/ Sectored(n)
         \/ Identified(n) \/ Labelled(n)
  BY PollShape
<1>2. CASE Aside(n)
  BY <1>1, <1>2 DEF Aside
<1>3. CASE Marked(n)
  BY <1>1, <1>3 DEF Marked
<1>4. CASE Listed(n)
  BY <1>1, <1>4, NamespacesOfHost DEF Listed
<1>5. CASE Sized(n)
  BY <1>1, <1>5 DEF Sized
<1>6. CASE Sectored(n)
  BY <1>1, <1>6 DEF Sectored
<1>7. CASE Identified(n)
  BY <1>1, <1>7 DEF Identified
<1>8. CASE Labelled(n)
  BY <1>1, <1>8, NamespacesOfHost DEF Labelled
<1> QED
  BY <1>1, <1>2, <1>3, <1>4, <1>5, <1>6, <1>7, <1>8

\* What a request holds when it begins.
LEMMA Fresh ==
  ASSUME attr = Nothing, md = emptyMap, poll = [n \in Names |-> NewPoll]
  PROVE  /\ \A n \in Names : AttrsKnown(n) /\ PollKnown(n)
         /\ \A b \in Blocks : md[b] = NoArray
BY DEF AttrsKnown, PollKnown, Nothing, NewPoll, emptyMap, Attributes

LEMMA InitKnown == Init => Known
<1> SUFFICES ASSUME Init PROVE Known
  OBVIOUS
<1>1. attr = Nothing /\ md = emptyMap /\ poll = [n \in Names |-> NewPoll]
  BY DEF Init, emptyMap
<1> QED
  BY <1>1, Fresh DEF Init, Known

LEMMA KnownStep == TypeOK /\ Known /\ [Next]_vars => Known'
<1> SUFFICES ASSUME TypeOK, Known, [Next]_vars PROVE Known'
  OBVIOUS
<1> USE DEF request, memory
<1>1. CASE Handle
  <2>1. /\ attr' = Nothing /\ md' = emptyMap' /\ poll' = [n \in Names |-> NewPoll]
        /\ past' = {host} /\ UNCHANGED host /\ pc' = [n \in Names |-> "off"]
        /\ phase' = "failed" \/ listed' = Present
    BY <1>1 DEF Handle, enumerationFails, emptyMap
  <2>2. /\ \A n \in Names : AttrsKnown(n)' /\ PollKnown(n)'
        /\ \A b \in Blocks : md'[b] = NoArray
    BY <2>1, Fresh DEF AttrsKnown, PollKnown, Nothing, NewPoll, emptyMap, Attributes
  <2> QED
    BY <2>1, <2>2 DEF Known, Present
<1>2. CASE RequestStep
  <2>1. ASSUME NEW n \in Names, ReadAttribute(n) PROVE Known'
    <3>1. PICK v \in Fields : readAttr(n, next, v) /\ attr' = [attr EXCEPT ![n][next] = v]
      BY <2>1 DEF ReadAttribute
    <3>2. /\ UNCHANGED <<host, past, phase, listed, md, pc, poll>> /\ host \in past
      BY <2>1 DEF ReadAttribute, Known
    <3>3. v = None \/ v = content(n, next)
      BY <3>1 DEF readAttr
    <3>4. \A m \in Names, a \in Attributes :
            attr'[m][a] = IF m = n /\ a = next THEN v ELSE attr[m][a]
      BY <3>1 DEF TypeOK
    <3>5. v # None => IF next = "state" THEN host.slot[n] # None /\ v = host.state[n]
                                        ELSE v = host.slot[n]
      BY <3>3 DEF content, Present
    <3>6. ASSUME NEW m \in Names PROVE AttrsKnown(m)'
      <4>1. AttrsKnown(m)
        BY DEF Known
      <4> QED
        BY <3>2, <3>4, <3>5, <4>1 DEF AttrsKnown, Was, Attributes
    <3>7. \A m \in Names : PollKnown(m)'
      BY <3>2 DEF Known, PollKnown, Was
    <3> QED
      BY <3>2, <3>6, <3>7 DEF Known
  <2>2. ASSUME UNCHANGED <<host, listed, attr, md, poll, past>>,
               phase # "idle", phase' \notin {"idle", "failed"},
               \A n \in Names : pc'[n] # "off" => phase' \in {"polling", "answered"},
               phase # "failed"
        PROVE  Known'
    <3>1. \A n \in Names : AttrsKnown(n)' /\ PollKnown(n)'
      BY <2>2 DEF Known, AttrsKnown, PollKnown, Was
    <3> QED
      BY <2>2, <3>1 DEF Known
  <2>3. CASE ListArrays
    BY <2>2, <2>3 DEF ListArrays, Known
  <2>4. CASE StartPolls
    BY <2>2, <2>4 DEF StartPolls, Known
  <2>5. CASE Respond
    BY <2>2, <2>5 DEF Respond, Known
  <2>6. ASSUME NEW a \in Arrays, ReadArray(a) PROVE Known'
    <3>1. /\ UNCHANGED <<host, phase, listed, attr, pc, poll, past>> /\ host \in past
      BY <2>6 DEF ReadArray, Known
    <3>2. \A b \in Blocks : md'[b] = md[b] \/ md'[b] = host.member[b]
      BY <2>6 DEF ReadArray, TypeOK
    <3>3. \A n \in Names : AttrsKnown(n)' /\ PollKnown(n)'
      BY <3>1 DEF Known, AttrsKnown, PollKnown, Was
    <3> QED
      BY <3>1, <3>2, <3>3 DEF Known
  <2> QED
    BY <1>2, <2>1, <2>3, <2>4, <2>5, <2>6 DEF RequestStep
<1>3. ASSUME NEW n \in Names, PollStep(n) PROVE Known'
  <2>1. /\ UNCHANGED <<host, phase, listed, attr, md, past>>
        /\ pc[n] # "off" /\ Others(n)
    BY <1>3, PollShape
  <2>2. phase \in {"polling", "answered"} /\ host \in past
    BY <2>1 DEF Known
  <2>3. \A m \in Names : AttrsKnown(m)'
    BY <2>1 DEF Known, AttrsKnown, Was
  <2>4. \A m \in Names : m # n => PollKnown(m)'
    BY <2>1, KnownGrows DEF Known, Others
  <2>5. PollKnown(n)'
    BY <1>3, <2>2, PollKnownStep DEF Known
  <2> QED
    BY <2>1, <2>2, <2>3, <2>4, <2>5 DEF Known
<1>4. CASE HostStep
  <2>1. PICK h \in Hosts : Change(h)
    BY <1>4, HostTypes
  <2>2. /\ past \subseteq past' /\ host' \in past'
        /\ UNCHANGED <<phase, listed, attr, md, pc, poll>>
    BY <2>1 DEF Change
  <2>3. \A n \in Names : AttrsKnown(n)' /\ PollKnown(n)'
    BY <2>2, KnownGrows DEF Known
  <2> QED
    BY <2>2, <2>3, KnownGrows DEF Known
<1>5. CASE UNCHANGED vars
  BY <1>5 DEF vars, Known, AttrsKnown, PollKnown, Was
<1> QED
  BY <1>1, <1>2, <1>3, <1>4, <1>5 DEF Next, Quiescent

LEMMA AlwaysKnown == Spec => [](TypeOK /\ Known)
BY InitTypes, NextTypes, InitKnown, KnownStep, PTL DEF Spec

\* The number of controllers is that of a moment since the request arrived,
\* up to controllers that came or went meanwhile, and never an error in disguise.
THEOREM DiscoveredAreThere == Spec => []DiscoveredMatchesHost
<1>1. Known => DiscoveredMatchesHost
  BY DEF Known, DiscoveredMatchesHost
<1> QED
  BY <1>1, AlwaysKnown, PTL

\* No controller is reported in a state it was not in while the request ran, and
\* none as not live because its state could not be read.
THEOREM StatesWereTrue == Spec => []StateWasTrue
<1>1. TypeOK /\ Known => StateWasTrue
  <2> SUFFICES ASSUME TypeOK, Known PROVE StateWasTrue
    OBVIOUS
  <2>1. ASSUME NEW s \in ControllerState
        PROVE  \E h \in past : h.slot[s[1]] # None /\ h.state[s[1]] = s[2]
    BY <2>1 DEF Known, AttrsKnown, ControllerState, TypeOK
  <2>2. ASSUME NEW l \in ControllerLive
        PROVE  \E h \in past : h.slot[l[1]] # None /\ (l[2] <=> h.state[l[1]] = "live")
    <3>1. PICK s \in ControllerState : l = <<s[1], s[2] = "live">>
      BY Zenon DEF ControllerLive
    <3>2. PICK h \in past : h.slot[s[1]] # None /\ h.state[s[1]] = s[2]
      BY <2>1
    <3>3. l[1] = s[1] /\ (l[2] <=> s[2] = "live")
      BY <3>1
    <3> QED
      BY <3>2, <3>3, Zenon
  <2> QED
    BY <2>1, <2>2, Zenon DEF StateWasTrue
<1> QED
  BY <1>1, AlwaysKnown, PTL

\* The namespaces of a controller are those it had at one moment, all of them and
\* none of another controller's.
THEOREM NamespacesAreIts == Spec => []NamespacesMatchHost
<1>1. TypeOK /\ Known => NamespacesMatchHost
  BY DEF TypeOK, Known, PollKnown, NamespacesMatchHost, NamespacesActive, Existing
<1> QED
  BY <1>1, AlwaysKnown, PTL

-----------------------------------------------------------------------------
(* What a request that read everything has.                                *)

\* Every array that had a member at the moment of the listing is shown, or read
\* later, or the member left it.
Shown ==
  /\ phase \in {"polling", "answered"} => arrays = {}
  /\ clean /\ phase \in {"arrays", "polling", "answered"} =>
       \A b \in Blocks : \/ md[b] # NoArray \/ host.member[b] \in arrays
                         \/ \E h \in past : h.member[b] = NoArray

LEMMA ShownStep == TypeOK /\ Known /\ Shown /\ [Next]_vars => Shown'
<1> SUFFICES ASSUME TypeOK, Known, Shown, [Next]_vars PROVE Shown'
  OBVIOUS
<1> USE DEF request, memory
<1>1. CASE Handle
  BY <1>1 DEF Handle, enumerationFails, Shown
<1>2. CASE RequestStep
  <2>1. ASSUME NEW n \in Names, ReadAttribute(n) PROVE Shown'
    BY <2>1 DEF ReadAttribute, Shown
  <2>2. CASE ListArrays
    <3>1. CASE ~clean'
      BY <2>2, <3>1 DEF ListArrays, Shown
    <3>2. CASE arrays' = {host.member[b] : b \in Blocks} \ {NoArray}
      <4>1. \A b \in Blocks : host.member[b] \in arrays' \/ host.member[b] = NoArray
        BY <3>2
      <4>2. host \in past /\ UNCHANGED <<host, past>> /\ phase' = "arrays"
        BY <2>2 DEF ListArrays, Known
      <4> QED
        BY <4>1, <4>2 DEF Shown
    <3> QED
      BY <2>2, <3>1, <3>2 DEF ListArrays, Fault
  <2>3. CASE StartPolls
    BY <2>3 DEF StartPolls, Shown
  <2>4. CASE Respond
    BY <2>4 DEF Respond, Shown
  <2>5. ASSUME NEW a \in Arrays, ReadArray(a) PROVE Shown'
    <3>1. /\ UNCHANGED <<host, past>> /\ phase = "arrays" /\ phase' = "arrays"
          /\ arrays' = arrays \ {a}
      BY <2>5 DEF ReadArray
    <3>2. CASE ~clean'
      BY <3>1, <3>2 DEF Shown
    <3>3. CASE /\ UNCHANGED clean
               /\ md' = [b \in Blocks |-> IF host.member[b] = a THEN a ELSE md[b]]
      <4>1. a # NoArray
        BY InventoryAssumption
      <4> QED
        BY <3>1, <3>3, <4>1 DEF Shown
    <3> QED
      BY <2>5, <3>2, <3>3 DEF ReadArray, Fault, Intact
  <2> QED
    BY <1>2, <2>1, <2>2, <2>3, <2>4, <2>5 DEF RequestStep
<1>3. ASSUME NEW n \in Names, PollStep(n) PROVE Shown'
  <2>1. UNCHANGED <<host, phase, arrays, md, past>> /\ clean' \in {FALSE, clean}
    BY <1>3, PollShape
  <2>2. CASE clean' = FALSE
    BY <2>1, <2>2 DEF Shown
  <2>3. CASE clean' = clean
    BY <2>1, <2>3 DEF Shown
  <2> QED
    BY <2>1, <2>2, <2>3, Zenon
<1>4. CASE HostStep
  <2>1. PICK h \in Hosts :
          /\ Change(h)
          /\ \A b \in Blocks : NoArray \in {h.member[b], host.member[b]}
                               \/ h.member[b] = host.member[b]
    BY <1>4, HostTypes
  <2>2. /\ host' = h /\ past' = past \cup {h}
        /\ UNCHANGED <<phase, arrays, md, clean>>
    BY <2>1 DEF Change
  <2>3. phase # "idle" => host \in past
    BY DEF Known
  <2> QED
    BY <2>1, <2>2, <2>3 DEF Shown
<1>5. CASE UNCHANGED vars
  BY <1>5 DEF vars, Shown
<1> QED
  BY <1>1, <1>2, <1>3, <1>4, <1>5 DEF Next, Quiescent

\* Although arrays are read one after the other while members move between them,
\* a namespace is shown in an array it was in, and in none only if there was a
\* moment when it was in none.
THEOREM MembershipIsTrue == Spec => []MembershipWasTrue
<1>1. Init => Shown
  BY DEF Init, Shown
<1>2. Spec => [](TypeOK /\ Known /\ Shown)
  BY <1>1, InitTypes, NextTypes, InitKnown, KnownStep, ShownStep, PTL DEF Spec
<1>3. Known /\ Shown => MembershipWasTrue
  BY DEF Known, Shown, MembershipWasTrue, NamespaceMD
<1> QED
  BY <1>2, <1>3, PTL

\* A request that could read every file has the model of a controller that stayed.
ModelRead(n) == n \in listed /\ (n \in unread => First(n, unread) /\ next # "model")
Models ==
  /\ phase # "attributes" => unread = {}
  /\ clean => \A n \in Names : ModelRead(n) => attr[n]["model"] # None \/ Was(n, None)

LEMMA ModelsStep == TypeOK /\ Known /\ Models /\ [Next]_vars => Models'
<1> SUFFICES ASSUME TypeOK, Known, Models, [Next]_vars PROVE Models'
  OBVIOUS
<1> USE DEF request, memory
<1>1. CASE Handle
  BY <1>1 DEF Handle, enumerationFails, Models, ModelRead, First
<1>2. ASSUME NEW n \in Names, ReadAttribute(n) PROVE Models'
  <2>1. /\ UNCHANGED <<host, past, phase, listed>> /\ host \in past
        /\ phase = "attributes" /\ First(n, unread) /\ next' = After(next)
        /\ unread' = IF next = "state" THEN unread \ {n} ELSE unread
    BY <1>2 DEF ReadAttribute, Known
  <2>2. PICK v \in Fields : readAttr(n, next, v) /\ attr' = [attr EXCEPT ![n][next] = v]
    BY <1>2 DEF ReadAttribute
  <2>3. \A m \in Names, a \in Attributes :
          attr'[m][a] = IF m = n /\ a = next THEN v ELSE attr[m][a]
    BY <2>2 DEF TypeOK
  <2>4. SUFFICES ASSUME clean', NEW m \in Names, ModelRead(m)'
                 PROVE  attr'[m]["model"] # None \/ Was(m, None)
    BY <2>1 DEF Models, Was
  <2>5. UNCHANGED clean /\ v = content(n, next)
    BY <2>2, <2>4, Zenon DEF readAttr, Fault, Intact
  <2>6. next \in Attributes
    BY DEF TypeOK
  <2>7. First(m, unread) => m = n
    BY <2>1, InventoryAssumption DEF First
  <2>8. CASE next = "model"
    <3>1. m \notin unread \/ m = n
      BY <2>1, <2>4, <2>7, <2>8 DEF ModelRead
    <3>2. CASE m = n
      <4>1. v # None \/ host.slot[n] = None
        BY <2>5, <2>8 DEF content, Present
      <4> QED
        BY <2>1, <2>3, <2>8, <3>2, <4>1 DEF Was, Attributes
    <3>3. CASE m # n
      <4>1. unread' = unread
        BY <2>1, <2>8
      <4>2. First(m, unread)' => First(m, unread)
        BY <4>1 DEF First
      <4>3. ModelRead(m)
        BY <2>4, <2>7, <3>3, <4>1, <4>2, <2>1 DEF ModelRead
      <4> QED
        BY <2>3, <2>4, <2>5, <3>3, <4>3 DEF Models, Was, Attributes
    <3> QED
      BY <3>2, <3>3
  <2>9. CASE next # "model"
    <3>1. ModelRead(m)
      <4>1. CASE next = "state"
        BY <2>1, <2>4, <4>1 DEF ModelRead, After
      <4>2. CASE next # "state"
        BY <2>1, <2>4, <2>7, <2>9, <4>2 DEF ModelRead
      <4> QED
        BY <4>1, <4>2
    <3> QED
      BY <2>3, <2>4, <2>5, <2>9, <3>1 DEF Models, Was, Attributes
  <2> QED
    BY <2>8, <2>9
<1>3. ASSUME UNCHANGED <<listed, unread, next, attr>>, past \subseteq past',
             clean' \in {FALSE, clean}, phase' # "attributes" => phase # "attributes" \/ unread = {}
      PROVE  Models'
  <2>1. \A n \in Names : ModelRead(n)' => ModelRead(n)
    BY <1>3 DEF ModelRead, First
  <2>2. phase' # "attributes" => unread' = {}
    BY <1>3 DEF Models
  <2>3. \A n \in Names : /\ Was(n, None) => Was(n, None)'
                         /\ attr'[n]["model"] = attr[n]["model"]
    BY <1>3 DEF Was
  <2>4. clean' => clean
    BY <1>3, Zenon
  <2> QED
    BY <2>1, <2>2, <2>3, <2>4 DEF Models
<1>4. CASE RequestStep /\ ~\E n \in Names : ReadAttribute(n)
  <2>c. Fault \/ Intact => clean' \in {FALSE, clean}
    BY Zenon DEF Fault, Intact
  <2> QED
    BY <1>3, <1>4, <2>c DEF RequestStep, ListArrays, StartPolls, Respond, ReadArray
<1>5. ASSUME NEW n \in Names, PollStep(n) PROVE Models'
  BY <1>3, <1>5, PollShape
<1>6. CASE HostStep
  BY <1>3, <1>6, HostTypes DEF Change
<1>7. CASE UNCHANGED vars
  BY <1>3, <1>7 DEF vars
<1> QED
  BY <1>1, <1>2, <1>4, <1>5, <1>6, <1>7 DEF Next, RequestStep, Quiescent

\* The labels of one device_info series and the sizes of its namespaces come from
\* many reads, but a drive that stayed in its slot is never shown with the data of
\* another, and not without its model when sysfs could be read.
THEOREM InfoIsItsOwn == Spec => []InfoIsOfOneDrive
<1>1. Init => Models
  BY DEF Init, Models, ModelRead
<1>2. Spec => [](TypeOK /\ Known /\ Models)
  BY <1>1, InitTypes, NextTypes, InitKnown, KnownStep, ModelsStep, PTL DEF Spec
<1>3. TypeOK /\ Known /\ Models => InfoIsOfOneDrive
  <2> SUFFICES ASSUME TypeOK, Known, Models, phase = "answered",
                      NEW n \in Names, NEW d \in Drives, Stayed(n, d)
               PROVE  /\ \A i \in NSIDs : Sizes(<<n, i>>) \cup Sectors(<<n, i>>) \subseteq {d}
                      /\ \A l \in {l \in DeviceInfo : l.device = n} :
                           /\ l.serial \in {d, None} /\ l.vendor = d
                           /\ l.model \in {d, None} /\ l.firmware = d
                           /\ clean => l.model = d
    BY DEF InfoIsOfOneDrive
  <2>1. \A e : Was(n, e) => e = d
    BY DEF Was, Stayed
  <2>2. d # None /\ host \in past
    BY InventoryAssumption DEF Known
  <2>3. AttrsKnown(n) /\ PollKnown(n)
    BY DEF Known
  <2>4. \A i \in NSIDs : Sizes(<<n, i>>) \cup Sectors(<<n, i>>) \subseteq {d}
    BY <2>1, <2>3 DEF PollKnown, Sizes, Sectors
  <2>5. \A a \in {"model", "firmware_rev", "serial"} : attr[n][a] \in {d, None}
    BY <2>1, <2>3 DEF AttrsKnown, Attributes
  <2>6. poll[n].wire \in {d, None}
    BY <2>1, <2>3 DEF PollKnown
  <2>7. clean => attr[n]["model"] = d
    <3>1. n \in listed /\ unread = {}
      BY <2>2 DEF Known, Models, Stayed
    <3>2. ModelRead(n)
      BY <3>1 DEF ModelRead
    <3>3. ~Was(n, None)
      BY <2>1, <2>2
    <3> QED
      BY <2>5, <3>2, <3>3 DEF Models
  <2>8. ASSUME NEW l \in DeviceInfo, l.device = n
        PROVE  /\ l.serial \in {d, None} /\ l.vendor = d
               /\ l.model \in {d, None} /\ l.firmware = d
               /\ clean => l.model = d
    <3>1. /\ poll[n].wire # None
          /\ l = [device |-> n, serial |-> attr[n]["serial"],
                  model |-> fromSysfs(n, "model"), firmware |-> fromSysfs(n, "firmware_rev"),
                  vendor |-> poll[n].wire]
      BY <2>8 DEF DeviceInfo
    <3> QED
      BY <2>2, <2>5, <2>6, <2>7, <3>1 DEF fromSysfs
  <2> QED
    BY <2>4, <2>8
<1> QED
  BY <1>2, <1>3, PTL

-----------------------------------------------------------------------------
(* What is remembered of page 0xc0.                                        *)

\* Each mark has a refusal, and a refusal under a serial is of the drive with it.
Remembered ==
  /\ \A k \in pageUnsupported : \E r \in refusals : r[1] = k[1] /\ r[2] = k[2]
  /\ \A r \in refusals : r[2] # None => r[3] \in {r[2], None}
  /\ \A n \in Names : poll[n].supported = "no" =>
       phase # "attributes" /\ Key(n) \in pageUnsupported

LEMMA RefuserStayed ==
  ASSUME NEW n \in Names, AttrsKnown(n), attr[n]["serial"] # None
  PROVE  Refuser(n) \in {attr[n]["serial"], None}
BY DEF Refuser, AttrsKnown, Was, Attributes

LEMMA RememberedStep == TypeOK /\ Known /\ Remembered /\ [Next]_vars => Remembered'
<1> SUFFICES ASSUME TypeOK, Known, Remembered, [Next]_vars PROVE Remembered'
  OBVIOUS
<1> USE DEF request, memory
<1>1. CASE Handle
  <2>1. \A n \in Names : poll'[n].supported = "absent"
    BY <1>1 DEF Handle, NewPoll
  <2> QED
    BY <1>1, <2>1 DEF Handle, Remembered
<1>2. ASSUME NEW n \in Names, ReadAttribute(n) PROVE Remembered'
  BY <1>2 DEF ReadAttribute, Remembered
<1>3. ASSUME UNCHANGED <<attr, poll, memory>>, phase' # "attributes" \/ UNCHANGED phase
      PROVE  Remembered'
  BY <1>3 DEF Remembered, Key
<1>4. CASE RequestStep /\ ~\E n \in Names : ReadAttribute(n)
  BY <1>3, <1>4 DEF RequestStep, ListArrays, StartPolls, Respond, ReadArray
<1>5. ASSUME NEW n \in Names, PollStep(n) PROVE Remembered'
  <2>1. /\ UNCHANGED <<phase, attr>> /\ Others(n) /\ pc[n] # "off"
        /\ \/ poll'[n].supported # "no" \/ Key(n) \in pageUnsupported'
           \/ poll'[n].supported = poll[n].supported
    BY <1>5, PollShape DEF Aside, Marked, Listed, Sized, Sectored, Identified, Labelled,
                           Kept, Parts
  <2>2. phase \in {"polling", "answered"}
    BY <2>1 DEF Known
  <2>3. \/ UNCHANGED memory
        \/ /\ pageUnsupported' = pageUnsupported \cup {Key(n)}
           /\ refusals' = refusals \cup {<<n, attr[n]["serial"], Refuser(n)>>}
    BY <1>5 DEF PollStep, Acquire, ListNamespaces, ReadSize, ReadSector, Identify, Check,
                ReadOCP, Label
  <2>4. /\ pageUnsupported \subseteq pageUnsupported'
        /\ \A k \in pageUnsupported' : \E r \in refusals' : r[1] = k[1] /\ r[2] = k[2]
    <3>1. CASE UNCHANGED memory
      BY <3>1 DEF Remembered
    <3>2. CASE /\ pageUnsupported' = pageUnsupported \cup {Key(n)}
               /\ refusals' = refusals \cup {<<n, attr[n]["serial"], Refuser(n)>>}
      <4>1. \E r \in refusals' : r[1] = Key(n)[1] /\ r[2] = Key(n)[2]
        <5> DEFINE new == <<n, attr[n]["serial"], Refuser(n)>>
        <5>1. /\ new \in refusals' /\ new[1] = n /\ new[2] = attr[n]["serial"]
              /\ Key(n)[1] = n /\ Key(n)[2] = attr[n]["serial"]
          BY <3>2 DEF Key
        <5> HIDE DEF new
        <5> QED
          BY <5>1
      <4>2. \A k \in pageUnsupported : \E r \in refusals' : r[1] = k[1] /\ r[2] = k[2]
        BY <3>2 DEF Remembered
      <4> QED
        BY <3>2, <4>1, <4>2
    <3> QED
      BY <2>3, <3>1, <3>2
  <2>5. \A r \in refusals' : r[2] # None => r[3] \in {r[2], None}
    <3>1. attr[n]["serial"] # None => Refuser(n) \in {attr[n]["serial"], None}
      BY RefuserStayed DEF Known
    <3> QED
      BY <2>3, <3>1 DEF Remembered
  <2>6. \A m \in Names : poll'[m].supported = "no" => Key(m)' \in pageUnsupported'
    BY <2>1, <2>4 DEF Remembered, Others, Key
  <2> QED
    BY <2>1, <2>2, <2>4, <2>5, <2>6 DEF Remembered
<1>6. CASE HostStep
  BY <1>3, <1>6, HostTypes DEF Change
<1>7. CASE UNCHANGED vars
  BY <1>3, <1>7 DEF vars
<1> QED
  BY <1>1, <1>2, <1>4, <1>5, <1>6, <1>7 DEF Next, RequestStep, Quiescent

\* No controller is reported without page 0xc0 for what another drive answered,
\* however the drives are exchanged between the listing and the read.
THEOREM RefusalsAreTheirOwn == Spec => []RefusalIsItsOwn
<1>1. Init => Remembered
  BY DEF Init, Remembered, NewPoll
<1>2. Spec => [](TypeOK /\ Known /\ Remembered)
  BY <1>1, InitTypes, NextTypes, InitKnown, KnownStep, RememberedStep, PTL DEF Spec
<1>3. TypeOK /\ Remembered => RefusalIsItsOwn
  <2> SUFFICES ASSUME TypeOK, Remembered PROVE RefusalIsItsOwn
    OBVIOUS
  <2> USE DEF RefusalIsItsOwn
  <2> HAVE phase = "answered"
  <2> TAKE n \in listed
  <2> HAVE poll[n].supported = "no"
  <2>1. Key(n)[1] = n /\ Key(n)[2] = attr[n]["serial"]
    BY DEF Key
  <2>2. Key(n) \in pageUnsupported
    BY DEF TypeOK, Remembered
  <2>3. PICK r \in refusals : r[1] = n /\ r[2] = attr[n]["serial"]
    BY <2>1, <2>2 DEF Remembered
  <2>4. r[2] # None => r[3] \in {r[2], None}
    BY <2>3 DEF Remembered
  <2> QED
    BY <2>3, <2>4
<1> QED
  BY <1>2, <1>3, PTL

-----------------------------------------------------------------------------
(* The sizes of the namespaces.                                            *)

\* A size is there, or the namespace was not there all the time.
Accounted(n, i) == poll[n].size[i] # None \/ \E h \in past : i \notin Existing(h, n)

\* A poll that could read everything has a size for each namespace it is past, and
\* the use of the first one.
Whole(n) ==
  /\ poll[n].used # 0 => pc[n] = "done"
  /\ poll[n].supported = "yes" => pc[n] \in {"label", "done"}
  /\ pc[n] \notin {"size", "sector"} => poll[n].unsized = {}
  /\ clean =>
       /\ pc[n] \notin {"off", "waiting", "list"} => poll[n].listing
       /\ \A i \in poll[n].nss \ poll[n].unsized : Accounted(n, i)
       /\ pc[n] = "sector" =>
            \A i \in NSIDs : Smallest(i, poll[n].unsized) => Accounted(n, i)
       /\ pc[n] = "done" /\ poll[n].supported = "yes" =>
            poll[n].used = 1 \/ \E h \in past : 1 \notin Existing(h, n)

LEMMA WholeStep ==
  ASSUME TypeOK, NEW n \in Names, PollStep(n), Whole(n), host \in past
  PROVE  Whole(n)'
<1> USE DEF Kept, Parts, Whole
<1>1. /\ UNCHANGED <<host, past>> /\ clean' \in {FALSE, clean} /\ pc[n] \notin {"off", "done"}
      /\ poll[n] \in Poll
      /\ \/ Aside(n) \/ Marked(n) \/ Listed(n) \/ Sized(n) \/ Sectored(n)
         \/ Identified(n) \/ Labelled(n)
  BY PollShape
<1>2. clean' => clean
  BY <1>1, Zenon
<1>3. poll[n].used = 0
  BY <1>1
<1>4. ASSUME poll'[n].size = poll[n].size PROVE \A i : Accounted(n, i) => Accounted(n, i)'
  BY <1>1, <1>4 DEF Accounted, Existing
<1>5. CASE Aside(n)
  BY <1>1, <1>2, <1>3, <1>4, <1>5 DEF Aside, Smallest
<1>6. CASE Marked(n)
  BY <1>1, <1>2, <1>3, <1>4, <1>6 DEF Marked, Smallest
<1>7. CASE Listed(n)
  BY <1>1, <1>2, <1>3, <1>4, <1>7 DEF Listed, Smallest
<1>8. CASE Sized(n)
  <2>1. PICK i \in NSIDs, v \in Serials :
          /\ Smallest(i, poll[n].unsized)
          /\ \A j \in NSIDs : poll'[n].size[j] = IF j = i THEN v ELSE poll[n].size[j]
          /\ v = None => ~clean' \/ <<n, i>> \notin BlockDevices
    BY <1>8 DEF Sized
  <2>2. /\ pc[n] = "size" /\ pc'[n] = "sector" /\ poll'[n].used = poll[n].used
        /\ poll'[n].nss = poll[n].nss /\ poll'[n].unsized = poll[n].unsized
        /\ poll'[n].listing = poll[n].listing
    BY <1>8 DEF Sized
  <2>3. \A j \in NSIDs : j # i /\ Accounted(n, j) => Accounted(n, j)'
    BY <1>1, <2>1 DEF Accounted, Existing
  <2>4. clean' => Accounted(n, i)'
    <3>1. <<n, i>> \notin BlockDevices => i \notin Existing(host, n)
      BY NamespacesOfHost DEF NamespacesOf
    <3> QED
      BY <1>1, <2>1, <3>1 DEF Accounted, Existing
  <2>5. \A j \in NSIDs : Smallest(j, poll[n].unsized) => j = i
    BY <2>1, InventoryAssumption DEF Smallest
  <2>6. i \in poll[n].unsized /\ poll[n].nss \subseteq NSIDs
    BY <1>1, <2>1, PollTypes DEF Smallest
  <2>7. poll'[n].supported # "yes"
    BY <1>8 DEF Sized
  <2>8. clean' => /\ poll'[n].listing
                  /\ \A j \in poll'[n].nss \ poll'[n].unsized : Accounted(n, j)'
                  /\ \A j \in NSIDs : Smallest(j, poll'[n].unsized) => Accounted(n, j)'
    BY <1>2, <2>2, <2>3, <2>4, <2>5, <2>6
  <2> HIDE DEF Kept, Parts
  <2> QED
    BY <1>3, <2>2, <2>7, <2>8
<1>9. CASE Sectored(n)
  <2>1. PICK i \in NSIDs :
          /\ Smallest(i, poll[n].unsized)
          /\ poll'[n].unsized = poll[n].unsized \ {i}
          /\ pc'[n] = IF poll[n].unsized = {i} THEN "identify" ELSE "size"
    BY <1>9 DEF Sectored
  <2> QED
    BY <1>1, <1>2, <1>3, <1>4, <1>9, <2>1 DEF Sectored
<1>10. CASE Identified(n)
  BY <1>1, <1>2, <1>3, <1>4, <1>10 DEF Identified
<1>11. CASE Labelled(n)
  <2>1. label(n) \in {0, 1} /\ (label(n) = 1 <=> 1 \in Existing(host, n))
    BY NamespacesOfHost
  <2>2. /\ pc[n] = "label" /\ pc'[n] = "done"
        /\ poll'[n].used = label(n) \/ (poll'[n].used = 0 /\ ~clean')
        /\ poll'[n].size = poll[n].size /\ poll'[n].nss = poll[n].nss
        /\ poll'[n].unsized = poll[n].unsized /\ poll'[n].listing = poll[n].listing
    BY <1>11 DEF Labelled
  <2>3. clean' => poll'[n].used = 1 \/ \E h \in past' : 1 \notin Existing(h, n)'
    BY <1>1, <2>1, <2>2 DEF Existing
  <2> HIDE DEF Kept, Parts
  <2> QED
    BY <1>2, <1>4, <2>2, <2>3
<1> QED
  BY <1>1, <1>5, <1>6, <1>7, <1>8, <1>9, <1>10, <1>11

LEMMA WholeKept ==
  ASSUME NEW n \in Names, Whole(n), poll'[n] = poll[n], past \subseteq past',
         clean' \in {FALSE, clean}, (pc[n] = "off" /\ pc'[n] = "waiting") \/ pc'[n] = pc[n]
  PROVE  Whole(n)'
<1>1. clean' => clean
  BY Zenon
<1>2. \A i : Accounted(n, i) => Accounted(n, i)'
  BY DEF Accounted, Existing
<1> QED
  BY <1>1, <1>2 DEF Whole

LEMMA AllWholeStep ==
  TypeOK /\ Known /\ (\A n \in Names : Whole(n)) /\ [Next]_vars => (\A n \in Names : Whole(n))'
<1> SUFFICES ASSUME TypeOK, Known, \A n \in Names : Whole(n), [Next]_vars,
                    NEW m \in Names
             PROVE  Whole(m)'
  OBVIOUS
<1> USE DEF request, memory
<1>c. Fault \/ Intact => clean' \in {FALSE, clean}
  BY Zenon DEF Fault, Intact
<1>1. CASE Handle
  <2>1. pc'[m] = "off" /\ poll'[m] = NewPoll
    BY <1>1 DEF Handle
  <2> QED
    BY <2>1 DEF Whole, NewPoll
<1>2. CASE RequestStep
  <2>1. /\ UNCHANGED <<past, poll>> /\ clean' \in {FALSE, clean}
        /\ pc'[m] = pc[m] \/ (pc[m] = "off" /\ pc'[m] = "waiting")
    <3>1. CASE StartPolls
      <4>1. pc[m] = "off"
        BY <3>1 DEF StartPolls, Known
      <4> QED
        BY <3>1, <4>1 DEF StartPolls
    <3>2. CASE ~StartPolls
      BY <1>2, <1>c, <3>2 DEF RequestStep, ReadAttribute, readAttr, ListArrays, Respond,
                              ReadArray
    <3> QED
      BY <3>1, <3>2
  <2> QED
    BY <2>1, WholeKept
<1>3. ASSUME NEW n \in Names, PollStep(n) PROVE Whole(m)'
  <2>1. /\ UNCHANGED <<host, past>> /\ clean' \in {FALSE, clean}
        /\ Others(n) /\ pc[n] # "off"
    BY <1>3, PollShape
  <2>2. CASE m = n
    BY <1>3, <2>1, <2>2, WholeStep DEF Known
  <2>3. CASE m # n
    BY <2>1, <2>3, WholeKept DEF Others
  <2> QED
    BY <2>2, <2>3
<1>4. CASE HostStep
  BY <1>4, HostTypes, WholeKept DEF Change
<1>5. CASE UNCHANGED vars
  BY <1>5, WholeKept DEF vars
<1> QED
  BY <1>1, <1>2, <1>3, <1>4, <1>5 DEF Next, Quiescent

\* An answer waits for every poll.
Waited ==
  /\ \A n \in Names : pc[n] # "off" => n \in listed
  /\ phase = "answered" => \A n \in Names : pc[n] \in {"off", "done"}

LEMMA WaitedStep == TypeOK /\ Waited /\ [Next]_vars => Waited'
<1> SUFFICES ASSUME TypeOK, Waited, [Next]_vars PROVE Waited'
  OBVIOUS
<1> USE DEF request, Waited
<1>1. CASE Handle
  BY <1>1 DEF Handle, enumerationFails
<1>2. CASE RequestStep
  BY <1>2 DEF RequestStep, ReadAttribute, ListArrays, ReadArray, StartPolls, Respond
<1>3. ASSUME NEW n \in Names, PollStep(n) PROVE Waited'
  BY <1>3, PollShape DEF Others
<1>4. CASE HostStep \/ UNCHANGED vars
  BY <1>4, HostTypes DEF Change, vars
<1> QED
  BY <1>1, <1>2, <1>3, <1>4 DEF Next, Quiescent

\* The label of namespace_used_bytes comes from a second listing, made seconds
\* after the one that the sizes are from; still neither is without the other,
\* whatever changed, as long as namespace 1 was there all the time and sysfs
\* could be read.
THEOREM UsedHasItsSize == Spec => []UsedDividesBySize
<1>1. Init => Waited /\ \A n \in Names : Whole(n)
  BY DEF Init, Waited, Whole, NewPoll
<1>2. Spec => [](TypeOK /\ Known /\ Waited /\ \A n \in Names : Whole(n))
  BY <1>1, InitTypes, NextTypes, InitKnown, KnownStep, WaitedStep, AllWholeStep, PTL DEF Spec
<1>3. TypeOK /\ Known /\ Waited /\ (\A n \in Names : Whole(n)) => UsedDividesBySize
  <2> SUFFICES ASSUME TypeOK, Known, Waited, NEW n \in Names, Whole(n), phase = "answered"
               PROVE  /\ poll[n].used # 0 =>
                           poll[n].used = 1 /\ \E h \in past : 1 \in Existing(h, n)
                      /\ poll[n].supported = "yes"
                         /\ (poll[n].used = 0 <=> Sizes(<<n, 1>>) # {}) =>
                           ~clean \/ \E h \in past : 1 \notin Existing(h, n)
    BY DEF UsedDividesBySize, Existing
  <2>1. poll[n].used # 0 => poll[n].used = 1 /\ \E h \in past : 1 \in Existing(h, n)
    BY DEF Known, PollKnown
  <2>2. ASSUME clean, poll[n].supported = "yes", \A h \in past : 1 \in Existing(h, n)
        PROVE  poll[n].used = 1 /\ Sizes(<<n, 1>>) # {}
    <3>1. pc[n] = "done"
      BY <2>2 DEF Waited, Whole
    <3>2. poll[n].used = 1 /\ poll[n].listing /\ poll[n].unsized = {}
      BY <2>2, <3>1 DEF Whole
    <3>3. 1 \in poll[n].nss
      BY <2>2, <3>2 DEF Known, PollKnown
    <3>4. poll[n].size[1] # None
      BY <2>2, <3>2, <3>3, InventoryAssumption DEF Whole, Accounted
    <3> QED
      BY <3>2, <3>3, <3>4 DEF Sizes
  <2> QED
    BY <2>1, <2>2
<1> QED
  BY <1>2, <1>3, PTL

-----------------------------------------------------------------------------
(* What EveryRequestAnswered has instead of a proof: a request that is not *)
(* answered can take a step, whatever the host did to it, and its steps    *)
(* run out.  Fairness does the rest.                                       *)

\* Can the poll of n take a step?  The guards of PollStep, with what the steps
\* choose from.
PollCan(n) ==
  \/ pc[n] = "waiting" /\ Cardinality(Holders) < Workers
  \/ pc[n] \in {"list", "identify", "check", "read", "label"}
  \/ pc[n] \in {"size", "sector"} /\ \E i \in NSIDs : Smallest(i, poll[n].unsized)

\* Can the request, or one of its polls?
RequestCan ==
  /\ phase = "attributes" => unread = {} \/ \E n \in Names : First(n, unread)
  /\ phase = "arrays" => arrays = {} \/ \E a \in arrays : \A b \in arrays : a <= b
  /\ phase = "polling" => \/ \A n \in listed : pc[n] = "done"
                          \/ \E n \in listed : PollCan(n)

Underway == phase \in {"attributes", "arrays", "polling"}

\* A poll that reads the sizes of namespaces has one to read, and a listed
\* controller has a goroutine.
Busy ==
  /\ phase = "polling" => \A n \in listed : pc[n] # "off"
  /\ \A n \in Names : pc[n] \in {"size", "sector"} => poll[n].unsized # {}
  /\ phase = "attributes" /\ unread = {} => next = "model"

\* A set of numbers that is not empty has a least one.
LEMMA LeastOf ==
  ASSUME NEW S, S \subseteq Nat, S # {}
  PROVE  \E i \in S : \A j \in S : i <= j
<1>1. PICK i \in S : \A j \in S : <<j, i>> \notin OpToRel(<, Nat)
  BY NatLessThanWellFounded, WFMin
<1>2. \A j \in S : ~(j < i) /\ j \in Nat /\ i \in Nat
  BY <1>1 DEF OpToRel
<1> QED  BY <1>2

\* Where a step takes a poll that is neither listing nor reading sizes.
LEMMA HowPollsMove ==
  ASSUME TypeOK, NEW n \in Names, PollStep(n)
  PROVE  /\ pc[n] = "waiting" => pc'[n] = "list"
         /\ pc[n] = "check" => pc'[n] \in {"read", "done"}
         /\ pc[n] = "read" => pc'[n] \in {"label", "done"}
BY DEF PollStep, Acquire, ListNamespaces, ReadSize, ReadSector, Identify, Check, ReadOCP,
       Label, Goto, TypeOK

LEMMA BusyStep == TypeOK /\ Known /\ Busy /\ [Next]_vars => Busy'
<1> SUFFICES ASSUME TypeOK, Known, Busy, [Next]_vars PROVE Busy'
  OBVIOUS
<1>1. CASE Handle
  BY <1>1 DEF Handle, Busy, enumerationFails
<1>2. CASE RequestStep
  <2>1. ASSUME NEW n \in Names, ReadAttribute(n)  PROVE Busy'
    BY <2>1 DEF ReadAttribute, Busy, After, First, TypeOK, Attributes
  <2>2. CASE ListArrays \/ Respond
    BY <2>2 DEF ListArrays, Respond, Busy
  <2>3. CASE StartPolls
    BY <2>3 DEF StartPolls, Busy, TypeOK
  <2>4. ASSUME NEW a \in Arrays, ReadArray(a)  PROVE Busy'
    BY <2>4 DEF ReadArray, Busy
  <2> QED  BY <1>2, <2>1, <2>2, <2>3, <2>4 DEF RequestStep
<1>3. ASSUME NEW n \in Names, PollStep(n)  PROVE Busy'
  <2>1. /\ UNCHANGED request /\ pc'[n] # "off" /\ Others(n) /\ pc[n] # "off"
        /\ \/ Aside(n) \/ Marked(n) \/ Listed(n) \/ Sized(n) \/ Sectored(n)
           \/ Identified(n) \/ Labelled(n)
    BY <1>3, PollShape
  <2>2. phase = "polling" => \A m \in listed : pc'[m] # "off"
    BY <2>1 DEF Busy, Others, TypeOK
  <2>3. pc'[n] \in {"size", "sector"} => poll'[n].unsized # {}
    <3> USE DEF Kept, Parts
    <3>1. CASE Aside(n) \/ Marked(n)
      BY <1>3, <3>1, HowPollsMove DEF Aside, Marked
    <3>2. CASE Listed(n)
      BY <3>2 DEF Listed
    <3>3. CASE Sized(n)
      BY <3>3 DEF Sized, Busy
    <3>4. CASE Sectored(n)
      BY <3>4 DEF Sectored, Smallest
    <3>5. CASE Identified(n) \/ Labelled(n)
      BY <3>5 DEF Identified, Labelled
    <3> QED  BY <2>1, <3>1, <3>2, <3>3, <3>4, <3>5
  <2> QED  BY <2>1, <2>2, <2>3 DEF Busy, Others, request
<1>4. CASE HostStep
  BY <1>4, HostTypes DEF Change, request, Busy
<1>5. CASE UNCHANGED vars
  BY <1>5 DEF vars, request, Busy
<1> QED
  BY <1>1, <1>2, <1>3, <1>4, <1>5 DEF Next, Quiescent

LEMMA AlwaysBusy == Spec => [](TypeOK /\ Known /\ Busy)
<1>1. Init => Busy
  BY DEF Init, Busy
<1> QED
  BY <1>1, InitTypes, NextTypes, InitKnown, KnownStep, BusyStep, PTL DEF Spec

LEMMA ListedIsFinite ==
  ASSUME TypeOK
  PROVE  IsFiniteSet(listed) /\ Cardinality(listed) \in Nat
                             /\ (listed # {} => Cardinality(listed) >= 1)
<1>1. IsFiniteSet(listed)
  BY InventoryAssumption, FS_Subset DEF TypeOK
<1>2. Cardinality(listed) \in Nat /\ (Cardinality(listed) = 0 <=> listed = {})
  BY <1>1, FS_CardinalityType, FS_EmptySet
<1> QED  BY <1>1, <1>2

\* collector.go:130: as long as a request runs it can go on.  If no poll holds a
\* worker there is one to take; a poll that holds one waits for nobody, and has a
\* file to read or a command to send.
THEOREM RequestNeverStuck == Spec => [](Underway => RequestCan)
<1>1. TypeOK /\ Busy => (Underway => RequestCan)
  <2> SUFFICES ASSUME TypeOK, Busy, Underway  PROVE RequestCan
    OBVIOUS
  <2>1. CASE phase = "attributes"
    <3> SUFFICES ASSUME unread # {}  PROVE \E n \in Names : First(n, unread)
      BY <2>1 DEF RequestCan
    <3>1. unread \subseteq Names /\ {Rank[n] : n \in unread} \subseteq Nat
      BY InventoryAssumption DEF TypeOK
    <3>2. PICK i \in {Rank[n] : n \in unread} : \A j \in {Rank[n] : n \in unread} : i <= j
      BY <3>1, LeastOf
    <3> QED  BY <3>1, <3>2 DEF First
  <2>2. CASE phase = "arrays"
    BY <2>2, LeastOf, InventoryAssumption DEF RequestCan, TypeOK
  <2>3. CASE phase = "polling"
    <3> SUFFICES ASSUME NEW n \in listed, pc[n] # "done"
                 PROVE  \E m \in listed : PollCan(m)
      BY <2>3 DEF RequestCan
    <3>1. CASE Holders = {}
      <4>1. pc[n] = "waiting"
        BY <3>1 DEF Holders
      <4>2. Cardinality(Holders) = 0
        BY <3>1, FS_EmptySet
      <4>3. Workers \in Nat /\ Workers >= 1
        <5>1. Cardinality(listed) \in Nat /\ Cardinality(listed) >= 1
          BY ListedIsFinite
        <5> QED  BY <5>1, InventoryAssumption DEF Workers
      <4> QED  BY <4>1, <4>2, <4>3 DEF PollCan
    <3>2. CASE Holders # {}
      <4>1. PICK m \in listed : pc[m] \notin {"waiting", "done", "off"} /\ m \in Names
        BY <2>3, <3>2 DEF Holders, Busy, TypeOK
      <4>2. pc[m] \in {"list", "size", "sector", "identify", "check", "read", "label"}
        BY <4>1 DEF TypeOK
      <4>3. CASE pc[m] \in {"size", "sector"}
        <5>1. poll[m].unsized # {} /\ poll[m].unsized \subseteq NSIDs
          BY <4>1, <4>3 DEF Busy, TypeOK, Poll
        <5>2. \E i \in poll[m].unsized : Smallest(i, poll[m].unsized)
          BY <5>1, LeastOf, InventoryAssumption DEF Smallest
        <5> QED  BY <4>3, <5>1, <5>2 DEF PollCan
      <4> QED  BY <4>2, <4>3 DEF PollCan
    <3> QED  BY <3>1, <3>2
  <2> QED  BY <2>1, <2>2, <2>3 DEF Underway
<1> QED
  BY <1>1, AlwaysBusy, PTL

\* Bounds on what is left: the files that Controllers and MDMembership have not
\* read, and the files and commands of one poll.
Behind == CASE next = "model" -> 0 [] next = "firmware_rev" -> 1
            [] next = "serial" -> 2 [] next = "state" -> 3
RequestLeft ==
  CASE phase = "attributes" -> 4 * Cardinality(unread) - Behind + Cardinality(Arrays) + 3
    [] phase = "arrays" -> Cardinality(arrays) + 2
    [] phase = "polling" -> 1
    [] OTHER -> 0
Left(l, unsized) ==
  CASE l = "waiting"  -> 2 * Cardinality(NSIDs) + 6
    [] l = "list"     -> 2 * Cardinality(NSIDs) + 5
    [] l = "size"     -> 2 * Cardinality(unsized) + 4
    [] l = "sector"   -> 2 * Cardinality(unsized) + 3
    [] l = "identify" -> 4
    [] l = "check"    -> 3
    [] l = "read"     -> 2
    [] l = "label"    -> 1
    [] OTHER -> 0
PollLeft(n) == Left(pc[n], poll[n].unsized)

LEMMA LeftIs ==
  ASSUME NEW l \in Running, NEW S \in SUBSET NSIDs, NEW all, all = Cardinality(NSIDs),
         NEW u, u = Cardinality(S)
  PROVE  /\ Left(l, S) \in Nat
         /\ l = "waiting"  => Left(l, S) = 2 * all + 6
         /\ l = "list"     => Left(l, S) = 2 * all + 5
         /\ l = "size"     => Left(l, S) = 2 * u + 4
         /\ l = "sector"   => Left(l, S) = 2 * u + 3
         /\ l = "identify" => Left(l, S) = 4
         /\ l = "check"    => Left(l, S) = 3
         /\ l = "read"     => Left(l, S) = 2
         /\ l = "label"    => Left(l, S) = 1
         /\ l = "done"     => Left(l, S) = 0
         /\ IsFiniteSet(S) /\ all \in Nat /\ u \in 0..all
<1>1. IsFiniteSet(NSIDs)
  BY InventoryAssumption
<1>2. IsFiniteSet(S) /\ u <= all
  BY <1>1, FS_Subset
<1>3. all \in Nat /\ u \in Nat
  BY <1>1, <1>2, FS_CardinalityType
<1>4. /\ l = "waiting"  => Left(l, S) = 2 * all + 6
      /\ l = "list"     => Left(l, S) = 2 * all + 5
      /\ l = "size"     => Left(l, S) = 2 * u + 4
      /\ l = "sector"   => Left(l, S) = 2 * u + 3
      /\ l = "identify" => Left(l, S) = 4
      /\ l = "check"    => Left(l, S) = 3
      /\ l = "read"     => Left(l, S) = 2
      /\ l = "label"    => Left(l, S) = 1
      /\ l \in {"off", "done"} => Left(l, S) = 0
  BY DEF Left
<1>5. Left(l, S) \in Nat
  BY <1>3, <1>4 DEF Running
<1> QED
  BY <1>2, <1>3, <1>4, <1>5

\* Every step of a poll leaves it fewer.
LEMMA PollCounts ==
  ASSUME TypeOK, TypeOK', Busy, NEW n \in Names, PollStep(n)
  PROVE  PollLeft(n)' < PollLeft(n)
<1> DEFINE all == Cardinality(NSIDs)
           u   == Cardinality(poll[n].unsized)
           u1  == Cardinality(poll'[n].unsized)
<1>0. /\ pc[n] \in Running /\ poll[n].unsized \in SUBSET NSIDs
      /\ pc'[n] \in Running /\ poll'[n].unsized \in SUBSET NSIDs
      /\ PollLeft(n)' = Left(pc'[n], poll'[n].unsized)
  BY DEF TypeOK, Running, Poll, PollLeft
<1>1. /\ PollLeft(n) \in Nat /\ all \in Nat
      /\ u \in 0..all /\ IsFiniteSet(poll[n].unsized)
  BY <1>0, LeftIs DEF PollLeft
<1>1a. PollLeft(n)' \in Nat /\ u1 \in 0..all
  BY <1>0, LeftIs
<1>2. /\ pc[n] = "waiting"  => PollLeft(n) = 2 * all + 6
      /\ pc[n] = "list"     => PollLeft(n) = 2 * all + 5
      /\ pc[n] = "size"     => PollLeft(n) = 2 * u + 4
      /\ pc[n] = "sector"   => PollLeft(n) = 2 * u + 3
      /\ pc[n] = "identify" => PollLeft(n) = 4
      /\ pc[n] = "check"    => PollLeft(n) = 3
      /\ pc[n] = "read"     => PollLeft(n) = 2
      /\ pc[n] = "label"    => PollLeft(n) = 1
  BY <1>0, LeftIs DEF PollLeft
<1>3. /\ pc'[n] = "list"     => PollLeft(n)' = 2 * all + 5
      /\ pc'[n] = "size"     => PollLeft(n)' = 2 * u1 + 4
      /\ pc'[n] = "sector"   => PollLeft(n)' = 2 * u1 + 3
      /\ pc'[n] = "identify" => PollLeft(n)' = 4
      /\ pc'[n] = "check"    => PollLeft(n)' = 3
      /\ pc'[n] = "read"     => PollLeft(n)' = 2
      /\ pc'[n] = "label"    => PollLeft(n)' = 1
      /\ pc'[n] = "done"     => PollLeft(n)' = 0
  BY <1>0, LeftIs
<1>4. \/ Aside(n) \/ Marked(n) \/ Listed(n) \/ Sized(n) \/ Sectored(n)
      \/ Identified(n) \/ Labelled(n)
  BY PollShape
<1>5. CASE Aside(n) \/ Marked(n)
  <2>1. pc[n] \in {"waiting", "check", "read"}
    BY <1>5 DEF Aside, Marked
  <2> HIDE DEF all, u, u1
  <2> QED  BY <2>1, <1>1, <1>1a, <1>2, <1>3, HowPollsMove
<1>6. CASE Listed(n)
  <2>1. pc[n] = "list" /\ pc'[n] \in {"identify", "size"}
    BY <1>6 DEF Listed
  <2> HIDE DEF all, u, u1
  <2> QED  BY <2>1, <1>1, <1>1a, <1>2, <1>3
<1>7. CASE Sized(n)
  <2>1. pc[n] = "size" /\ pc'[n] = "sector" /\ u1 = u
    BY <1>7 DEF Sized, Kept, Parts
  <2> HIDE DEF all, u, u1
  <2> QED  BY <2>1, <1>1, <1>1a, <1>2, <1>3
<1>8. CASE Sectored(n)
  <2>1. PICK i \in poll[n].unsized :
          /\ pc[n] = "sector" /\ poll'[n].unsized = poll[n].unsized \ {i}
          /\ pc'[n] \in {"identify", "size"}
    BY <1>8 DEF Sectored, Smallest
  <2>2. Cardinality(poll[n].unsized \ {i}) = u - 1
    BY <1>1, FS_RemoveElement
  <2>3. u1 = u - 1
    BY <2>1, <2>2
  <2> HIDE DEF all, u, u1
  <2> QED  BY <2>1, <2>3, <1>1, <1>1a, <1>2, <1>3
<1>9. CASE Identified(n) \/ Labelled(n)
  <2>1. \/ pc[n] = "identify" /\ pc'[n] = "check"
        \/ pc[n] = "label" /\ pc'[n] = "done"
    BY <1>9 DEF Identified, Labelled
  <2> QED  BY <2>1, <1>2, <1>3
<1> QED
  BY <1>4, <1>5, <1>6, <1>7, <1>8, <1>9

\* Nothing else changes what a poll has left: not another poll, and not the host.
LEMMA PollLeftStays ==
  ASSUME NEW n \in Names, pc'[n] = pc[n], poll'[n] = poll[n]
  PROVE  PollLeft(n)' = PollLeft(n)
BY DEF PollLeft

\* What is left is a number, and only the request's own steps change it.
LEMMA RequestLeftIs ==
  ASSUME TypeOK, Busy
  PROVE  /\ RequestLeft \in Nat
         /\ UNCHANGED request => RequestLeft' = RequestLeft
<1>1. /\ IsFiniteSet(unread) /\ IsFiniteSet(arrays)
      /\ Cardinality(unread) \in Nat /\ Cardinality(arrays) \in Nat /\ Cardinality(Arrays) \in Nat
      /\ (Cardinality(unread) = 0 <=> unread = {})
  <2>1. IsFiniteSet(unread) /\ IsFiniteSet(arrays) /\ IsFiniteSet(Arrays)
    BY InventoryAssumption, FS_Subset DEF TypeOK
  <2> QED  BY <2>1, FS_CardinalityType, FS_EmptySet
<1>2. Behind \in 0..3 /\ (next = "model" => Behind = 0)
  BY DEF Behind, TypeOK, Attributes
<1>3. RequestLeft \in Nat
  <2>1. CASE phase = "attributes"
    <3>1. RequestLeft = 4 * Cardinality(unread) - Behind + Cardinality(Arrays) + 3
      BY <2>1 DEF RequestLeft
    <3>2. unread = {} => next = "model"
      BY <2>1 DEF Busy
    <3>3. PICK c, b, all : c = Cardinality(unread) /\ b = Behind /\ all = Cardinality(Arrays)
      OBVIOUS
    <3>4. c \in Nat /\ all \in Nat /\ b \in 0..3 /\ (c = 0 => b = 0)
      BY <1>1, <1>2, <3>2, <3>3
    <3>5. 4 * c - b + all + 3 \in Nat
      BY <3>4
    <3> QED  BY <3>1, <3>3, <3>5
  <2>2. CASE phase = "arrays"
    BY <2>2, <1>1 DEF RequestLeft
  <2>3. CASE phase \notin {"attributes", "arrays"}
    BY <2>3 DEF RequestLeft
  <2> QED  BY <2>1, <2>2, <2>3
<1>4. UNCHANGED request => RequestLeft' = RequestLeft
  BY DEF request, RequestLeft, Behind
<1> QED  BY <1>3, <1>4

\* The files that Controllers has not read grow fewer, then the arrays.
LEMMA RequestCounts ==
  ASSUME TypeOK, Busy, RequestStep
  PROVE  RequestLeft \in Nat /\ RequestLeft' \in Nat /\ RequestLeft' < RequestLeft
<1>1. /\ IsFiniteSet(unread) /\ Cardinality(unread) \in Nat
      /\ unread # {} => Cardinality(unread) >= 1
  <2>1. IsFiniteSet(unread)
    BY InventoryAssumption, FS_Subset DEF TypeOK
  <2>2. Cardinality(unread) \in Nat /\ (Cardinality(unread) = 0 <=> unread = {})
    BY <2>1, FS_CardinalityType, FS_EmptySet
  <2> QED  BY <2>1, <2>2
<1>2. Cardinality(Arrays) \in Nat
  BY InventoryAssumption, FS_CardinalityType
<1>3. ASSUME NEW S \in SUBSET Arrays
      PROVE  IsFiniteSet(S) /\ Cardinality(S) \in Nat /\ Cardinality(S) <= Cardinality(Arrays)
  <2>1. IsFiniteSet(S) /\ Cardinality(S) <= Cardinality(Arrays)
    BY InventoryAssumption, FS_Subset
  <2> QED  BY <2>1, FS_CardinalityType
<1>4. Behind \in 0..3 /\ (next = "model" => Behind = 0) /\ (next = "state" => Behind = 3)
  BY DEF Behind, TypeOK, Attributes
<1>5. ASSUME NEW n \in Names, ReadAttribute(n)
      PROVE  RequestLeft \in Nat /\ RequestLeft' \in Nat /\ RequestLeft' < RequestLeft
  <2>1. /\ phase = "attributes" /\ phase' = "attributes" /\ n \in unread
        /\ next' = After(next)
        /\ unread' = IF next = "state" THEN unread \ {n} ELSE unread
    BY <1>5 DEF ReadAttribute, First
  <2>2. /\ RequestLeft = 4 * Cardinality(unread) - Behind + Cardinality(Arrays) + 3
        /\ RequestLeft' = 4 * Cardinality(unread') - Behind' + Cardinality(Arrays) + 3
    BY <2>1 DEF RequestLeft
  <2>3. CASE next = "state"
    <3>1. Cardinality(unread') = Cardinality(unread) - 1 /\ Behind' = 0
      BY <1>1, <2>1, <2>3, FS_RemoveElement DEF After, Behind
    <3> QED  BY <1>1, <1>2, <1>4, <2>1, <2>2, <2>3, <3>1
  <2>4. CASE next # "state"
    <3>1. Cardinality(unread') = Cardinality(unread) /\ Behind' = Behind + 1
      BY <2>1, <2>4 DEF After, Behind, TypeOK, Attributes
    <3>2. PICK c, b, all : c = Cardinality(unread) /\ b = Behind /\ all = Cardinality(Arrays)
      OBVIOUS
    <3>3. c \in Nat /\ c >= 1 /\ b \in 0..3 /\ all \in Nat
      BY <1>1, <1>2, <1>4, <2>1, <3>2
    <3>4. RequestLeft = 4 * c - b + all + 3 /\ RequestLeft' = 4 * c - (b + 1) + all + 3
      BY <2>2, <3>1, <3>2
    <3> QED  BY <3>3, <3>4
  <2> QED  BY <2>3, <2>4
<1>6. CASE ListArrays
  <2>1. /\ phase = "attributes" /\ phase' = "arrays" /\ unread = {} /\ next = "model"
        /\ arrays' \in SUBSET Arrays
    BY <1>6 DEF ListArrays, Busy, TypeOK, Hosts
  <2>2. /\ RequestLeft = 4 * Cardinality(unread) - Behind + Cardinality(Arrays) + 3
        /\ RequestLeft' = Cardinality(arrays') + 2
    BY <2>1 DEF RequestLeft
  <2>3. Cardinality(arrays') \in Nat /\ Cardinality(arrays') <= Cardinality(Arrays)
    BY <2>1, <1>3
  <2> QED  BY <1>1, <1>2, <1>4, <2>1, <2>2, <2>3
<1>7. ASSUME NEW a \in Arrays, ReadArray(a)
      PROVE  RequestLeft \in Nat /\ RequestLeft' \in Nat /\ RequestLeft' < RequestLeft
  <2>1. /\ phase = "arrays" /\ phase' = "arrays" /\ a \in arrays /\ arrays' = arrays \ {a}
        /\ arrays \in SUBSET Arrays
    BY <1>7 DEF ReadArray, TypeOK
  <2>2. RequestLeft = Cardinality(arrays) + 2 /\ RequestLeft' = Cardinality(arrays') + 2
    BY <2>1 DEF RequestLeft
  <2>3. IsFiniteSet(arrays) /\ Cardinality(arrays) \in Nat /\ Cardinality(arrays') \in Nat
    BY <2>1, <1>3
  <2>4. Cardinality(arrays') = Cardinality(arrays) - 1
    BY <2>1, <2>3, FS_RemoveElement
  <2> QED  BY <2>2, <2>3, <2>4
<1>8. CASE StartPolls
  <2>1. phase = "arrays" /\ phase' = "polling" /\ Cardinality(arrays) \in Nat
    BY <1>8, <1>3 DEF StartPolls, TypeOK
  <2> QED  BY <2>1 DEF RequestLeft
<1>9. CASE Respond
  BY <1>9 DEF Respond, RequestLeft
<1> QED
  BY <1>5, <1>6, <1>7, <1>8, <1>9 DEF RequestStep

\* sysfs.go:50 and inventory.go:67: a request takes finitely many steps, since what
\* it has to read is fixed by a listing: each of its steps, and each step of a poll,
\* leaves fewer, and nothing makes them more, whatever drives, namespaces and
\* arrays come while it runs.
THEOREM StepsRunOut ==
  Spec => [][Underway =>
               /\ RequestLeft \in Nat /\ RequestLeft' \in Nat
               /\ RequestLeft' <= RequestLeft
               /\ RequestStep => RequestLeft' < RequestLeft
               /\ \A n \in Names :
                    /\ PollLeft(n) \in Nat /\ PollLeft(n)' \in Nat
                    /\ PollStep(n) => PollLeft(n)' < PollLeft(n)
                    /\ phase = "polling" => PollLeft(n)' <= PollLeft(n)]_vars
<1> DEFINE Fewer ==
      Underway =>
        /\ RequestLeft \in Nat /\ RequestLeft' \in Nat
        /\ RequestLeft' <= RequestLeft
        /\ RequestStep => RequestLeft' < RequestLeft
        /\ \A n \in Names :
             /\ PollLeft(n) \in Nat /\ PollLeft(n)' \in Nat
             /\ PollStep(n) => PollLeft(n)' < PollLeft(n)
             /\ phase = "polling" => PollLeft(n)' <= PollLeft(n)
<1>1. TypeOK /\ TypeOK' /\ Busy /\ [Next]_vars => Fewer
  <2> SUFFICES ASSUME TypeOK, TypeOK', Busy, [Next]_vars, Underway
               PROVE  Fewer
    OBVIOUS
  <2>1. /\ RequestLeft \in Nat
        /\ RequestStep => RequestLeft' \in Nat /\ RequestLeft' < RequestLeft
    BY RequestLeftIs, RequestCounts
  <2>2. ASSUME NEW n \in Names
        PROVE  PollLeft(n) \in Nat /\ PollLeft(n)' \in Nat
    <3>1. /\ pc[n] \in Running /\ poll[n].unsized \in SUBSET NSIDs
          /\ pc'[n] \in Running /\ poll'[n].unsized \in SUBSET NSIDs
          /\ PollLeft(n)' = Left(pc'[n], poll'[n].unsized)
      BY DEF TypeOK, Running, Poll, PollLeft
    <3> QED  BY <3>1, LeftIs DEF PollLeft
  <2>3. ASSUME NEW n \in Names, PollStep(n)  PROVE PollLeft(n)' < PollLeft(n)
    BY <2>3, PollCounts
  <2>4. CASE RequestStep
    <3>1. ASSUME NEW n \in Names, phase = "polling"  PROVE PollLeft(n)' = PollLeft(n)
      <4>1. Respond
        BY <2>4, <3>1 DEF RequestStep, ReadAttribute, ListArrays, ReadArray, StartPolls
      <4> QED  BY <4>1, PollLeftStays DEF Respond
    <3> QED  BY <2>1, <2>2, <2>3, <2>4, <3>1
  <2>5. ASSUME NEW m \in Names, PollStep(m)  PROVE Fewer
    <3>1. UNCHANGED request /\ Others(m)
      BY <2>5, PollShape
    <3>2. RequestLeft' = RequestLeft
      BY <3>1, RequestLeftIs
    <3>3. ASSUME NEW n \in Names  PROVE PollLeft(n)' <= PollLeft(n)
      <4>1. CASE n = m
        BY <4>1, <2>2, <2>3, <2>5
      <4>2. CASE n # m
        <5>1. PollLeft(n)' = PollLeft(n)
          BY <4>2, <3>1, PollLeftStays DEF Others
        <5> QED  BY <5>1, <2>2
      <4> QED  BY <4>1, <4>2
    <3> QED  BY <2>1, <2>2, <2>3, <3>2, <3>3
  <2>6. CASE HostStep \/ UNCHANGED vars
    <3>1. UNCHANGED request /\ UNCHANGED <<pc, poll>>
      BY <2>6, HostTypes DEF Change, vars
    <3>2. RequestLeft' = RequestLeft
      BY <3>1, RequestLeftIs
    <3>3. ASSUME NEW n \in Names  PROVE PollLeft(n)' = PollLeft(n)
      BY <3>1, PollLeftStays
    <3> QED  BY <2>1, <2>2, <2>3, <3>2, <3>3
  <2>7. ~Handle /\ ~Quiescent
    BY DEF Handle, Quiescent, Underway
  <2> QED
    BY <2>4, <2>5, <2>6, <2>7 DEF Next
<1> QED
  BY <1>1, AlwaysBusy, PTL DEF Spec

=============================================================================
