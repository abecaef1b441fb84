------------------------------ MODULE Inventory ------------------------------
(***************************************************************************)
(* What one /metrics request learns from sysfs, while the host changes: the *)
(* controllers (Controllers), the members of the md arrays (MDMembership)  *)
(* and, for each controller, its namespaces, listed once for the inventory *)
(* and once more for the label of namespace_used_bytes.  No file of sysfs  *)
(* is read together with another one, so every attribute is as old as its  *)
(* own read, and drives, namespaces and arrays come and go in between.     *)
(*                                                                         *)
(* Requests come one after the other: what overlapping ones do to the state *)
(* they share is the subject of Exporter.  Operators with a suffix are     *)
(* faulty variants, see there.                                             *)
(***************************************************************************)
EXTENDS Naturals, FiniteSets

CONSTANTS
  Names,        \* controller names
  Begins,       \* <<m, n>>: the name m is a beginning of the name n
  Rank,         \* the place of each name in a directory listing
  Drives,       \* physical drives
  Unnamed,      \* drives whose serial attribute is blank
  Mute,         \* drives whose Identify gives no model
  NSIDs,        \* namespace numbers; 1 is one of them
  Arrays,       \* md arrays, numbered in the order of a directory listing
  States,       \* states of a controller; "live" is one of them
  NumCPU,       \* runtime.NumCPU()
  InitialHosts, \* what the host may look like when the exporter starts
  MaxRequests,  \* bound: requests
  MaxTroubles   \* bound: changes of the host, and sysfs reads that fail although
                \* the file is there

\* Attributes of /sys/class/nvme/nvmeN, and the order in which they are read.
Attributes == {"model", "firmware_rev", "serial", "state"}
After(a) == CASE a = "model" -> "firmware_rev" [] a = "firmware_rev" -> "serial"
              [] a = "serial" -> "state"       [] OTHER -> "model"

None    == ""                  \* an unreadable attribute, an empty slot, ...
NoArray == 0
Blocks  == Names \X NSIDs      \* <<n, i>>: the block device of namespace i of n

\* The host: the drive behind each name, the kernel's state of it, the
\* namespaces that exist on each drive, the drives whose firmware serves page
\* 0xc0, and the array that has each block device as a member.
Hosts == [slot : [Names -> Drives \cup {None}], state : [Names -> States],
          attached : [Drives -> SUBSET NSIDs], serves : SUBSET Drives,
          member : [Blocks -> Arrays \cup {NoArray}]]

ASSUME InventoryAssumption ==
  /\ Begins \subseteq Names \X Names
  /\ Rank \in [Names -> Nat]
  /\ \A m, n \in Names : Rank[m] = Rank[n] => m = n
  /\ Unnamed \subseteq Drives /\ Mute \subseteq Drives
  /\ 1 \in NSIDs /\ NSIDs \subseteq Nat
  /\ Arrays \subseteq Nat \ {NoArray}
  /\ IsFiniteSet(Names) /\ IsFiniteSet(NSIDs) /\ IsFiniteSet(Arrays)  \* as directories are
  /\ "live" \in States
  /\ None \notin Drives \cup States
  /\ NumCPU \in Nat \ {0}
  /\ InitialHosts \subseteq Hosts
  /\ MaxRequests \in Nat /\ MaxTroubles \in Nat

VARIABLES
  host,
  troubles,      \* how much of the bound is used up
  \* the request
  phase, requests,
  listed,        \* controllers that the directory listing held
  unread,        \* controllers whose attributes are still to be read
  arrays,        \* arrays whose members are still to be read
  next,          \* the attribute of the current controller that is next
  attr,          \* the fields of each Controller
  md,            \* the map of MDMembership
  \* collectController of each name
  pc,
  poll,          \* what it has read and sent so far, see Poll
  \* scrapeState
  pageUnsupported,
  \* history
  past,          \* every host since the request arrived
  clean,         \* no read failed since then
  refusals       \* refused reads: name, serial, and which drive it was, or None
                 \* when drives were exchanged under the request

request     == <<phase, requests, listed, unread, arrays, next, attr, md>>
memory      == <<pageUnsupported, refusals>>
vars == <<host, troubles, request, pc, poll, memory, past, clean>>

Fields  == Drives \cup States \cup {None}
Serials == Drives \cup {None}

Poll == [
  nss       : SUBSET NSIDs,                \* namespaces of the first listing
  listing   : BOOLEAN,                     \* did that listing succeed?
  unsized   : SUBSET NSIDs,                \* those whose sizes are to be read
  size      : [NSIDs -> Serials],          \* which drive's size it is, and which
  sector    : [NSIDs -> Serials],          \* drive's sector size
  wire      : Serials,                     \* who answered Identify
  supported : {"absent", "no", "yes"},     \* nvme_logpage_supported of 0xc0
  used      : NSIDs \cup {0}]              \* label of namespace_used_bytes

NewPoll == [nss |-> {}, listing |-> FALSE, unsized |-> {}, size |-> [i \in NSIDs |-> None],
            sector |-> [i \in NSIDs |-> None], wire |-> None, supported |-> "absent",
            used |-> 0]

TypeOK ==
  /\ host \in Hosts /\ troubles \in 0..MaxTroubles
  /\ phase \in {"idle", "attributes", "arrays", "polling", "answered", "failed"}
  /\ requests \in 0..MaxRequests
  /\ listed \subseteq Names /\ unread \subseteq Names /\ arrays \subseteq Arrays
  /\ next \in Attributes
  /\ attr \in [Names -> [Attributes -> Fields]]
  /\ md \in [Blocks -> Arrays \cup {NoArray}]
  /\ pc \in [Names -> {"off", "waiting", "list", "size", "sector", "identify",
                       "check", "read", "label", "done"}]
  /\ poll \in [Names -> Poll]
  /\ pageUnsupported \subseteq Names \X Fields
  /\ past \subseteq Hosts /\ clean \in BOOLEAN
  /\ refusals \subseteq Names \X Fields \X Serials

Nothing == [n \in Names |-> [a \in Attributes |-> None]]

Init ==
  /\ host \in InitialHosts
  /\ troubles = 0
  /\ phase = "idle" /\ requests = 0
  /\ listed = {} /\ unread = {} /\ arrays = {} /\ next = "model"
  /\ attr = Nothing
  /\ md = [b \in Blocks |-> NoArray]
  /\ pc = [n \in Names |-> "off"]
  /\ poll = [n \in Names |-> NewPoll]
  /\ pageUnsupported = {} /\ refusals = {}
  /\ past = {} /\ clean = TRUE

-----------------------------------------------------------------------------
(* sysfs.                                                                  *)

Present == {n \in Names : host.slot[n] # None}

\* The block devices that exist now.
BlockDevices ==
  {b \in Blocks : b[1] \in Present /\ b[2] \in host.attached[host.slot[b[1]]]}

\* A listing is in the order of the names.
First(n, S) == n \in S /\ \A m \in S : Rank[n] <= Rank[m]

\* Does a read of a file, or of a directory, fail although it is there?
Fault  == troubles < MaxTroubles /\ troubles' = troubles + 1 /\ clean' = FALSE
Intact == UNCHANGED <<troubles, clean>>

\* The content of an attribute file; the file goes with its controller.
content(n, a) ==
  IF n \notin Present THEN None
  ELSE IF a = "state" THEN host.state[n]
  ELSE IF a = "serial" /\ host.slot[n] \in Unnamed THEN None
  ELSE host.slot[n]

\* An attribute that cannot be read is the empty string.
readAttr(n, a, v) ==
  \/ v = content(n, a) /\ Intact
  \/ v = None /\ Fault

\* A number of a block device that cannot be read is left zero.
readUint(n, i, v) ==
  \/ v = (IF <<n, i>> \in BlockDevices THEN host.slot[n] ELSE None) /\ Intact
  \/ v = None /\ Fault

\* namespaceRe, and the prefix that ends in an "n".
NamespacesOfAnyPrefix(n) ==
  {i \in NSIDs : \E m \in Names : (m = n \/ <<n, m>> \in Begins) /\ <<m, i>> \in BlockDevices}
NamespacesOf(n) == {i \in NSIDs : <<n, i>> \in BlockDevices}

-----------------------------------------------------------------------------
(* Handler: Controllers, in one listing and then file by file.             *)

\* The map that MDMembership fills is its own.
emptyMapKept == md
emptyMap == [b \in Blocks |-> NoArray]

\* A listing that fails ends the request with a 500; no controllers do not.
enumerationFailsAsNone == listed' = {} /\ unread' = {} /\ phase' = "attributes"
enumerationFails == listed' = {} /\ unread' = {} /\ phase' = "failed"

Handle ==
  /\ phase \in {"idle", "answered", "failed"} /\ requests < MaxRequests
  /\ requests' = requests + 1
  /\ past' = {host}
  /\ \/ /\ listed' = Present /\ unread' = Present
        /\ phase' = "attributes"
        /\ clean' = TRUE /\ UNCHANGED troubles
     \/ Fault /\ enumerationFails
  /\ next' = "model" /\ arrays' = {}
  /\ attr' = Nothing
  /\ md' = emptyMap
  /\ pc' = [n \in Names |-> "off"]
  /\ poll' = [n \in Names |-> NewPoll]
  /\ UNCHANGED <<host, memory>>

ReadAttribute(n) ==
  /\ phase = "attributes" /\ First(n, unread)
  /\ \E v \in Fields : readAttr(n, next, v) /\ attr' = [attr EXCEPT ![n][next] = v]
  /\ next' = After(next)
  /\ unread' = IF next = "state" THEN unread \ {n} ELSE unread
  /\ UNCHANGED <<host, phase, requests, listed, arrays, md, pc, poll, memory, past>>

-----------------------------------------------------------------------------
(* Collect: MDMembership, then a goroutine per controller.                 *)

\* A membership that cannot be read is logged and taken for no arrays.
ListArrays ==
  /\ phase = "attributes" /\ unread = {}
  /\ phase' = "arrays"
  /\ \/ arrays' = {host.member[b] : b \in Blocks} \ {NoArray} /\ Intact
     \/ UNCHANGED arrays /\ Fault
  /\ UNCHANGED <<host, requests, listed, unread, next, attr, md, pc, poll,
                 memory, past>>

\* An array that is gone, or cannot be listed, is left out; a block device that
\* turns up in two arrays stays with the later one.
ReadArray(a) ==
  /\ phase = "arrays" /\ a \in arrays /\ \A b \in arrays : a <= b
  /\ arrays' = arrays \ {a}
  /\ \/ md' = [b \in Blocks |-> IF host.member[b] = a THEN a ELSE md[b]] /\ Intact
     \/ UNCHANGED md /\ Fault
  /\ UNCHANGED <<host, phase, requests, listed, unread, next, attr, pc, poll,
                 memory, past>>

StartPolls ==
  /\ phase = "arrays" /\ arrays = {}
  /\ phase' = "polling"
  /\ pc' = [n \in Names |-> IF n \in listed THEN "waiting" ELSE "off"]
  /\ UNCHANGED <<host, troubles, requests, listed, unread, arrays, next, attr, md,
                 poll, memory, past, clean>>

Workers == IF Cardinality(listed) < NumCPU THEN Cardinality(listed) ELSE NumCPU
HoldersLeaked == {n \in listed : pc[n] # "waiting"}
Holders == {n \in listed : pc[n] \notin {"waiting", "done"}}

Goto(n, label) == pc' = [pc EXCEPT ![n] = label]

Acquire(n) ==
  /\ pc[n] = "waiting"
  /\ Cardinality(Holders) < Workers
  /\ Goto(n, "list")
  /\ UNCHANGED <<host, troubles, request, poll, memory, past, clean>>

\* wg.Wait
Respond ==
  /\ phase = "polling" /\ \A n \in listed : pc[n] = "done"
  /\ phase' = "answered"
  /\ UNCHANGED <<host, troubles, requests, listed, unread, arrays, next, attr, md,
                 pc, poll, memory, past, clean>>

-----------------------------------------------------------------------------
(* collectInventory.                                                       *)

\* A failure is logged, not returned: the rest of the inventory goes on.
ListNamespaces(n) ==
  /\ pc[n] = "list"
  /\ \/ /\ Intact
        /\ poll' = [poll EXCEPT ![n].listing = TRUE, ![n].nss = NamespacesOf(n),
                                ![n].unsized = NamespacesOf(n)]
        /\ Goto(n, IF NamespacesOf(n) = {} THEN "identify" ELSE "size")
     \/ /\ Fault
        /\ Goto(n, "identify")
        /\ UNCHANGED poll
  /\ UNCHANGED <<host, request, memory, past>>

Smallest(i, S) == i \in S /\ \A j \in S : i <= j

ReadSize(n) ==
  /\ pc[n] = "size"
  /\ \E i \in NSIDs, v \in Serials :
       /\ Smallest(i, poll[n].unsized)
       /\ readUint(n, i, v)
       /\ poll' = [poll EXCEPT ![n].size[i] = v]
  /\ Goto(n, "sector")
  /\ UNCHANGED <<host, request, memory, past>>

ReadSector(n) ==
  /\ pc[n] = "sector"
  /\ \E i \in NSIDs, v \in Serials :
       /\ Smallest(i, poll[n].unsized)
       /\ readUint(n, i, v)
       /\ poll' = [poll EXCEPT ![n].sector[i] = v, ![n].unsized = @ \ {i}]
       /\ Goto(n, IF poll[n].unsized = {i} THEN "identify" ELSE "size")
  /\ UNCHANGED <<host, request, memory, past>>

\* A controller that is not live refuses admin commands.
Answers(n) == n \in Present /\ host.state[n] = "live"

\* When Identify fails there is no device_info, and the poll goes on.
Identify(n) ==
  /\ pc[n] = "identify"
  /\ poll' = [poll EXCEPT ![n].wire = IF Answers(n) THEN host.slot[n] ELSE None]
  /\ Goto(n, "check")
  /\ UNCHANGED <<host, troubles, request, memory, past, clean>>

-----------------------------------------------------------------------------
(* collectOCP.                                                             *)

Key(n) == <<n, attr[n]["serial"]>>

pageKnownUnsupportedByName(n) == \E k \in pageUnsupported : k[1] = n
pageKnownUnsupported(n) == Key(n) \in pageUnsupported

Check(n) ==
  /\ pc[n] = "check"
  /\ IF pageKnownUnsupported(n)
       THEN poll' = [poll EXCEPT ![n].supported = "no"] /\ Goto(n, "done")
       ELSE UNCHANGED poll /\ Goto(n, "read")
  /\ UNCHANGED <<host, troubles, request, memory, past, clean>>

Refuser(n) ==
  IF \A h \in past : h.slot[n] = host.slot[n] THEN host.slot[n] ELSE None

\* A refusal and its mark are one step, since no other request overlaps.
ReadOCP(n) ==
  /\ pc[n] = "read"
  /\ \/ /\ ~Answers(n)
        /\ Goto(n, "done")
        /\ UNCHANGED <<poll, memory>>
     \/ /\ Answers(n) /\ host.slot[n] \notin host.serves
        /\ poll' = [poll EXCEPT ![n].supported = "no"]
        /\ pageUnsupported' = pageUnsupported \cup {Key(n)}
        /\ refusals' = refusals \cup {<<n, attr[n]["serial"], Refuser(n)>>}
        /\ Goto(n, "done")
     \/ /\ Answers(n) /\ host.slot[n] \in host.serves
        /\ poll' = [poll EXCEPT ![n].supported = "yes"]
        /\ Goto(n, "label")
        /\ UNCHANGED memory
  /\ UNCHANGED <<host, troubles, request, past, clean>>

\* The label, or 0: sysfs need not list namespace 1 first, nor have one.
labelFirst(n) ==
  IF NamespacesOf(n) = {} THEN 0 ELSE CHOOSE i \in NamespacesOf(n) : Smallest(i, NamespacesOf(n))
label(n) == IF 1 \in NamespacesOf(n) THEN 1 ELSE 0

namespaceOne(n, i) ==
  \/ i = label(n) /\ Intact
  \/ i = 0 /\ Fault

\* NUSE is about namespace 1; without one the metric is left out.
Label(n) ==
  /\ pc[n] = "label"
  /\ \E i \in NSIDs \cup {0} : namespaceOne(n, i) /\ poll' = [poll EXCEPT ![n].used = i]
  /\ Goto(n, "done")
  /\ UNCHANGED <<host, request, memory, past>>

-----------------------------------------------------------------------------
(* The host changes under the request.                                     *)

Change(h) ==
  /\ troubles < MaxTroubles /\ troubles' = troubles + 1
  /\ h # host /\ host' = h
  /\ past' = past \cup {h}
  /\ UNCHANGED <<request, pc, poll, memory, clean>>

\* A drive is pulled or put in; what is put in is live.
Swap(n, d) ==
  /\ d # None => \A m \in Names : host.slot[m] # d
  /\ Change([host EXCEPT !.slot[n] = d, !.state[n] = "live"])

SetState(n, s) == n \in Present /\ Change([host EXCEPT !.state[n] = s])

Attach(d, i) == Change([host EXCEPT !.attached[d] = @ \cup {i}])
Detach(d, i) == Change([host EXCEPT !.attached[d] = @ \ {i}])

\* A block device joins an array, or leaves the one it is in.
Join(b, a)  == b \in BlockDevices /\ host.member[b] = NoArray
               /\ Change([host EXCEPT !.member[b] = a])
Leave(b)    == Change([host EXCEPT !.member[b] = NoArray])

\* New firmware serves a page that the old one refused.
Update(d) == Change([host EXCEPT !.serves = @ \cup {d}])

HostStep ==
  \/ \E n \in Names : \E d \in Drives \cup {None} : Swap(n, d)
  \/ \E n \in Names : \E s \in States : SetState(n, s)
  \/ \E d \in Drives : Update(d) \/ \E i \in NSIDs : Attach(d, i) \/ Detach(d, i)
  \/ \E b \in Blocks : Leave(b) \/ \E a \in Arrays : Join(b, a)

Quiescent ==
  /\ phase \in {"answered", "failed"} /\ requests = MaxRequests
  /\ UNCHANGED vars

PollStep(n) ==
  \/ Acquire(n) \/ ListNamespaces(n) \/ ReadSize(n) \/ ReadSector(n)
  \/ Identify(n) \/ Check(n) \/ ReadOCP(n) \/ Label(n)

RequestStep ==
  \/ \E n \in Names : ReadAttribute(n)
  \/ ListArrays \/ StartPolls \/ Respond
  \/ \E a \in Arrays : ReadArray(a)

Next ==
  \/ Handle \/ RequestStep
  \/ \E n \in Names : PollStep(n)
  \/ HostStep \/ Quiescent

Spec == Init /\ [][Next]_vars

\* The goroutines run, reads of sysfs end, and so does every command, which has
\* a time limit (see Deadlines).  Nothing makes requests arrive.
FairSpec ==
  /\ Spec
  /\ WF_vars(RequestStep)
  /\ \A n \in Names : WF_vars(PollStep(n))

-----------------------------------------------------------------------------
(* The series that the polls send, as functions of what they have read.    *)

\* controller_state, and controller_live beside it, when there is a state.
ControllerState == {<<n, attr[n]["state"]>> : n \in {m \in listed : attr[m]["state"] # None}}
ControllerLiveDefault == {<<n, attr[n]["state"] = "live">> : n \in listed}
ControllerLive == {<<s[1], s[2] = "live">> : s \in ControllerState}

\* namespaces_active is how many a listing had; a size of zero has no series.
NamespacesActive == [n \in {m \in Names : poll[m].listing} |-> poll[n].nss]
Sizes(b) == IF b[2] \in poll[b[1]].nss THEN {poll[b[1]].size[b[2]]} \ {None} ELSE {}
Sectors(b) == IF b[2] \in poll[b[1]].nss THEN {poll[b[1]].sector[b[2]]} \ {None} ELSE {}
NamespaceMD(b) == IF b[2] \in poll[b[1]].nss THEN {md[b]} \ {NoArray} ELSE {}

\* device_info: sysfs wins, and the wire fills in; no series without Identify.
fromWireWins(n, a) ==
  IF a = "model" /\ poll[n].wire \in Mute THEN None ELSE poll[n].wire
fromSysfs(n, a) ==
  IF attr[n][a] # None THEN attr[n][a]
  ELSE IF a = "model" /\ poll[n].wire \in Mute THEN None ELSE poll[n].wire
DeviceInfo ==
  {[device |-> n, serial |-> attr[n]["serial"], model |-> fromSysfs(n, "model"),
    firmware |-> fromSysfs(n, "firmware_rev"), vendor |-> poll[n].wire] :
     n \in {m \in Names : poll[m].wire # None}}

-----------------------------------------------------------------------------
(* Properties.                                                             *)

\* The drive d was behind n all the time since the request arrived.
Stayed(n, d) == \A h \in past : h.slot[n] = d

\* handler.go:24: an answer tells how many controllers there are, and an answer
\* with none is not what a failure looks like.  A controller that was there all
\* the time is among those of an answered request, and each of those was there
\* at some time.
DiscoveredMatchesHost ==
  phase = "answered" =>
    \A n \in Names :
      /\ n \in listed => \E h \in past : h.slot[n] # None
      /\ n \notin listed => \E h \in past : h.slot[n] = None

\* inventory.go:55-64: a controller is reported in a state, or as live or not,
\* only if it was so while the request ran; a state that could not be read is
\* not reported as "not live".
StateWasTrue ==
  phase = "answered" =>
    /\ \A s \in ControllerState :
         \E h \in past : h.slot[s[1]] # None /\ h.state[s[1]] = s[2]
    /\ \A l \in ControllerLive :
         \E h \in past : h.slot[l[1]] # None /\ (l[2] <=> h.state[l[1]] = "live")

\* inventory.go:67, sysfs.go:60: a namespace that is counted existed while the
\* request ran, on this controller and no other; one that existed all the time
\* is counted, if its size can be read or not.
NamespacesMatchHost ==
  phase = "answered" =>
    \A n \in DOMAIN NamespacesActive, i \in NSIDs :
      LET existed(h) == h.slot[n] # None /\ i \in h.attached[h.slot[n]]
      IN  /\ i \in NamespacesActive[n] => \E h \in past : existed(h)
          /\ i \notin NamespacesActive[n] => \E h \in past : ~existed(h)

\* collector.go:115: the membership is read once, before the polls, array by
\* array; still a namespace is shown in an array only if it was in it while the
\* request ran, and if it was in one all the time and no read failed, it is.
MembershipWasTrue ==
  phase = "answered" =>
    \A b \in Blocks :
      /\ \A a \in NamespaceMD(b) : \E h \in past : h.member[b] = a
      /\ clean /\ b[2] \in poll[b[1]].nss /\ NamespaceMD(b) = {} =>
           \E h \in past : h.member[b] = NoArray

\* inventory.go:99: the labels of device_info come from two places and from five
\* reads, and the sizes from more.  If one drive was there all the time they are
\* all its own, and none but the serial is blank when sysfs could be read.
InfoIsOfOneDrive ==
  phase = "answered" =>
    \A n \in Names, d \in Drives :
      Stayed(n, d) =>
        /\ \A i \in NSIDs : Sizes(<<n, i>>) \cup Sectors(<<n, i>>) \subseteq {d}
        /\ \A l \in {l \in DeviceInfo : l.device = n} :
             /\ l.serial \in {d, None} /\ l.vendor = d
             /\ l.model \in {d, None} /\ l.firmware = d
             /\ clean => l.model = d

\* README.md:233: namespace_used_bytes is about namespace 1 and divides by the
\* namespace_size_bytes of the same poll.  The two come from two listings, with
\* all the commands before page 0xc0 between them; that one of them is sent
\* without the other means that namespace 1 was not there at a moment since the
\* request arrived, or that a read of sysfs failed.
UsedDividesBySize ==
  phase = "answered" =>
    \A n \in Names :
      LET existed(h) == h.slot[n] # None /\ 1 \in h.attached[h.slot[n]]
      IN  /\ poll[n].used # 0 => poll[n].used = 1 /\ \E h \in past : existed(h)
          /\ poll[n].supported = "yes" /\ (poll[n].used = 0 <=> Sizes(<<n, 1>>) # {}) =>
               ~clean \/ \E h \in past : ~existed(h)

\* collector.go:52, :237: a controller is reported without page 0xc0 only if
\* the page was refused under its name and serial, by the drive that has this
\* serial (maybe with older firmware) unless drives were exchanged under that
\* request.  Drives without a readable serial share what is remembered of them.
RefusalIsItsOwn ==
  phase = "answered" =>
    \A n \in listed :
      poll[n].supported = "no" =>
        \E r \in refusals :
          /\ r[1] = n /\ r[2] = attr[n]["serial"]
          /\ r[2] # None => r[3] \in {r[2], None}

\* A request whose controllers could be listed is answered: each poll gets a
\* worker in the end (collector.go:130-146).
EveryRequestAnswered ==
  phase \in {"attributes", "arrays", "polling"} ~> phase = "answered"

=============================================================================
