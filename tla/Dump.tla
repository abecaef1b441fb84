-------------------------------- MODULE Dump --------------------------------
(***************************************************************************)
(* The dump command (Run, dumpIdentify, dumpPages) writing a directory     *)
(* file by file, meta.json last, and the replay source (NewReplay, readBin) *)
(* that answers from such a directory in place of the drives.              *)
(*                                                                         *)
(* A write is two steps, because os.WriteFile truncates and then writes,   *)
(* and the process may be killed in between.  Between two runs a drive may *)
(* change what it serves: new firmware, or another drive behind the name.  *)
(*                                                                         *)
(* An operator that stands in front of another one and has its name with a *)
(* suffix is a faulty variant of it: no action uses it, it is there to     *)
(* show that a property fails when the code goes wrong in this way.        *)
(***************************************************************************)
EXTENDS Naturals, Sequences, FiniteSets

CONSTANTS
  Ctrls,     \* controllers, in the order of Controllers()
  Pages,     \* log pages, in the order of dump.go's table
  MaxRuns,   \* bound: runs of the dump command
  MaxFaults  \* bound: reads and writes that fail

ASSUME DumpAssumption ==
  /\ Ctrls \in Seq(STRING) /\ Pages \in Seq(STRING \ {"identify", "meta.json"})
  /\ \A i, j \in 1..Len(Ctrls) : Ctrls[i] = Ctrls[j] => i = j
  /\ \A i, j \in 1..Len(Pages) : Pages[i] = Pages[j] => i = j
  /\ Len(Ctrls) > 0  \* Run refuses to dump nothing
  /\ MaxRuns \in Nat /\ MaxFaults \in Nat

\* identify.bin comes before the pages.
Order == <<"identify">> \o Pages
Names == {Ctrls[i] : i \in 1..Len(Ctrls)}
Files == {Order[i] : i \in 1..Len(Order)}
Cells == Names \X Files
MetaFile == <<"", "meta.json">>

VARIABLES
  serves,  \* what each controller answers now
  faults,
  run,     \* runs so far
  pc,      \* what the run does next
  at, of,  \* the controller it is at, and the file of that controller
  \* the directory of the last run
  disk,    \* which run wrote each file: 0 is no file
  torn,    \* files truncated but not written
  meta,    \* which run wrote meta.json: 0 is no file
  reused,  \* history: did an earlier run write to this directory?
  told,    \* history: how the drives answered each run, per controller and file
  replay   \* the run whose meta.json a replay source has read: 0 is none

vars == <<serves, faults, run, pc, at, of, disk, torn, meta, reused, told, replay>>

Answers == {"unasked", "data", "unsupported"}

TypeOK ==
  /\ serves \in SUBSET Cells
  /\ faults \in 0..MaxFaults /\ run \in 0..MaxRuns
  /\ pc \in {"idle", "namespaces", "read", "write", "meta", "writeMeta"}
  /\ at \in 1..Len(Ctrls) + 1 /\ of \in 1..Len(Order)
  /\ disk \in [Cells -> 0..MaxRuns]
  /\ torn \in SUBSET (Cells \cup {MetaFile})
  /\ meta \in 0..MaxRuns /\ reused \in BOOLEAN
  /\ told \in [1..MaxRuns -> [Cells -> Answers]]
  /\ replay \in 0..MaxRuns

Cell == <<Ctrls[at], Order[of]>>
CanFail == faults < MaxFaults /\ faults' = faults + 1
Abort == pc' = "idle" /\ UNCHANGED <<at, of>>

Init ==
  /\ serves \in SUBSET Cells
  /\ faults = 0 /\ run = 0
  /\ pc = "idle" /\ at = 1 /\ of = 1
  /\ disk = [c \in Cells |-> 0]
  /\ torn = {} /\ meta = 0 /\ reused = FALSE
  /\ told = [r \in 1..MaxRuns |-> [c \in Cells |-> "unasked"]]
  /\ replay = 0

-----------------------------------------------------------------------------
(* Run.                                                                    *)

\* Controllers() named some drives; MkdirAll takes a directory that is there.
\* An operator who names a new one leaves the old one, and what replays it.
Start ==
  /\ pc = "idle" /\ run < MaxRuns
  /\ run' = run + 1
  /\ pc' = "namespaces" /\ at' = 1 /\ of' = 1
  /\ \/ run > 0 /\ reused' = TRUE /\ UNCHANGED <<disk, torn, meta, replay>>
     \/ /\ disk' = [c \in Cells |-> 0]
        /\ torn' = {} /\ meta' = 0 /\ reused' = FALSE /\ replay' = 0
  /\ UNCHANGED <<serves, faults, told>>

\* Unlike in a scrape, namespaces that cannot be listed end the run.
ListNamespaces ==
  /\ pc = "namespaces"
  /\ \/ pc' = "read" /\ UNCHANGED <<faults, at, of>>
     \/ CanFail /\ Abort
  /\ UNCHANGED <<serves, run, disk, torn, meta, reused, told, replay>>

\* To the next file, the next controller, or meta.json.
NextFileButLast ==
  IF of < Len(Order)
  THEN pc' = "read" /\ of' = of + 1 /\ UNCHANGED at
  ELSE /\ of' = 1 /\ at' = at + 1
       /\ pc' = IF at + 1 < Len(Ctrls) THEN "namespaces" ELSE "meta"
NextFile ==
  IF of < Len(Order)
  THEN pc' = "read" /\ of' = of + 1 /\ UNCHANGED at
  ELSE /\ of' = 1 /\ at' = at + 1
       /\ pc' = IF at < Len(Ctrls) THEN "namespaces" ELSE "meta"

\* A refused file is skipped; any other failure of a read, or an Identify too
\* short to scrub, ends the run.
Told(answer) == told' = [told EXCEPT ![run][Cell] = answer]

ReadSkippingFailures ==
  /\ pc = "read"
  /\ \/ /\ Cell \in serves /\ Told("data")
        /\ pc' = "write" /\ UNCHANGED <<faults, at, of>>
     \/ Cell \notin serves /\ Told("unsupported") /\ NextFile /\ UNCHANGED faults
     \/ CanFail /\ NextFile /\ UNCHANGED told
  /\ UNCHANGED <<serves, run, disk, torn, meta, reused, replay>>

Read ==
  /\ pc = "read"
  /\ \/ /\ Cell \in serves /\ Told("data")
        /\ pc' = "write" /\ UNCHANGED <<faults, at, of>>
     \/ Cell \notin serves /\ Told("unsupported") /\ NextFile /\ UNCHANGED faults
     \/ CanFail /\ Abort /\ UNCHANGED told
  /\ UNCHANGED <<serves, run, disk, torn, meta, reused, replay>>

\* os.WriteFile: open and truncate, then write; either may fail.
Write ==
  /\ pc = "write"
  /\ \/ /\ Cell \notin torn
        /\ torn' = torn \cup {Cell}
        /\ UNCHANGED <<disk, faults, pc, at, of>>
     \/ /\ Cell \in torn
        /\ torn' = torn \ {Cell} /\ disk' = [disk EXCEPT ![Cell] = run]
        /\ NextFile /\ UNCHANGED faults
     \/ CanFail /\ Abort /\ UNCHANGED <<torn, disk>>
  /\ UNCHANGED <<serves, run, meta, reused, told, replay>>

WriteMeta ==
  /\ pc \in {"meta", "writeMeta"}
  /\ \/ /\ pc = "meta"
        /\ torn' = torn \cup {MetaFile} /\ pc' = "writeMeta"
        /\ UNCHANGED <<meta, faults, at, of>>
     \/ /\ pc = "writeMeta"
        /\ torn' = torn \ {MetaFile} /\ meta' = run
        /\ Abort /\ UNCHANGED faults
     \/ CanFail /\ Abort /\ UNCHANGED <<torn, meta>>
  /\ UNCHANGED <<serves, run, disk, reused, told, replay>>

\* The process is killed.
Kill ==
  /\ pc # "idle"
  /\ Abort
  /\ UNCHANGED <<serves, faults, run, disk, torn, meta, reused, told, replay>>

Change ==
  /\ pc = "idle" /\ run < MaxRuns
  /\ serves' \in SUBSET Cells
  /\ UNCHANGED <<faults, run, pc, at, of, disk, torn, meta, reused, told, replay>>

-----------------------------------------------------------------------------
(* Replay.                                                                 *)

\* No meta.json, or one that does not parse, is no source.
NewReplay ==
  /\ meta # 0 /\ MetaFile \notin torn
  /\ replay' = meta
  /\ UNCHANGED <<serves, faults, run, pc, at, of, disk, torn, meta, reused, told>>

\* A missing file answers as an unsupported page does.
readBin(c) ==
  IF c \in torn THEN "short" ELSE IF disk[c] = 0 THEN "unsupported" ELSE "data"

-----------------------------------------------------------------------------

Next ==
  \/ Start \/ ListNamespaces \/ Read \/ Write \/ WriteMeta \/ Kill
  \/ Change \/ NewReplay
  \/ pc = "idle" /\ run = MaxRuns /\ UNCHANGED vars

Spec == Init /\ [][Next]_vars

\* CONTRIBUTING.md:51: a source opened on a directory that only one run wrote
\* to answers every read as the drives answered that run, which asked for all of
\* them, however often runs before it failed or were killed: meta.json is written
\* last, and a source cannot be opened without it.
ReplayAnswersLikeDrive ==
  replay # 0 /\ ~reused => \A c \in Cells : readBin(c) = told[replay][c]

\* What Archive speaks of.
Heard == IF run = 0 THEN [c \in Cells |-> "unasked"] ELSE told[run]
Content ==
  IF meta # 0 /\ MetaFile \notin torn THEN [c \in Cells |-> readBin(c)] ELSE <<>>

Kept == INSTANCE Archive WITH heard <- Heard, content <- Content, mixed <- reused

\* CONTRIBUTING.md:51 and dump.go:137: a directory of one run can be opened from
\* one step on, which is when every answer is in it, and no answer changes while
\* it can.
ImplementsArchive == Kept!Spec

\* CONTRIBUTING.md:61: "A log page file is only present if the controller
\* supports that page", at least once a run has succeeded.
PresentOnlyIfSupported ==
  run # 0 /\ meta = run /\ MetaFile \notin torn =>
    \A c \in Cells : c[2] # "identify" /\ disk[c] # 0 => told[run][c] = "data"
=============================================================================
