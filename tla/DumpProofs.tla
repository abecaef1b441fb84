----------------------------- MODULE DumpProofs -----------------------------
(***************************************************************************)
(* That a replay source answers as the drives did, for any controllers and *)
(* pages and however runs fail.  A run works through the cells in order;   *)
(* the invariant says of each cell before the one it is at that it is      *)
(* settled (the controller answered, and its file is there, whole, if and  *)
(* only if that was with data), and of each later one that it has no file. *)
(* meta.json comes when every cell is before the place of the run, so all  *)
(* are settled.                                                            *)
(***************************************************************************)
EXTENDS Dump, TLAPS

CellAt(i, j) == <<Ctrls[i], Order[j]>>
Places == (1..Len(Ctrls)) \X (1..Len(Order))

Before(i, j) == i < at \/ (i = at /\ j < of)
Here(i, j) == i = at /\ j = of

Settled(c) ==
  /\ told[run][c] \in {"data", "unsupported"}
  /\ c \notin torn /\ disk[c] = IF told[run][c] = "data" THEN run ELSE 0
Missing(c) == c \notin torn /\ disk[c] = 0 /\ told[run][c] = "unasked"

\* Where a run can be.
Position ==
  /\ pc # "idle" => run \in 1..MaxRuns
  /\ pc \in {"namespaces", "read", "write"} => at <= Len(Ctrls)
  /\ pc \in {"meta", "writeMeta"} => at = Len(Ctrls) + 1
  /\ \A r \in 1..MaxRuns : r > run => told[r] = [c \in Cells |-> "unasked"]

\* What a run that has its directory to itself has written.
Progress ==
  ~reused /\ pc # "idle" =>
    \A i \in 1..Len(Ctrls), j \in 1..Len(Order) :
      /\ Before(i, j) => Settled(CellAt(i, j))
      /\ ~Before(i, j) /\ ~(Here(i, j) /\ pc = "write") => Missing(CellAt(i, j))
      /\ Here(i, j) /\ pc = "write" =>
           disk[CellAt(i, j)] = 0 /\ told[run][CellAt(i, j)] = "data"

\* It has meta.json only when it is over and every cell is settled.
Complete ==
  ~reused =>
    /\ meta \in {0, run} /\ replay \in {0, meta}
    /\ meta # 0 =>
         /\ pc = "idle"
         /\ \A i \in 1..Len(Ctrls), j \in 1..Len(Order) : Settled(CellAt(i, j))

IInv == TypeOK /\ Position /\ Progress /\ Complete

-----------------------------------------------------------------------------
(* Places and cells.                                                       *)

\* Every file has one place in the order, and none is meta.json.
LEMMA OrderIsInjective ==
  /\ Len(Order) \in Nat /\ Len(Order) >= 1
  /\ Len(Ctrls) \in Nat /\ Len(Ctrls) >= 1
  /\ \A i, j \in 1..Len(Order) : Order[i] = Order[j] => i = j
  /\ \A j \in 1..Len(Order) : Order[j] # "meta.json"
<1>1. Len(Order) = Len(Pages) + 1 /\ Len(Pages) \in Nat /\ Len(Ctrls) \in Nat
  BY DumpAssumption DEF Order
<1>2. Order[1] = "identify"
  BY DumpAssumption DEF Order
<1>3. \A j \in 2..Len(Order) :
         /\ Order[j] = Pages[j - 1] /\ j - 1 \in 1..Len(Pages)
         /\ Order[j] # "identify" /\ Order[j] # "meta.json"
  <2> SUFFICES ASSUME NEW j \in 2..Len(Order)
               PROVE  /\ Order[j] = Pages[j - 1] /\ j - 1 \in 1..Len(Pages)
                      /\ Order[j] # "identify" /\ Order[j] # "meta.json"
    OBVIOUS
  <2>1. j - 1 \in 1..Len(Pages)
    BY <1>1
  <2>2. Order[j] = Pages[j - 1]
    BY <1>1, DumpAssumption DEF Order
  <2>3. Pages[j - 1] \in STRING \ {"identify", "meta.json"}
    BY <2>1, DumpAssumption
  <2> QED
    BY <2>1, <2>2, <2>3
<1>4. \A i, j \in 1..Len(Order) : Order[i] = Order[j] => i = j
  <2> SUFFICES ASSUME NEW i \in 1..Len(Order), NEW j \in 1..Len(Order),
                      Order[i] = Order[j]
               PROVE  i = j
    OBVIOUS
  <2>1. CASE i = 1 \/ j = 1
    BY <2>1, <1>1, <1>2, <1>3
  <2>2. CASE i \in 2..Len(Order) /\ j \in 2..Len(Order)
    <3>1. Pages[i - 1] = Pages[j - 1]
      BY <2>2, <1>3
    <3>2. i - 1 = j - 1
      BY <3>1, <2>2, <1>3, DumpAssumption
    <3> QED
      BY <3>2, <1>1
  <2> QED
    BY <2>1, <2>2, <1>1
<1>5. \A j \in 1..Len(Order) : Order[j] # "meta.json"
  BY <1>1, <1>2, <1>3
<1> QED
  BY <1>1, <1>4, <1>5, DumpAssumption

\* Different places are different cells, and every cell has a place.
LEMMA CellsHavePlaces ==
  /\ \A i, k \in 1..Len(Ctrls), j, l \in 1..Len(Order) :
       CellAt(i, j) = CellAt(k, l) => i = k /\ j = l
  /\ \A i \in 1..Len(Ctrls), j \in 1..Len(Order) : CellAt(i, j) \in Cells
  /\ \A c \in Cells : \E i \in 1..Len(Ctrls), j \in 1..Len(Order) : c = CellAt(i, j)
  /\ MetaFile \notin Cells
<1>1. ASSUME NEW i \in 1..Len(Ctrls), NEW k \in 1..Len(Ctrls),
             NEW j \in 1..Len(Order), NEW l \in 1..Len(Order),
             CellAt(i, j) = CellAt(k, l)
      PROVE  i = k /\ j = l
  <2>1. Ctrls[i] = Ctrls[k] /\ Order[j] = Order[l]
    BY <1>1 DEF CellAt
  <2> QED
    BY <2>1, OrderIsInjective, DumpAssumption
<1>2. ASSUME NEW i \in 1..Len(Ctrls), NEW j \in 1..Len(Order)
      PROVE  CellAt(i, j) \in Cells
  BY DEF CellAt, Cells, Names, Files
<1>3. ASSUME NEW c \in Cells
      PROVE  \E i \in 1..Len(Ctrls), j \in 1..Len(Order) : c = CellAt(i, j)
  <2>1. PICK n \in Names, f \in Files : c = <<n, f>>
    BY DEF Cells
  <2>2. PICK i \in 1..Len(Ctrls) : n = Ctrls[i]
    BY DEF Names
  <2>3. PICK j \in 1..Len(Order) : f = Order[j]
    BY DEF Files
  <2> QED
    BY <2>1, <2>2, <2>3 DEF CellAt
<1>4. MetaFile \notin Cells
  <2>1. "meta.json" \notin Files
    BY OrderIsInjective DEF Files
  <2> QED
    BY <2>1 DEF MetaFile, Cells
<1> QED
  BY <1>1, <1>2, <1>3, <1>4

\* NextFile puts exactly the current place behind it.
LEMMA NextFileAdvances ==
  ASSUME TypeOK, at <= Len(Ctrls), NextFile
  PROVE  /\ at' \in 1..Len(Ctrls) + 1 /\ of' \in 1..Len(Order)
         /\ pc' \in {"read", "namespaces", "meta"}
         /\ pc' \in {"read", "namespaces"} => at' <= Len(Ctrls)
         /\ pc' = "meta" => at' = Len(Ctrls) + 1
         /\ \A i \in 1..Len(Ctrls), j \in 1..Len(Order) :
              Before(i, j)' <=> Before(i, j) \/ Here(i, j)
<1>1. CASE of < Len(Order)
  BY <1>1, OrderIsInjective DEF TypeOK, NextFile, Before, Here
<1>2. CASE of = Len(Order)
  BY <1>2, OrderIsInjective DEF TypeOK, NextFile, Before, Here
<1> QED
  BY <1>1, <1>2, OrderIsInjective DEF TypeOK

-----------------------------------------------------------------------------
(* The invariant holds.                                                    *)

LEMMA InitHolds == Init => IInv
<1> SUFFICES ASSUME Init
             PROVE  IInv
  OBVIOUS
<1>1. 1 \in 1..Len(Order) /\ 1 \in 1..Len(Ctrls) + 1
      /\ 0 \in 0..MaxRuns /\ 0 \in 0..MaxFaults
  BY OrderIsInjective, DumpAssumption
<1>2. disk \in [Cells -> 0..MaxRuns] /\ told \in [1..MaxRuns -> [Cells -> Answers]]
  BY <1>1 DEF Init, Answers
<1>3. TypeOK
  BY <1>1, <1>2 DEF Init, TypeOK
<1>4. Position /\ Progress /\ Complete
  BY DEF Init, Position, Progress, Complete
<1> QED
  BY <1>3, <1>4 DEF IInv

LEMMA StartKeeps == IInv /\ Start => IInv'
<1> SUFFICES ASSUME IInv, Start
             PROVE  IInv'
  OBVIOUS
<1>0. 1 \in 1..Len(Order) /\ 1 \in 1..Len(Ctrls) + 1 /\ 0 \in 0..MaxRuns
  BY OrderIsInjective, DumpAssumption
<1>1. TypeOK'
  <2>1. disk' \in [Cells -> 0..MaxRuns]
    BY <1>0 DEF Start, IInv, TypeOK
  <2>2. run' \in 0..MaxRuns
    BY DumpAssumption DEF Start, IInv, TypeOK
  <2> QED
    BY <1>0, <2>1, <2>2 DEF Start, IInv, TypeOK
<1>2. Position'
  BY OrderIsInjective, DumpAssumption DEF Start, IInv, TypeOK, Position
<1>3. Progress'
  <2> SUFFICES ASSUME ~reused', NEW i \in 1..Len(Ctrls), NEW j \in 1..Len(Order)
               PROVE  /\ ~Before(i, j)' /\ Missing(CellAt(i, j))'
    BY DEF Start, Progress, CellAt, Missing
  <2>1. /\ disk' = [c \in Cells |-> 0] /\ torn' = {}
        /\ run' = run + 1 /\ told' = told /\ at' = 1 /\ of' = 1
        /\ pc' = "namespaces"
    BY DEF Start
  <2>2. CellAt(i, j)' = CellAt(i, j) /\ CellAt(i, j) \in Cells
    BY CellsHavePlaces DEF CellAt
  <2>3. told[run + 1] = [c \in Cells |-> "unasked"]
    BY <2>1, DumpAssumption DEF Start, IInv, TypeOK, Position
  <2>4. ~Before(i, j)'
    BY <2>1 DEF Before
  <2> QED
    BY <2>1, <2>2, <2>3, <2>4 DEF Missing
<1>4. Complete'
  BY DEF Start, Complete
<1> QED
  BY <1>1, <1>2, <1>3, <1>4 DEF IInv

LEMMA ListNamespacesKeeps == IInv /\ ListNamespaces => IInv'
<1> SUFFICES ASSUME IInv, ListNamespaces
             PROVE  IInv'
  OBVIOUS
<1>1. TypeOK'
  BY DumpAssumption DEF ListNamespaces, IInv, TypeOK, CanFail, Abort
<1>2. Position'
  BY DEF ListNamespaces, IInv, TypeOK, Position, CanFail, Abort
<1>3. Progress'
  BY DEF ListNamespaces, IInv, Progress, CanFail, Abort, Before, Here, Settled,
         Missing, CellAt
<1>4. Complete'
  BY DEF ListNamespaces, IInv, Progress, Complete, CanFail, Abort
<1> QED
  BY <1>1, <1>2, <1>3, <1>4 DEF IInv

\* An answer is noted for this run and this file.
LEMMA ToldIs ==
  ASSUME TypeOK, NEW answer \in Answers, Told(answer),
         run \in 1..MaxRuns, Cell \in Cells
  PROVE  /\ told' \in [1..MaxRuns -> [Cells -> Answers]]
         /\ \A c \in Cells : told'[run][c] = IF c = Cell THEN answer ELSE told[run][c]
         /\ \A r \in 1..MaxRuns : r # run => told'[r] = told[r]
<1> DEFINE row == [told[run] EXCEPT ![Cell] = answer]
<1>1. told[run] \in [Cells -> Answers]
  BY DEF TypeOK
<1>2. /\ row \in [Cells -> Answers]
      /\ \A c \in Cells : row[c] = IF c = Cell THEN answer ELSE told[run][c]
  BY <1>1
<1>3. told' = [told EXCEPT ![run] = row]
  BY DEF Told
<1> HIDE DEF row
<1> QED
  BY <1>2, <1>3 DEF TypeOK

LEMMA ReadKeeps == IInv /\ Read => IInv'
<1> SUFFICES ASSUME IInv, Read
             PROVE  IInv'
  OBVIOUS
<1>0. pc = "read"
  BY DEF Read
<1>1. /\ pc = "read" /\ at \in 1..Len(Ctrls) /\ of \in 1..Len(Order)
      /\ run \in 1..MaxRuns /\ Cell = CellAt(at, of) /\ Cell \in Cells
  BY <1>0, CellsHavePlaces, OrderIsInjective DEF IInv, TypeOK, Position, Cell, CellAt
<1>2. CASE /\ Cell \in serves /\ Told("data")
           /\ pc' = "write" /\ UNCHANGED <<faults, at, of>>
  <2>0. UNCHANGED <<run, disk, torn, meta, reused, replay, serves>>
    BY DEF Read
  <2>1. /\ told' \in [1..MaxRuns -> [Cells -> Answers]]
        /\ \A c \in Cells : told'[run][c] = IF c = Cell THEN "data" ELSE told[run][c]
        /\ \A r \in 1..MaxRuns : r # run => told'[r] = told[r]
    BY <1>1, <1>2, ToldIs DEF IInv, Answers
  <2>2. TypeOK'
    <3>1. told' \in [1..MaxRuns -> [Cells -> Answers]]
      BY <2>1
    <3> QED
      BY <3>1, <1>2, <2>0 DEF IInv, TypeOK
  <2>3. Position'
    BY <1>1, <1>2, <2>0, <2>1 DEF IInv, TypeOK, Position
  <2>4. Progress'
    <3> SUFFICES ASSUME ~reused', NEW i \in 1..Len(Ctrls), NEW j \in 1..Len(Order)
                 PROVE  /\ Before(i, j)' => Settled(CellAt(i, j))'
                        /\ ~Before(i, j)' /\ ~(Here(i, j)' /\ pc' = "write") => Missing(CellAt(i, j))'
                        /\ Here(i, j)' /\ pc' = "write" =>
                             disk'[CellAt(i, j)] = 0 /\ told'[run'][CellAt(i, j)] = "data"
      BY DEF Progress, CellAt, Missing, Settled
    <3>1. Before(i, j)' = Before(i, j) /\ Here(i, j)' = Here(i, j)
      BY <1>2 DEF Before, Here
    <3>2. /\ Before(i, j) => Settled(CellAt(i, j))
          /\ ~Before(i, j) => Missing(CellAt(i, j))
      BY <1>1, <2>0 DEF IInv, Progress
    <3>3. CellAt(i, j) = Cell <=> Here(i, j)
      BY <1>1, CellsHavePlaces DEF Here
    <3>4. Here(i, j) => ~Before(i, j)
      BY <1>1 DEF Here, Before
    <3>5. CellAt(i, j)' = CellAt(i, j) /\ CellAt(i, j) \in Cells
      BY CellsHavePlaces DEF CellAt
    <3> QED
      BY <1>2, <2>0, <2>1, <3>1, <3>2, <3>3, <3>4, <3>5 DEF Settled, Missing
  <2>5. Complete'
    BY <1>1, <2>0 DEF IInv, Complete
  <2> QED
    BY <2>2, <2>3, <2>4, <2>5 DEF IInv
<1>3. CASE Cell \notin serves /\ Told("unsupported") /\ NextFile /\ UNCHANGED faults
  <2>0. UNCHANGED <<run, disk, torn, meta, reused, replay, serves>>
    BY DEF Read
  <2>1. /\ at' \in 1..Len(Ctrls) + 1 /\ of' \in 1..Len(Order)
        /\ pc' \in {"read", "namespaces", "meta"}
        /\ pc' \in {"read", "namespaces"} => at' <= Len(Ctrls)
        /\ pc' = "meta" => at' = Len(Ctrls) + 1
        /\ \A i \in 1..Len(Ctrls), j \in 1..Len(Order) :
             Before(i, j)' <=> Before(i, j) \/ Here(i, j)
    BY <1>1, <1>3, NextFileAdvances DEF IInv
  <2>2. /\ told' \in [1..MaxRuns -> [Cells -> Answers]]
        /\ \A c \in Cells : told'[run][c] = IF c = Cell THEN "unsupported" ELSE told[run][c]
        /\ \A r \in 1..MaxRuns : r # run => told'[r] = told[r]
    BY <1>1, <1>3, ToldIs DEF IInv, Answers
  <2>3. TypeOK'
    BY <1>3, <2>0, <2>1, <2>2 DEF IInv, TypeOK
  <2>4. Position'
    BY <1>1, <1>3, <2>0, <2>1, <2>2 DEF IInv, Position
  <2>5. Progress'
    <3> SUFFICES ASSUME ~reused', NEW i \in 1..Len(Ctrls), NEW j \in 1..Len(Order)
                 PROVE  /\ Before(i, j)' => Settled(CellAt(i, j))'
                        /\ ~Before(i, j)' => Missing(CellAt(i, j))'
      BY <2>1 DEF Progress, CellAt, Missing, Settled
    <3>1. /\ Before(i, j) => Settled(CellAt(i, j))
          /\ ~Before(i, j) => Missing(CellAt(i, j))
      BY <1>1, <2>0 DEF IInv, Progress
    <3>2. CellAt(i, j)' = CellAt(i, j) /\ CellAt(i, j) \in Cells
      BY CellsHavePlaces DEF CellAt
    <3>3. CellAt(i, j) = Cell <=> Here(i, j)
      BY <1>1, CellsHavePlaces DEF Here
    <3>4. Here(i, j) => ~Before(i, j)
      BY <1>1 DEF Here, Before
    <3> QED
      BY <2>0, <2>1, <2>2, <3>1, <3>2, <3>3, <3>4 DEF Settled, Missing
  <2>6. Complete'
    BY <1>1, <2>0 DEF IInv, Complete
  <2> QED
    BY <2>3, <2>4, <2>5, <2>6 DEF IInv
<1>4. CASE CanFail /\ Abort /\ UNCHANGED told
  <2>0. UNCHANGED <<run, disk, torn, meta, reused, replay, serves>>
    BY DEF Read
  <2>1. TypeOK'
    BY <1>4, <2>0, DumpAssumption DEF IInv, TypeOK, CanFail, Abort
  <2>2. Position'
    BY <1>4, <2>0 DEF IInv, Position, Abort
  <2>3. Progress' /\ Complete'
    BY <1>1, <1>4, <2>0 DEF IInv, Progress, Complete, Abort
  <2> QED
    BY <2>1, <2>2, <2>3 DEF IInv
<1> QED
  BY <1>2, <1>3, <1>4 DEF Read

LEMMA WriteKeeps == IInv /\ Write => IInv'
<1> SUFFICES ASSUME IInv, Write
             PROVE  IInv'
  OBVIOUS
<1>0. UNCHANGED <<serves, run, meta, reused, told, replay>>
  BY DEF Write
<1>1. /\ pc = "write" /\ at \in 1..Len(Ctrls) /\ of \in 1..Len(Order)
      /\ run \in 1..MaxRuns /\ Cell = CellAt(at, of) /\ Cell \in Cells
  BY CellsHavePlaces, OrderIsInjective
  DEF Write, IInv, TypeOK, Position, Cell, CellAt
<1>2. CASE /\ Cell \notin torn
           /\ torn' = torn \cup {Cell}
           /\ UNCHANGED <<disk, faults, pc, at, of>>
  <2>1. TypeOK'
    BY <1>0, <1>1, <1>2 DEF IInv, TypeOK
  <2>2. Position'
    BY <1>0, <1>2 DEF IInv, Position
  <2>3. Progress'
    <3> SUFFICES ASSUME ~reused', NEW i \in 1..Len(Ctrls), NEW j \in 1..Len(Order)
                 PROVE  /\ Before(i, j)' => Settled(CellAt(i, j))'
                        /\ ~Before(i, j)' /\ ~(Here(i, j)' /\ pc' = "write") => Missing(CellAt(i, j))'
                        /\ Here(i, j)' /\ pc' = "write" =>
                             disk'[CellAt(i, j)] = 0 /\ told'[run'][CellAt(i, j)] = "data"
      BY DEF Progress, CellAt, Missing, Settled
    <3>1. Before(i, j)' = Before(i, j) /\ Here(i, j)' = Here(i, j)
      BY <1>2 DEF Before, Here
    <3>2. /\ Before(i, j) => Settled(CellAt(i, j))
          /\ ~Before(i, j) /\ ~Here(i, j) => Missing(CellAt(i, j))
          /\ Here(i, j) => disk[CellAt(i, j)] = 0 /\ told[run][CellAt(i, j)] = "data"
      BY <1>0, <1>1 DEF IInv, Progress
    <3>3. CellAt(i, j) = Cell <=> Here(i, j)
      BY <1>1, CellsHavePlaces DEF Here
    <3>4. Here(i, j) => ~Before(i, j)
      BY <1>1 DEF Here, Before
    <3>5. CellAt(i, j)' = CellAt(i, j)
      BY DEF CellAt
    <3> QED
      BY <1>0, <1>1, <1>2, <3>1, <3>2, <3>3, <3>4, <3>5 DEF Settled, Missing
  <2>4. Complete'
    BY <1>0, <1>1 DEF IInv, Complete
  <2> QED
    BY <2>1, <2>2, <2>3, <2>4 DEF IInv
<1>3. CASE /\ Cell \in torn
           /\ torn' = torn \ {Cell} /\ disk' = [disk EXCEPT ![Cell] = run]
           /\ NextFile /\ UNCHANGED faults
  <2>1. /\ at' \in 1..Len(Ctrls) + 1 /\ of' \in 1..Len(Order)
        /\ pc' \in {"read", "namespaces", "meta"}
        /\ pc' \in {"read", "namespaces"} => at' <= Len(Ctrls)
        /\ pc' = "meta" => at' = Len(Ctrls) + 1
        /\ \A i \in 1..Len(Ctrls), j \in 1..Len(Order) :
             Before(i, j)' <=> Before(i, j) \/ Here(i, j)
    BY <1>1, <1>3, NextFileAdvances DEF IInv
  <2>2. TypeOK'
    <3>1. disk' \in [Cells -> 0..MaxRuns]
      BY <1>1, <1>3 DEF IInv, TypeOK
    <3> QED
      BY <1>0, <1>3, <2>1, <3>1 DEF IInv, TypeOK
  <2>3. Position'
    BY <1>0, <1>1, <1>3, <2>1 DEF IInv, Position
  <2>4. Progress'
    <3> SUFFICES ASSUME ~reused', NEW i \in 1..Len(Ctrls), NEW j \in 1..Len(Order)
                 PROVE  /\ Before(i, j)' => Settled(CellAt(i, j))'
                        /\ ~Before(i, j)' => Missing(CellAt(i, j))'
      BY <2>1 DEF Progress, CellAt, Missing, Settled
    <3>1. /\ Before(i, j) => Settled(CellAt(i, j))
          /\ ~Before(i, j) /\ ~Here(i, j) => Missing(CellAt(i, j))
          /\ Here(i, j) => told[run][CellAt(i, j)] = "data"
      BY <1>0, <1>1 DEF IInv, Progress
    <3>2. CellAt(i, j)' = CellAt(i, j) /\ CellAt(i, j) \in Cells
      BY CellsHavePlaces DEF CellAt
    <3>3. CellAt(i, j) = Cell <=> Here(i, j)
      BY <1>1, CellsHavePlaces DEF Here
    <3>4. Here(i, j) => ~Before(i, j)
      BY <1>1 DEF Here, Before
    <3>5. disk'[CellAt(i, j)] = IF Here(i, j) THEN run ELSE disk[CellAt(i, j)]
      BY <1>1, <1>3, <3>2, <3>3 DEF IInv, TypeOK
    <3>6. CellAt(i, j) \in torn' <=> CellAt(i, j) \in torn /\ ~Here(i, j)
      BY <1>3, <3>3
    <3> QED
      BY <1>0, <2>1, <3>1, <3>2, <3>3, <3>4, <3>5, <3>6 DEF Settled, Missing
  <2>5. Complete'
    BY <1>0, <1>1 DEF IInv, Complete
  <2> QED
    BY <2>2, <2>3, <2>4, <2>5 DEF IInv
<1>4. CASE CanFail /\ Abort /\ UNCHANGED <<torn, disk>>
  <2>1. TypeOK'
    BY <1>0, <1>4, DumpAssumption DEF IInv, TypeOK, CanFail, Abort
  <2>2. Position'
    BY <1>0, <1>4 DEF IInv, Position, Abort
  <2>3. Progress' /\ Complete'
    BY <1>0, <1>1, <1>4 DEF IInv, Progress, Complete, Abort
  <2> QED
    BY <2>1, <2>2, <2>3 DEF IInv
<1> QED
  BY <1>2, <1>3, <1>4 DEF Write

LEMMA WriteMetaKeeps == IInv /\ WriteMeta => IInv'
<1> SUFFICES ASSUME IInv, WriteMeta
             PROVE  IInv'
  OBVIOUS
<1>0. UNCHANGED <<serves, run, disk, reused, told, replay>>
  BY DEF WriteMeta
<1>1. pc \in {"meta", "writeMeta"} /\ at = Len(Ctrls) + 1 /\ run \in 1..MaxRuns
  BY DEF WriteMeta, IInv, Position
<1>2. ~reused =>
        /\ meta = 0 /\ replay = 0
        /\ \A i \in 1..Len(Ctrls), j \in 1..Len(Order) :
             Before(i, j) /\ ~Here(i, j) /\ Settled(CellAt(i, j))
  <2>1. \A i \in 1..Len(Ctrls), j \in 1..Len(Order) : Before(i, j) /\ ~Here(i, j)
    BY <1>1, OrderIsInjective DEF Before, Here
  <2> QED
    BY <1>1, <2>1 DEF IInv, Progress, Complete
<1>3. \A c \in Cells : c \in torn' <=> c \in torn
  BY CellsHavePlaces DEF WriteMeta
<1>4. ASSUME ~reused
      PROVE  \A i \in 1..Len(Ctrls), j \in 1..Len(Order) : Settled(CellAt(i, j))'
  <2> SUFFICES ASSUME NEW i \in 1..Len(Ctrls), NEW j \in 1..Len(Order)
               PROVE  Settled(CellAt(i, j))'
    BY OrderIsInjective
  <2>1. CellAt(i, j)' = CellAt(i, j) /\ CellAt(i, j) \in Cells
    BY CellsHavePlaces DEF CellAt
  <2> QED
    BY <1>0, <1>2, <1>3, <1>4, <2>1 DEF Settled
<1>5. TypeOK'
  BY <1>0, <1>1, DumpAssumption DEF WriteMeta, IInv, TypeOK, CanFail, Abort
<1>6. Position'
  BY <1>0, <1>1 DEF WriteMeta, IInv, Position, Abort
<1>7. Progress'
  <2>1. CASE pc' = "idle"
    BY <2>1 DEF Progress
  <2>2. CASE pc' = "writeMeta" /\ UNCHANGED <<meta, faults, at, of>>
    <3> SUFFICES ASSUME ~reused', NEW i \in 1..Len(Ctrls), NEW j \in 1..Len(Order)
                 PROVE  /\ Before(i, j)' /\ ~Here(i, j)' /\ Settled(CellAt(i, j))'
      BY DEF Progress, CellAt, Missing, Settled
    <3>1. Before(i, j)' = Before(i, j) /\ Here(i, j)' = Here(i, j)
      BY <2>2 DEF Before, Here
    <3> QED
      BY <1>0, <1>2, <1>4, <2>2, <3>1
  <2> QED
    BY <2>1, <2>2 DEF WriteMeta, Abort
<1>8. Complete'
  <2>1. CASE meta' = run /\ pc' = "idle"
    BY <1>0, <1>2, <1>4, <2>1 DEF Complete
  <2>2. CASE meta' = meta
    BY <1>0, <1>2, <2>2 DEF Complete
  <2> QED
    BY <2>1, <2>2 DEF WriteMeta, Abort
<1> QED
  BY <1>5, <1>6, <1>7, <1>8 DEF IInv

LEMMA NextKeeps == IInv /\ [Next]_vars => IInv'
<1> SUFFICES ASSUME IInv, [Next]_vars
             PROVE  IInv'
  OBVIOUS
<1>1. CASE Start
  BY <1>1, StartKeeps
<1>2. CASE ListNamespaces
  BY <1>2, ListNamespacesKeeps
<1>3. CASE Read
  BY <1>3, ReadKeeps
<1>4. CASE Write
  BY <1>4, WriteKeeps
<1>5. CASE WriteMeta
  BY <1>5, WriteMetaKeeps
<1>6. CASE Kill
  <2>1. TypeOK'
    BY <1>6 DEF Kill, IInv, TypeOK, Abort
  <2>2. Position'
    BY <1>6 DEF Kill, IInv, Position, Abort
  <2>3. Progress' /\ Complete'
    BY <1>6 DEF Kill, IInv, Progress, Complete, Abort
  <2> QED
    BY <2>1, <2>2, <2>3 DEF IInv
<1>7. CASE Change
  <2>1. TypeOK'
    BY <1>7 DEF Change, IInv, TypeOK
  <2>2. Position'
    BY <1>7 DEF Change, IInv, Position
  <2>3. Progress' /\ Complete'
    BY <1>7 DEF Change, IInv, Progress, Complete, Settled, CellAt
  <2> QED
    BY <2>1, <2>2, <2>3 DEF IInv
<1>8. CASE NewReplay
  <2>1. TypeOK'
    BY <1>8 DEF NewReplay, IInv, TypeOK
  <2>2. Position'
    BY <1>8 DEF NewReplay, IInv, Position
  <2>3. ~reused => pc = "idle"
    BY <1>8 DEF NewReplay, IInv, Complete
  <2>4. Progress' /\ Complete'
    BY <1>8, <2>3 DEF NewReplay, IInv, Progress, Complete, Settled, CellAt
  <2> QED
    BY <2>1, <2>2, <2>4 DEF IInv
<1>9. CASE UNCHANGED vars
  BY <1>9 DEF vars, IInv, TypeOK, Position, Progress, Complete, Before, Here,
              Settled, Missing, CellAt
<1> QED
  BY <1>1, <1>2, <1>3, <1>4, <1>5, <1>6, <1>7, <1>8, <1>9 DEF Next

-----------------------------------------------------------------------------
(* Theorems.                                                               *)

\* Every reachable state is of its types: of dump.go:73-199, no run leaves the
\* bounds of its two loops.
THEOREM TypeCorrect == Spec => []TypeOK
<1>1. Spec => []IInv
  BY InitHolds, NextKeeps, PTL DEF Spec
<1> QED
  BY <1>1, PTL DEF IInv

LEMMA FaithfulByInvariant == IInv => ReplayAnswersLikeDrive
<1> SUFFICES ASSUME IInv, replay # 0, ~reused, NEW c \in Cells
             PROVE  readBin(c) = told[replay][c]
  BY DEF ReplayAnswersLikeDrive
<1>1. pc = "idle" /\ replay = run /\ meta = run /\ meta # 0
  BY DEF IInv, Complete
<1>2. Settled(c)
  <2>1. PICK i \in 1..Len(Ctrls), j \in 1..Len(Order) : c = CellAt(i, j)
    BY CellsHavePlaces
  <2> QED
    BY <1>1, <2>1 DEF IInv, Complete
<1> QED
  BY <1>1, <1>2 DEF Settled, readBin

\* A replay source over a directory that only one run wrote to answers every
\* read as the drives answered that run (CONTRIBUTING.md:51), whatever the
\* controllers and pages, and wherever earlier runs failed or were killed.
THEOREM ReplayIsFaithful == Spec => []ReplayAnswersLikeDrive
<1>1. Spec => []IInv
  BY InitHolds, NextKeeps, PTL DEF Spec
<1> QED
  BY <1>1, FaithfulByInvariant, PTL

-----------------------------------------------------------------------------
(* The steps of Archive.  In a directory of its own, a run has no meta.json *)
(* until it is over, so the directory stays closed while it is heard.       *)

LEMMA ClosedWhileRunning ==
  ASSUME IInv, ~reused, pc # "idle"
  PROVE  /\ run \in 1..MaxRuns /\ meta = 0
         /\ Content = Kept!Closed /\ Heard = told[run]
<1>1. run \in 1..MaxRuns /\ meta = 0
  BY DEF IInv, Position, Complete
<1> QED
  BY <1>1, DumpAssumption DEF Content, Heard, Kept!Closed

LEMMA InitArchive == Init => Kept!Init
BY DEF Init, Kept!Init, Kept!Closed, Heard, Content

LEMMA StartArchive == IInv /\ Start => Kept!Next
<1> SUFFICES ASSUME IInv, Start
             PROVE  Kept!Next
  OBVIOUS
<1>1. CASE reused'
  BY <1>1 DEF Kept!Next, Kept!Mix
<1>2. CASE ~reused'
  <2>1. /\ run' = run + 1 /\ told' = told /\ meta' = 0 /\ reused' = FALSE
        /\ run \in Nat /\ run' \in 1..MaxRuns
    BY <1>2, DumpAssumption DEF Start, IInv, TypeOK
  <2>2. told[run'] = [c \in Cells |-> "unasked"]
    BY <2>1 DEF IInv, Position
  <2>3. Heard' = [c \in Cells |-> "unasked"] /\ Content' = Kept!Closed
    BY <2>1, <2>2 DEF Heard, Content, Kept!Closed
  <2> QED
    BY <2>1, <2>3 DEF Kept!Next, Kept!Begin
<1> QED
  BY <1>1, <1>2

\* A step that leaves alone what the directory holds and what was heard.
LEMMA AsideArchive ==
  ASSUME UNCHANGED <<run, disk, torn, meta, reused, told>>
  PROVE  UNCHANGED Kept!vars
BY DEF Kept!vars, Heard, Content, readBin

\* An answer is heard once, while the directory is closed.
LEMMA HearArchive ==
  ASSUME IInv, ~reused, UNCHANGED <<run, disk, torn, meta, reused>>,
         pc = "read", NEW answer \in {"data", "unsupported"}, Told(answer)
  PROVE  Kept!Next
<1>0. Cell = CellAt(at, of) /\ at \in 1..Len(Ctrls) /\ of \in 1..Len(Order)
  BY OrderIsInjective DEF IInv, TypeOK, Position, Cell, CellAt
<1>1. Cell \in Cells
  BY <1>0, CellsHavePlaces
<1>2. run \in 1..MaxRuns /\ Content = Kept!Closed /\ Heard = told[run] /\ meta = 0
  BY ClosedWhileRunning
<1>3. told[run][Cell] = "unasked"
  <2>1. ~Before(at, of)
    BY <1>0 DEF Before
  <2> QED
    BY <1>0, <2>1 DEF IInv, Progress, Missing
<1>4. told'[run] = [told[run] EXCEPT ![Cell] = answer]
  BY <1>2 DEF Told, IInv, TypeOK
<1>5. Heard' = [Heard EXCEPT ![Cell] = answer] /\ Content' = Content
  <2>1. Heard' = told'[run]
    BY <1>2, DumpAssumption DEF Heard
  <2>2. Content' = Kept!Closed
    BY <1>2 DEF Content, Kept!Closed
  <2> QED
    BY <1>2, <1>4, <2>1, <2>2
<1>6. Kept!Hear(Cell, answer)
  BY <1>2, <1>3, <1>5 DEF Kept!Hear
<1> QED
  BY <1>1, <1>6 DEF Kept!Next

LEMMA ReadArchive == IInv /\ Read => Kept!Next \/ UNCHANGED Kept!vars
<1> SUFFICES ASSUME IInv, Read
             PROVE  Kept!Next \/ UNCHANGED Kept!vars
  OBVIOUS
<1>0. pc = "read" /\ UNCHANGED <<run, disk, torn, meta, reused>>
  BY DEF Read
<1>1. CASE reused
  BY <1>0, <1>1 DEF Kept!Next, Kept!Mix
<1>2. CASE ~reused /\ Told("data")
  BY <1>0, <1>2, HearArchive
<1>3. CASE ~reused /\ Told("unsupported")
  BY <1>0, <1>3, HearArchive
<1>4. CASE UNCHANGED told
  BY <1>0, <1>4, AsideArchive
<1> QED
  BY <1>1, <1>2, <1>3, <1>4 DEF Read

LEMMA WriteArchive == IInv /\ Write => Kept!Next \/ UNCHANGED Kept!vars
<1> SUFFICES ASSUME IInv, Write
             PROVE  Kept!Next \/ UNCHANGED Kept!vars
  OBVIOUS
<1>0. pc = "write" /\ UNCHANGED <<run, meta, reused, told>>
  BY DEF Write
<1>1. CASE reused
  BY <1>0, <1>1 DEF Kept!Next, Kept!Mix
<1>2. CASE ~reused
  <2>1. meta = 0 /\ Content = Kept!Closed
    BY <1>0, <1>2, ClosedWhileRunning
  <2>2. Content' = Kept!Closed /\ Heard' = Heard
    BY <1>0, <2>1 DEF Content, Heard, Kept!Closed
  <2> QED
    BY <1>0, <2>1, <2>2 DEF Kept!vars
<1> QED
  BY <1>1, <1>2

\* The directory opens with the last step of the last write.
LEMMA WriteMetaArchive ==
  IInv /\ IInv' /\ WriteMeta => Kept!Next \/ UNCHANGED Kept!vars
<1> SUFFICES ASSUME IInv, IInv', WriteMeta
             PROVE  Kept!Next \/ UNCHANGED Kept!vars
  OBVIOUS
<1>0. pc \in {"meta", "writeMeta"} /\ UNCHANGED <<run, disk, reused, told>>
  BY DEF WriteMeta
<1>1. CASE reused
  BY <1>0, <1>1 DEF Kept!Next, Kept!Mix
<1>2. CASE ~reused /\ meta' = meta
  <2>1. meta = 0 /\ Content = Kept!Closed
    BY <1>0, <1>2, ClosedWhileRunning
  <2>2. Content' = Kept!Closed /\ Heard' = Heard
    BY <1>0, <1>2, <2>1 DEF Content, Heard, Kept!Closed
  <2> QED
    BY <1>0, <2>1, <2>2 DEF Kept!vars
<1>3. CASE ~reused /\ torn' = torn \ {MetaFile} /\ meta' = run
  <2>1. run \in 1..MaxRuns /\ Content = Kept!Closed /\ Heard = told[run]
    BY <1>0, <1>3, ClosedWhileRunning
  <2>2. meta' # 0 /\ MetaFile \notin torn'
    BY <1>3, <2>1
  <2>3. \A c \in Cells : Settled(c)'
    <3> TAKE c \in Cells
    <3>1. PICK i \in 1..Len(Ctrls), j \in 1..Len(Order) : c = CellAt(i, j)
      BY CellsHavePlaces
    <3>2. c = CellAt(i, j)'
      BY <3>1 DEF CellAt
    <3> QED
      BY <1>0, <1>3, <2>2, <3>1, <3>2 DEF IInv, Complete, Settled
  <2>4. \A c \in Cells :
          readBin(c)' = told[run][c] /\ told[run][c] \in {"data", "unsupported"}
    BY <1>0, <2>1, <2>3 DEF Settled, readBin
  <2>5. told[run] = [c \in Cells |-> told[run][c]]
    BY <2>1 DEF IInv, TypeOK
  <2>6. Content' = told[run]
    <3>1. Content' = [c \in Cells |-> readBin(c)']
      BY <2>2 DEF Content
    <3> QED
      BY <2>4, <2>5, <3>1
  <2>7. Heard' = Heard
    BY <1>0 DEF Heard
  <2> QED
    BY <1>0, <2>1, <2>4, <2>6, <2>7 DEF Kept!Next, Kept!Publish
<1> QED
  BY <1>1, <1>2, <1>3 DEF WriteMeta

LEMMA StepArchive == IInv /\ IInv' /\ [Next]_vars => [Kept!Next]_(Kept!vars)
<1> SUFFICES ASSUME IInv, IInv', [Next]_vars
             PROVE  Kept!Next \/ UNCHANGED Kept!vars
  OBVIOUS
<1>1. CASE Start
  BY <1>1, StartArchive
<1>2. CASE ListNamespaces \/ Kill \/ Change \/ NewReplay \/ UNCHANGED vars
  BY <1>2, AsideArchive DEF ListNamespaces, Kill, Change, NewReplay, vars
<1>3. CASE Read
  BY <1>3, ReadArchive
<1>4. CASE Write
  BY <1>4, WriteArchive
<1>5. CASE WriteMeta
  BY <1>5, WriteMetaArchive
<1> QED
  BY <1>1, <1>2, <1>3, <1>4, <1>5 DEF Next

\* dump.go:137 and CONTRIBUTING.md:51: file by file, with failures and kills between
\* any two steps, a run does what Archive does in one: the directory stays closed
\* until every answer is in it, and then keeps them.
THEOREM DumpImplementsArchive == Spec => ImplementsArchive
<1>1. Spec => []IInv
  BY InitHolds, NextKeeps, PTL DEF Spec
<1> QED
  BY <1>1, InitArchive, StepArchive, PTL DEF Spec, ImplementsArchive, Kept!Spec

\* What follows from Archive alone: an open directory that is one run's has all the
\* answers of the drives, of which each is data or a refusal.
THEOREM ArchiveOfDump == Spec => []Kept!Faithful
<1>1. Kept!Init => Kept!Faithful
  BY DEF Kept!Init, Kept!Faithful
<1>2. Kept!Faithful /\ [Kept!Next]_(Kept!vars) => Kept!Faithful'
  <2> SUFFICES ASSUME Kept!Faithful, [Kept!Next]_(Kept!vars), ~reused'
               PROVE  Kept!Faithful'
    BY DEF Kept!Faithful
  <2>1. CASE Kept!Begin
    BY <2>1 DEF Kept!Begin, Kept!Faithful
  <2>2. CASE Kept!Publish
    BY <2>2 DEF Kept!Publish, Kept!Faithful
  <2>3. ASSUME NEW c \in Cells, NEW answer \in {"data", "unsupported"},
               Kept!Hear(c, answer)
        PROVE  Kept!Faithful'
    BY <2>3 DEF Kept!Hear, Kept!Faithful
  <2>4. CASE UNCHANGED Kept!vars
    BY <2>4 DEF Kept!vars, Kept!Faithful
  <2> QED
    BY <2>1, <2>2, <2>3, <2>4 DEF Kept!Next, Kept!Mix
<1> QED
  BY <1>1, <1>2, DumpImplementsArchive, PTL DEF ImplementsArchive, Kept!Spec

=============================================================================
