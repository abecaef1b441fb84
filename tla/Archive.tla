------------------------------ MODULE Archive ------------------------------
(***************************************************************************)
(* What a directory of dumps promises to who replays it, without files,    *)
(* truncation or kills.  It is closed while a run asks the drives, opens   *)
(* all at once when every drive has answered everything, and keeps these   *)
(* answers.  Nothing is promised of a directory that two runs wrote to.    *)
(*                                                                         *)
(* Dump implements it, see ImplementsArchive there.                        *)
(***************************************************************************)
CONSTANT Cells   \* what can be asked for: a controller and a file

VARIABLES
  heard,    \* how the drives answered the run that fills the directory
  content,  \* how the directory answers, or Closed
  mixed     \* has another run written to it?

vars == <<heard, content, mixed>>

Closed == <<>>

Init ==
  /\ heard = [c \in Cells |-> "unasked"]
  /\ content = Closed /\ mixed = FALSE

\* A run begins, in a directory of its own.
Begin ==
  /\ heard' = [c \in Cells |-> "unasked"]
  /\ content' = Closed /\ mixed' = FALSE

Hear(c, answer) ==
  /\ content = Closed /\ heard[c] = "unasked"
  /\ heard' = [heard EXCEPT ![c] = answer]
  /\ UNCHANGED <<content, mixed>>

Publish ==
  /\ content = Closed
  /\ \A c \in Cells : heard[c] # "unasked"
  /\ content' = heard
  /\ UNCHANGED <<heard, mixed>>

\* A run writes to a directory that is not its own.
Mix == mixed'

Next ==
  \/ Begin \/ Publish \/ Mix
  \/ \E c \in Cells, answer \in {"data", "unsupported"} : Hear(c, answer)

Spec == Init /\ [][Next]_vars

\* What follows: an open directory gives every answer the drives gave, and these
\* are data or refusals.
Faithful ==
  ~mixed =>
    /\ heard \in [Cells -> {"unasked", "data", "unsupported"}]
    /\ content # Closed => content = heard /\ \A c \in Cells : heard[c] # "unasked"

=============================================================================
