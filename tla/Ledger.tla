------------------------------- MODULE Ledger -------------------------------
(***************************************************************************)
(* What the exporter promises about failures, without goroutines, mutexes  *)
(* or reads: a counter per device and reason that a failure raises at once *)
(* and an answer shows as it is at that moment, and a log line that is owed *)
(* exactly when a failure begins a new episode.  An episode lasts until the *)
(* device is found well.  Nothing of this happens unless somebody is        *)
(* waiting for an answer: there is no background polling.                  *)
(*                                                                         *)
(* Exporter implements it, see ImplementsLedger there.                     *)
(***************************************************************************)
EXTENDS Naturals

CONSTANTS
  Readers,       \* requests
  Counters,      \* <<device, reason>>
  Occurrences,   \* failures that may happen
  CounterOf      \* the counter of each of them

VARIABLES
  waiting, answered,  \* readers
  count,              \* errors_total
  failing,            \* counters in whose episode we are
  owed, written,      \* the failures that began an episode, and those of them
                      \* whose line is in the log
  shown               \* what each reader was shown

vars == <<waiting, answered, count, failing, owed, written, shown>>

Init ==
  /\ waiting = {} /\ answered = {}
  /\ count = [k \in Counters |-> 0]
  /\ failing = {}
  /\ owed = {} /\ written = {}
  /\ shown = [r \in Readers |-> [k \in Counters |-> 0]]

Arrive(r) ==
  /\ r \notin waiting \cup answered
  /\ waiting' = waiting \cup {r}
  /\ UNCHANGED <<answered, count, failing, owed, written, shown>>

\* An answer is consistent: all its counters are of one moment.
Answer(r) ==
  /\ r \in waiting
  /\ waiting' = waiting \ {r} /\ answered' = answered \cup {r}
  /\ shown' = [shown EXCEPT ![r] = count]
  /\ UNCHANGED <<count, failing, owed, written>>

Fail(k, o) ==
  /\ waiting # {}
  /\ CounterOf[o] = k
  /\ count' = [count EXCEPT ![k] = @ + 1]
  /\ failing' = failing \cup {k}
  /\ o \notin owed
  /\ owed' = IF k \in failing THEN owed ELSE owed \cup {o}
  /\ UNCHANGED <<waiting, answered, written, shown>>

Write(o) ==
  /\ waiting # {}
  /\ o \in owed \ written
  /\ written' = written \cup {o}
  /\ UNCHANGED <<waiting, answered, count, failing, owed, shown>>

Recover(d) ==
  /\ waiting # {}
  /\ failing' = {k \in failing : k[1] # d}
  /\ UNCHANGED <<waiting, answered, count, owed, written, shown>>

Next ==
  \/ \E r \in Readers : Arrive(r) \/ Answer(r)
  \/ \E o \in Occurrences : Fail(CounterOf[o], o) \/ Write(o)
  \/ \E k \in Counters : Recover(k[1])

Spec == Init /\ [][Next]_vars

-----------------------------------------------------------------------------
(* What follows.                                                           *)

TypeOK ==
  /\ waiting \subseteq Readers /\ answered \subseteq Readers
  /\ count \in [Counters -> Nat]
  /\ failing \subseteq Counters
  /\ owed \subseteq Occurrences /\ written \subseteq owed
  /\ shown \in [Readers -> [Counters -> Nat]]

\* A counter that is not zero has its line in the log, or owed; nobody was shown
\* more than there is.
LedgerInv ==
  /\ TypeOK
  /\ \A k \in Counters :
       count[k] > 0 \/ k \in failing => \E o \in owed : CounterOf[o] = k
  /\ \A r \in Readers, k \in Counters : shown[r][k] <= count[k]

=============================================================================
