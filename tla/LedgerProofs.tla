---------------------------- MODULE LedgerProofs ----------------------------
(***************************************************************************)
(* What follows from Ledger for any readers and failures.                  *)
(***************************************************************************)
EXTENDS Ledger, TLAPS

LEMMA InitLedger == CounterOf \in [Occurrences -> Counters] /\ Init => LedgerInv
BY DEF Init, LedgerInv, TypeOK

LEMMA NextLedger ==
  CounterOf \in [Occurrences -> Counters] /\ LedgerInv /\ [Next]_vars => LedgerInv'
<1> SUFFICES ASSUME CounterOf \in [Occurrences -> Counters], LedgerInv, [Next]_vars
             PROVE  LedgerInv'
  OBVIOUS
<1> USE DEF LedgerInv, TypeOK
<1>1. ASSUME NEW r \in Readers, Arrive(r) PROVE LedgerInv'
  BY <1>1 DEF Arrive
<1>2. ASSUME NEW r \in Readers, Answer(r) PROVE LedgerInv'
  BY <1>2 DEF Answer
<1>3. ASSUME NEW o \in Occurrences, Fail(CounterOf[o], o) PROVE LedgerInv'
  <2> DEFINE k == CounterOf[o]
  <2>1. k \in Counters
    OBVIOUS
  <2> HIDE DEF k
  <2>2. /\ count' \in [Counters -> Nat] /\ failing' = failing \cup {k}
        /\ owed' = IF k \in failing THEN owed ELSE owed \cup {o}
        /\ \A l \in Counters : count'[l] = IF l = k THEN count[l] + 1 ELSE count[l]
        /\ UNCHANGED <<waiting, answered, written, shown>>
    BY <1>3, <2>1 DEF Fail, k
  <2>3. \E p \in owed' : CounterOf[p] = k
    BY <2>1, <2>2 DEF k
  <2>4. \A l \in Counters :
          count'[l] > 0 \/ l \in failing' => \E p \in owed' : CounterOf[p] = l
    BY <2>2, <2>3
  <2>5. \A r \in Readers, l \in Counters : shown'[r][l] <= count'[l]
    BY <2>2
  <2> QED
    BY <2>1, <2>2, <2>4, <2>5
<1>4. ASSUME NEW o \in Occurrences, Write(o) PROVE LedgerInv'
  BY <1>4 DEF Write
<1>5. ASSUME NEW k \in Counters, Recover(k[1]) PROVE LedgerInv'
  BY <1>5 DEF Recover
<1>6. CASE UNCHANGED vars
  BY <1>6 DEF vars
<1> QED
  BY <1>1, <1>2, <1>3, <1>4, <1>5, <1>6 DEF Next

\* A counter that is not zero has its line in the log, or owed, whatever
\* episodes ended since; and nobody was ever shown more than there was.
THEOREM LedgerHolds == CounterOf \in [Occurrences -> Counters] /\ Spec => []LedgerInv
<1>1. CounterOf \in [Occurrences -> Counters] => (Spec => []LedgerInv)
  <2> SUFFICES ASSUME CounterOf \in [Occurrences -> Counters]
               PROVE  Spec => []LedgerInv
    OBVIOUS
  <2>1. Init => LedgerInv
    BY InitLedger
  <2>2. LedgerInv /\ [Next]_vars => LedgerInv'
    BY NextLedger
  <2> QED
    BY <2>1, <2>2, PTL DEF Spec
<1> QED
  BY <1>1

=============================================================================
