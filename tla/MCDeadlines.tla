---------------------------- MODULE MCDeadlines ----------------------------
(***************************************************************************)
(* Values of the constants of Deadlines for model checking: two working    *)
(* controllers behind one or two hung ones, headers on both sides of every *)
(* comparison scrapeDeadline makes, and a "uint32" small enough to         *)
(* overflow.                                                               *)
(***************************************************************************)
EXTENDS Deadlines

MCHeaders == {[usable |-> FALSE, ms |-> 0], [usable |-> TRUE, ms |-> -1],
              [usable |-> TRUE, ms |-> 0], [usable |-> TRUE, ms |-> 1],
              [usable |-> TRUE, ms |-> 3], [usable |-> TRUE, ms |-> 5],
              [usable |-> TRUE, ms |-> 9]}
=============================================================================
